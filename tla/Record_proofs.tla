---------------------------- MODULE Record_proofs ----------------------------
(***************************************************************************)
(* Records, for any lists of members with any sizes and alignments, and    *)
(* any number of objects: the layout of Perl, of the C compiler and of     *)
(* libffi are one; a store, by Perl or by C, changes nothing but the bytes *)
(* of its member, and what is read is what a C variable would be; heap     *)
(* strings have one owner.                                                 *)
(*                                                                         *)
(* The definitions of Record are recursive functions.  Induction is over a *)
(* set of numbers (SetInduction), and a recursive function is what its     *)
(* equation says because a function that does so exists (Recursion).       *)
(***************************************************************************)
EXTENDS Record, SequenceTheorems, WellFoundedInduction, TLAPS

-----------------------------------------------------------------------------
(* Induction and recursion over the naturals, with sets and functions.     *)

(* A set of numbers that has 0, and the next number of each it has, has    *)
(* all of them.                                                            *)
LEMMA SetInduction ==
  ASSUME NEW T, 0 \in T, \A n \in Nat : n \in T => n + 1 \in T
  PROVE  Nat \subseteq T
<1> DEFINE R == {ss \in Nat \X Nat : ss[1] < ss[2]}
           U == Nat \ T
<1> SUFFICES ASSUME U # {} PROVE FALSE
  OBVIOUS
<1>1. IsWellFoundedOn(R, Nat)
  BY NatLessThanWellFounded DEF OpToRel
<1> HIDE DEF R
<1>2. PICK x \in U : \A y \in U : ~ (<<y, x>> \in R)
  BY <1>1, WFMin
<1>3. \A y \in U : ~ (y < x)
  <2> TAKE y \in U
  <2>1. <<y, x>> \notin R
    BY <1>2
  <2> QED
    BY <2>1 DEF R
<1>4. x # 0 /\ x - 1 \in Nat /\ x \in Nat /\ x - 1 \notin U
  BY <1>3
<1>5. x - 1 + 1 \in T
  BY <1>4
<1> QED
  BY <1>2, <1>4, <1>5

(* Functions that begin and go on alike are alike.                         *)
Linked(n, g, h) == g[0] = h[0] /\ \A i \in 1..n : g[i - 1] = h[i - 1] => g[i] = h[i]
Same(n, g, h) == \A i \in 0..n : g[i] = h[i]

LEMMA Alike ==
  ASSUME NEW n \in Nat, NEW g, NEW h, Linked(n, g, h)
  PROVE  Same(n, g, h)
<1> DEFINE T == {i \in Nat : i <= n => g[i] = h[i]}
<1>1. 0 \in T
  BY DEF Linked
<1>2. ASSUME NEW i \in Nat, i \in T
      PROVE  i + 1 \in T
  <2> SUFFICES ASSUME i + 1 <= n PROVE g[i + 1] = h[i + 1]
    OBVIOUS
  <2>1. i + 1 \in 1..n /\ (i + 1) - 1 = i /\ g[i] = h[i]
    BY <1>2
  <2> QED
    BY <2>1 DEF Linked
<1> HIDE DEF T
<1>3. Nat \subseteq T
  BY <1>1, <1>2, SetInduction
<1> QED
  BY <1>3 DEF T, Same

(* g is defined from z, step by step as G says, up to n.                   *)
Steps(n, V, z, G, g) ==
  /\ g \in [0..n -> V]
  /\ g[0] = z
  /\ \A i \in 1..n : g[i] = G[<<i, g[i - 1]>>]

(* There is a function that takes any number of those steps.               *)
LEMMA StepsExist ==
  ASSUME NEW D \in SUBSET Nat, \A i \in Nat : i + 1 \in D => i \in D,
         NEW V, NEW z \in V, NEW G \in [D \X V -> V]
  PROVE  \A n \in D : \E g : Steps(n, V, z, G, g)
<1> DEFINE T == {n \in Nat : n \in D => \E g : Steps(n, V, z, G, g)}
<1>1. 0 \in T
  <2>1. Steps(0, V, z, G, [i \in 0..0 |-> z])
    BY DEF Steps
  <2> QED
    BY <2>1
<1>2. ASSUME NEW n \in Nat, n \in T
      PROVE  n + 1 \in T
  <2> SUFFICES ASSUME n + 1 \in D PROVE \E g : Steps(n + 1, V, z, G, g)
    OBVIOUS
  <2>1. PICK g : Steps(n, V, z, G, g)
    BY <1>2
  <2> DEFINE v == G[<<n + 1, g[n]>>]
             h == [i \in 0..n + 1 |-> IF i = n + 1 THEN v ELSE g[i]]
  <2>2. g[n] \in V /\ v \in V
    BY <2>1 DEF Steps
  <2> HIDE DEF v
  <2>3. h \in [0..n + 1 -> V] /\ h[0] = z
    BY <2>1, <2>2 DEF Steps
  <2>4. ASSUME NEW i \in 1..n + 1
        PROVE  h[i] = G[<<i, h[i - 1]>>]
    <3>1. CASE i = n + 1
      <4>1. h[i] = v /\ h[i - 1] = g[n]
        BY <3>1
      <4> QED
        BY <3>1, <4>1 DEF v
    <3>2. CASE i \in 1..n
      <4>1. h[i] = g[i] /\ h[i - 1] = g[i - 1]
        BY <3>2
      <4> QED
        BY <2>1, <3>2, <4>1 DEF Steps
    <3> QED
      BY <3>1, <3>2
  <2> HIDE DEF h
  <2> QED
    BY <2>3, <2>4 DEF Steps
<1> HIDE DEF T
<1>3. Nat \subseteq T
  BY <1>1, <1>2, SetInduction
<1> QED
  BY <1>3 DEF T

(* A function is defined by its first value and the step to the next.      *)
Recursive(D, V, z, G, f) ==
  /\ f \in [D -> V]
  /\ \A i \in D : f[i] = IF i = 0 THEN z ELSE G[<<i, f[i - 1]>>]

(* A recursive function has values where it says it has, and the values    *)
(* are those that its equation says.                                       *)
LEMMA Recursion ==
  ASSUME NEW D \in SUBSET Nat, \A i \in Nat : i + 1 \in D => i \in D,
         NEW V, NEW z \in V, NEW G \in [D \X V -> V]
  PROVE  \E f : Recursive(D, V, z, G, f)
<1> DEFINE g(n) == CHOOSE x : Steps(n, V, z, G, x)
           f == [i \in D |-> g(i)[i]]
<1>1. \A n \in D : Steps(n, V, z, G, g(n))
  BY StepsExist
<1>2. ASSUME NEW i \in D
      PROVE  f[i] \in V /\ f[i] = IF i = 0 THEN z ELSE G[<<i, f[i - 1]>>]
  <2>1. Steps(i, V, z, G, g(i)) /\ i \in Nat
    BY <1>1
  <2>2. CASE i = 0
    BY <2>1, <2>2 DEF Steps
  <2>3. CASE i # 0
    <3>1. i - 1 \in D /\ i - 1 \in Nat /\ i \in 1..i
      <4>1. (i - 1) + 1 \in D /\ i - 1 \in Nat
        BY <2>1, <2>3
      <4> QED
        BY <2>1, <2>3, <4>1
    <3>2. Steps(i - 1, V, z, G, g(i - 1))
      BY <1>1, <3>1
    <3> DEFINE p == g(i)
               q == g(i - 1)
    <3>3. /\ p \in [0..i -> V] /\ p[0] = z
          /\ \A j \in 1..i : p[j] = G[<<j, p[j - 1]>>]
      BY <2>1 DEF Steps
    <3>4. /\ q[0] = z
          /\ \A j \in 1..i - 1 : q[j] = G[<<j, q[j - 1]>>]
      BY <3>2 DEF Steps
    <3> HIDE DEF p, q
    <3>5. \A j \in 1..i - 1 : p[j] = G[<<j, p[j - 1]>>]
      BY <3>1, <3>3
    <3>6. \A j \in 1..i - 1 : p[j - 1] = q[j - 1] => p[j] = q[j]
      BY <3>4, <3>5
    <3>7. p[0] = q[0]
      BY <3>3, <3>4
    <3>8. \A j \in 0..i - 1 : p[j] = q[j]
      <4>1. Linked(i - 1, p, q)
        BY <3>6, <3>7 DEF Linked
      <4>2. i - 1 \in Nat
        BY <3>1
      <4>3. Same(i - 1, p, q)
        BY ONLY <4>1, <4>2, Alike
      <4> QED
        BY <4>3 DEF Same
    <3>9. p[i - 1] = q[i - 1]
      BY <3>1, <3>8
    <3>10. f[i] = p[i] /\ f[i - 1] = q[i - 1]
      BY <3>1 DEF p, q
    <3>11. p[i] = G[<<i, p[i - 1]>>] /\ p[i] \in V
      BY <2>1, <3>1, <3>3
    <3> HIDE DEF f
    <3> QED
      BY <2>3, <3>9, <3>10, <3>11
  <2> QED
    BY <2>2, <2>3
<1>3. f = [i \in D |-> f[i]]
  OBVIOUS
<1> HIDE DEF f
<1>4. f \in [D -> V]
  BY <1>2, <1>3
<1> QED
  BY <1>2, <1>4 DEF Recursive

-----------------------------------------------------------------------------
(* Division. Quotient and remainder are operators, so that the provers     *)
(* take them as they are.                                                  *)

-----------------------------------------------------------------------------
(* Numbers and their bytes                                                 *)

(* The division of a by b, which the provers are not to look into.         *)
Quot(a, b) == a \div b
Rem(a, b) == a % b

(* Division leaves a remainder.                                            *)
LEMMA Divided ==
  ASSUME NEW a \in Int, NEW b \in Nat \ {0}
  PROVE  /\ Quot(a, b) \in Int /\ Rem(a, b) \in 0..b - 1
         /\ a = b * Quot(a, b) + Rem(a, b)
<1>1. Quot(a, b) \in Int
  BY DEF Quot
<1>2. Rem(a, b) \in 0..b - 1
  BY DEF Rem
<1>3. ASSUME NEW q, NEW r, q = a \div b, r = a % b
      PROVE  a = b * q + r
  BY <1>3
<1>4. Quot(a, b) = a \div b /\ Rem(a, b) = a % b
  BY DEF Quot, Rem
<1>5. a = b * Quot(a, b) + Rem(a, b)
  BY <1>3, <1>4, Zenon
<1> QED
  BY <1>1, <1>2, <1>5

(* The only multiples below a number are those that are not positive.      *)
LEMMA NoMultipleBelow ==
  ASSUME NEW x \in Int, NEW b \in Nat \ {0}, b * x < b
  PROVE  x <= 0
OBVIOUS

(* A quotient and a remainder are those of the division.                   *)
LEMMA DivisionUnique ==
  ASSUME NEW a \in Int, NEW b \in Nat \ {0}, NEW q \in Int, NEW r \in 0..b - 1,
         a = b * q + r
  PROVE  q = Quot(a, b) /\ r = Rem(a, b)
<1> DEFINE x == Quot(a, b)
           y == Rem(a, b)
<1>1. x \in Int /\ y \in 0..b - 1 /\ a = b * x + y
  BY Divided
<1> HIDE DEF x, y
<1>2. b * x - b * q < b /\ b * q - b * x < b
  BY <1>1
<1>3. b * (x - q) < b /\ b * (q - x) < b
  <2>1. b * (x - q) = b * x - b * q /\ b * (q - x) = b * q - b * x
    BY <1>1
  <2> QED
    BY <1>2, <2>1
<1>4. x - q <= 0 /\ q - x <= 0
  BY <1>1, <1>3, NoMultipleBelow
<1>5. x = q
  BY <1>1, <1>4
<1>6. y = r
  BY <1>1, <1>5
<1> QED
  BY <1>5, <1>6 DEF x, y

(* Digits make a number below the power of their base.                     *)
LEMMA Product ==
  ASSUME NEW b \in Nat \ {0}, NEW p \in Nat \ {0}, NEW d \in 0..p - 1, NEW c \in 0..b - 1
  PROVE  b * p \in Nat \ {0} /\ b * d + c \in 0..b * p - 1
<1>1. b * d <= b * (p - 1) /\ b * (p - 1) = b * p - b
  OBVIOUS
<1>2. b * d \in Nat /\ b * p \in Nat /\ b * p > 0
  OBVIOUS
<1> QED
  BY <1>1, <1>2

(* Division in two steps, and its remainder.                               *)
LEMMA DivisionTwice ==
  ASSUME NEW h \in Int, NEW b \in Nat \ {0}, NEW p \in Nat \ {0}
  PROVE  /\ Quot(Quot(h, b), p) = Quot(h, b * p)
         /\ Rem(h, b * p) = b * Rem(Quot(h, b), p) + Rem(h, b)
<1> DEFINE y == Quot(h, b)
           c == Rem(h, b)
           z == Quot(y, p)
           d == Rem(y, p)
<1>1. y \in Int /\ c \in 0..b - 1 /\ h = b * y + c
  BY Divided
<1> HIDE DEF y, c
<1>2. z \in Int /\ d \in 0..p - 1 /\ y = p * z + d
  BY <1>1, Divided
<1> HIDE DEF z, d
<1>3. b * p \in Nat \ {0} /\ b * d + c \in 0..b * p - 1
  BY <1>1, <1>2, Product
<1>4. h = (b * p) * z + (b * d + c)
  <2>1. b * (p * z + d) = (b * p) * z + b * d
    BY <1>2
  <2> QED
    BY <1>1, <1>2, <2>1
<1>5. z = Quot(h, b * p) /\ b * d + c = Rem(h, b * p)
  BY <1>2, <1>3, <1>4, DivisionUnique
<1> QED
  BY <1>5 DEF y, z, c, d

(* A byte has an even number of values.                                    *)
LEMMA Bases == Base \in Nat \ {0} /\ Base % 2 = 0 /\ Pointer \in Nat \ {0}
BY RecordAssumption DEF RecordAssumption

(* The powers of the base are what their recursive definition says.        *)
LEMMA Powers ==
  /\ Pow[0] = 1
  /\ \A i \in Nat : Pow[i] \in Nat \ {0} /\ Pow[i + 1] = Base * Pow[i]
<1> DEFINE V == Nat \ {0}
           G == [p \in Nat \X V |-> Base * p[2]]
           D == Nat
           Is(f) == f = [i \in Nat |-> IF i = 0 THEN 1 ELSE Base * f[i - 1]]
<1>1. G \in [D \X V -> V] /\ 1 \in V /\ D \in SUBSET Nat /\ \A i \in Nat : i + 1 \in D => i \in D
  <2>1. \A v \in V : Base * v \in V
    BY Bases
  <2> QED
    BY <2>1
<1>2. PICK f : Recursive(D, V, 1, G, f)
  <2> HIDE DEF D, V, G
  <2> QED
    BY <1>1, Recursion
<1>3. ASSUME NEW i \in Nat
      PROVE  f[i] = IF i = 0 THEN 1 ELSE Base * f[i - 1]
  <2>1. CASE i = 0
    BY <1>2, <2>1 DEF Recursive
  <2>2. CASE i # 0
    <3>1. f[i - 1] \in V /\ i - 1 \in Nat
      BY <1>2, <2>2 DEF Recursive
    <3>2. f[i] = G[<<i, f[i - 1]>>]
      BY <1>2, <2>2 DEF Recursive
    <3>3. G[<<i, f[i - 1]>>] = Base * f[i - 1]
      BY <3>1
    <3> QED
      BY <2>2, <3>2, <3>3
  <2> QED
    BY <2>1, <2>2
<1>4. Is(f)
  <2>1. f = [i \in Nat |-> f[i]]
    BY <1>2 DEF Recursive
  <2> HIDE DEF G
  <2> QED
    BY <1>3, <2>1
<1>5. Is(Pow)
  <2>1. Pow = CHOOSE g : Is(g)
    BY DEF Pow
  <2> HIDE DEF Is
  <2> QED
    BY <1>4, <2>1
<1>6. \A i \in Nat : Pow[i] = IF i = 0 THEN 1 ELSE Base * Pow[i - 1]
  BY <1>5
<1> DEFINE T == {i \in Nat : Pow[i] \in V}
<1>7. 0 \in T
  BY <1>6
<1>8. ASSUME NEW i \in Nat, i \in T
      PROVE  i + 1 \in T
  <2>1. Pow[i + 1] = Base * Pow[i]
    BY <1>6
  <2> QED
    BY <1>8, <2>1, Bases
<1> HIDE DEF T
<1>9. Nat \subseteq T
  BY <1>7, <1>8, SetInduction
<1>10. \A i \in Nat : Pow[i + 1] = Base * Pow[i]
  <2> TAKE i \in Nat
  <2>1. Pow[i + 1] = IF i + 1 = 0 THEN 1 ELSE Base * Pow[(i + 1) - 1]
    BY <1>6
  <2>2. (i + 1) - 1 = i /\ i + 1 # 0
    OBVIOUS
  <2> QED
    BY <2>1, <2>2
<1> QED
  BY <1>6, <1>9, <1>10 DEF T

-----------------------------------------------------------------------------
(* Numbers and their bytes                                                 *)

(* The bytes that are stored are bytes.                                    *)
LEMMA ByteIs ==
  ASSUME NEW g \in Int, NEW i \in Nat
  PROVE  /\ Byte(g, i) = Rem(Quot(g, Pow[i]), Base)
         /\ Byte(g, i) \in 0..Base - 1
<1>1. Byte(g, i) = Rem(Quot(g, Pow[i]), Base)
  BY DEF Byte, Rem, Quot
<1>2. Quot(g, Pow[i]) \in Int
  BY Divided, Powers
<1> QED
  BY <1>1, <1>2, Divided, Bases

(* The number that bytes are, byte by byte from the highest.               *)
Digits(bytes, o, w, n) ==
  /\ n \in [0..w -> Nat]
  /\ n[0] = 0
  /\ \A i \in 1..w : n[i] = Base * n[i - 1] + bytes[o + w - i]
  /\ Number(bytes, o, w) = n[w]

(* The number that bytes are has such a list of partial numbers.           *)
LEMMA NumberDigits ==
  ASSUME NEW w \in Nat, NEW o \in Nat, NEW bytes, \A i \in o..o + w - 1 : bytes[i] \in Nat
  PROVE  \E n : Digits(bytes, o, w, n)
<1> DEFINE D == 0..w
           F(i, x) == Base * x + bytes[o + w - i]
           G == [p \in D \X Nat |-> IF p[1] \in 1..w THEN F(p[1], p[2]) ELSE 0]
           Is(f) == f = [i \in 0..w |-> IF i = 0 THEN 0 ELSE F(i, f[i - 1])]
<1>1. \A i \in 1..w, x \in Nat : F(i, x) \in Nat
  <2> TAKE i \in 1..w, x \in Nat
  <2>1. bytes[o + w - i] \in Nat
    OBVIOUS
  <2>2. Base * x \in Nat
    BY Bases
  <2> QED
    BY <2>1, <2>2
<1> HIDE DEF F
<1>2. G \in [D \X Nat -> Nat]
  BY <1>1
<1>3. D \in SUBSET Nat /\ \A i \in Nat : i + 1 \in D => i \in D
  OBVIOUS
<1>4. PICK f : Recursive(D, Nat, 0, G, f)
  <2> DEFINE V == Nat
  <2>1. 0 \in V /\ G \in [D \X V -> V]
    BY <1>2
  <2> HIDE DEF D, G, V
  <2>2. \E f : Recursive(D, V, 0, G, f)
    BY <1>3, <2>1, Recursion
  <2> QED
    BY <2>2 DEF V
<1>5. f \in [0..w -> Nat] /\ f[0] = 0
  <2>1. 0 \in D
    OBVIOUS
  <2> HIDE DEF D, G
  <2>2. f \in [D -> Nat] /\ \A i \in D : i = 0 => f[i] = 0
    BY <1>4 DEF Recursive
  <2> QED
    BY <2>1, <2>2 DEF D
<1>6. ASSUME NEW i \in 1..w
      PROVE  f[i] = F(i, f[i - 1])
  <2>1. f[i - 1] \in Nat /\ i \in D /\ i # 0
    BY <1>5
  <2>2. f[i] = G[<<i, f[i - 1]>>]
    BY <1>4, <2>1 DEF Recursive
  <2> QED
    BY <2>1, <2>2
<1> HIDE DEF G
<1>7. Is(f)
  <2>1. \A i \in 0..w : f[i] = IF i = 0 THEN 0 ELSE F(i, f[i - 1])
    BY <1>5, <1>6
  <2> QED
    BY <1>5, <2>1
<1> DEFINE n == CHOOSE x : Is(x)
<1>8. Is(n)
  <2> HIDE DEF Is
  <2> QED
    BY <1>7
<1>9. Number(bytes, o, w) = n[w]
  BY DEF Number, F
<1> HIDE DEF n
<1>10. n[0] = 0 /\ \A i \in 1..w : n[i] = F(i, n[i - 1])
  BY <1>8
<1>11. \A i \in 0..w : n[i] = f[i]
  <2>1. Linked(w, n, f)
    BY <1>5, <1>6, <1>10 DEF Linked
  <2>2. w \in Nat
    OBVIOUS
  <2>3. Same(w, n, f)
    BY ONLY <2>1, <2>2, Alike
  <2> QED
    BY <2>3 DEF Same
<1>12. Number(bytes, o, w) = f[w]
  BY <1>9, <1>11
<1> QED
  BY <1>5, <1>6, <1>12 DEF Digits, F

(* The same bytes are the same number.                                     *)
LEMMA NumberSame ==
  ASSUME NEW w \in Nat, NEW o \in Nat, NEW b, NEW c,
         \A i \in o..o + w - 1 : b[i] \in Nat /\ c[i] = b[i]
  PROVE  Number(b, o, w) = Number(c, o, w)
<1>1. PICK n : Digits(b, o, w, n)
  BY NumberDigits
<1>2. PICK m : Digits(c, o, w, m)
  BY NumberDigits
<1>3. n[0] = m[0]
  BY <1>1, <1>2 DEF Digits
<1>4. ASSUME NEW i \in 1..w, n[i - 1] = m[i - 1]
      PROVE  n[i] = m[i]
  <2>1. o + w - i \in o..o + w - 1
    OBVIOUS
  <2>2. b[o + w - i] = c[o + w - i]
    BY <2>1
  <2>3. n[i] = Base * n[i - 1] + b[o + w - i] /\ m[i] = Base * m[i - 1] + c[o + w - i]
    BY <1>1, <1>2 DEF Digits
  <2> QED
    BY <1>4, <2>2, <2>3
<1>5. n[w] = m[w]
  <2>1. \A i \in 1..w : n[i - 1] = m[i - 1] => n[i] = m[i]
    BY <1>4
  <2>2. \A i \in 0..w : n[i] = m[i]
    <3>1. w \in Nat
      OBVIOUS
    <3>2. Linked(w, n, m)
      BY <1>3, <2>1 DEF Linked
    <3>3. Same(w, n, m)
      BY ONLY <3>1, <3>2, Alike
    <3> QED
      BY <3>3 DEF Same
  <2> QED
    BY <2>2
<1> QED
  BY <1>1, <1>2, <1>5 DEF Digits

(* The bytes of g are what g leaves when divided by their values.          *)
LEMMA NumberStored ==
  ASSUME NEW w \in Nat, NEW o \in Nat, NEW b, NEW g \in Int,
         \A j \in 0..w - 1 : b[o + j] = Byte(g, j)
  PROVE  Number(b, o, w) = Rem(g, Pow[w])
<1>1. \A i \in o..o + w - 1 : b[i] \in Nat
  <2> TAKE i \in o..o + w - 1
  <2>1. i - o \in 0..w - 1 /\ i = o + (i - o) /\ i - o \in Nat
    OBVIOUS
  <2>2. b[i] = Byte(g, i - o)
    BY <2>1
  <2>3. Byte(g, i - o) \in 0..Base - 1
    BY <2>1, ByteIs
  <2> QED
    BY <2>2, <2>3, Bases
<1>2. PICK n : Digits(b, o, w, n)
  BY <1>1, NumberDigits
<1> DEFINE T == {i \in Nat : i <= w => n[i] = Rem(Quot(g, Pow[w - i]), Pow[i])}
<1>3. 0 \in T
  <2>1. Quot(g, Pow[w]) \in Int
    BY Divided, Powers
  <2>2. Rem(Quot(g, Pow[w]), 1) \in 0..0
    BY <2>1, Divided
  <2>3. Pow[0] = 1 /\ w - 0 = w
    BY Powers
  <2> QED
    BY <1>2, <2>2, <2>3 DEF Digits
<1>4. ASSUME NEW i \in Nat, i \in T
      PROVE  i + 1 \in T
  <2> SUFFICES ASSUME i + 1 <= w
               PROVE  n[i + 1] = Rem(Quot(g, Pow[w - (i + 1)]), Pow[i + 1])
    OBVIOUS
  <2> DEFINE j == w - (i + 1)
             h == Quot(g, Pow[j])
  <2>1. j \in 0..w - 1 /\ j \in Nat /\ j + 1 = w - i /\ i + 1 \in 1..w /\ (i + 1) - 1 = i
        /\ o + w - (i + 1) = o + j
    OBVIOUS
  <2>2. n[i] = Rem(Quot(g, Pow[j + 1]), Pow[i])
    BY <1>4, <2>1
  <2> HIDE DEF j
  <2>3. n[i + 1] = Base * n[i] + b[o + j]
    <3>1. n[i + 1] = Base * n[(i + 1) - 1] + b[o + w - (i + 1)]
      BY <1>2, <2>1 DEF Digits
    <3> QED
      BY <2>1, <3>1
  <2>4. h \in Int /\ Pow[j] \in Nat \ {0} /\ Pow[i] \in Nat \ {0}
        /\ Pow[j + 1] = Base * Pow[j] /\ Pow[i + 1] = Base * Pow[i]
    BY <2>1, Divided, Powers
  <2>5. b[o + j] = Rem(h, Base)
    BY <2>1, ByteIs
  <2> HIDE DEF h
  <2>6. Quot(h, Base) = Quot(g, Pow[j + 1])
    <3>1. Quot(Quot(g, Pow[j]), Base) = Quot(g, Pow[j] * Base)
      BY <2>4, Bases, DivisionTwice
    <3>2. Pow[j] * Base = Pow[j + 1]
      BY <2>4, Bases
    <3> QED
      BY <3>1, <3>2 DEF h
  <2>7. Rem(h, Base * Pow[i]) = Base * Rem(Quot(h, Base), Pow[i]) + Rem(h, Base)
    BY <2>4, Bases, DivisionTwice
  <2>8. n[i + 1] = Rem(h, Pow[i + 1])
    BY <2>2, <2>3, <2>4, <2>5, <2>6, <2>7
  <2> QED
    BY <2>8 DEF h, j
<1> HIDE DEF T
<1>5. w \in T
  BY <1>3, <1>4, SetInduction
<1>6. n[w] = Rem(Quot(g, Pow[w - w]), Pow[w])
  BY <1>5 DEF T
<1>7. Quot(g, Pow[w - w]) = g
  <2>1. Pow[w - w] = 1
    BY Powers
  <2>2. g = Quot(g, 1)
    BY DivisionUnique
  <2> QED
    BY <2>1, <2>2
<1> QED
  BY <1>2, <1>6, <1>7 DEF Digits

(* Bytes that are 0 are the number 0.                                      *)
LEMMA NumberZero ==
  ASSUME NEW w \in Nat, NEW o \in Nat, NEW b, \A j \in 0..w - 1 : b[o + j] = 0
  PROVE  Number(b, o, w) = 0
<1>1. \A i \in o..o + w - 1 : b[i] \in Nat
  <2> TAKE i \in o..o + w - 1
  <2>1. i - o \in 0..w - 1 /\ i = o + (i - o)
    OBVIOUS
  <2> QED
    BY <2>1
<1>2. PICK n : Digits(b, o, w, n)
  BY <1>1, NumberDigits
<1> DEFINE z == [i \in 0..w |-> 0]
<1>3. n[0] = z[0]
  BY <1>2 DEF Digits
<1>4. ASSUME NEW i \in 1..w, n[i - 1] = z[i - 1]
      PROVE  n[i] = z[i]
  <2>1. w - i \in 0..w - 1 /\ o + (w - i) = o + w - i
    OBVIOUS
  <2>2. b[o + w - i] = 0 /\ n[i - 1] = 0
    BY <1>4, <2>1
  <2>3. n[i] = Base * n[i - 1] + b[o + w - i]
    BY <1>2 DEF Digits
  <2> QED
    BY <2>2, <2>3, Bases
<1> HIDE DEF z
<1>5. n[w] = z[w]
  <2>1. w \in Nat
    OBVIOUS
  <2>2. Linked(w, n, z)
    BY <1>3, <1>4 DEF Linked
  <2>3. Same(w, n, z)
    BY ONLY <2>1, <2>2, Alike
  <2> QED
    BY <2>1, <2>3 DEF Same
<1> QED
  BY <1>2, <1>5 DEF Digits, z

-----------------------------------------------------------------------------
(* Elements: what is stored in a member, and what is read from it          *)

(* The number that a member of type t keeps of g.                          *)
Keep(t, g) ==
  LET kept == Rem(g, Pow[t.width])
  IN  IF t.signed /\ 2 * kept >= Pow[t.width] THEN kept - Pow[t.width] ELSE kept

(* The highest byte tells whether the number is in the upper half.         *)
LEMMA SignBit ==
  ASSUME NEW p \in Nat \ {0}, NEW top \in 0..Base - 1, NEW low \in 0..p - 1,
         NEW k, k = p * top + low, NEW v, v = Base * p
  PROVE  2 * k >= v <=> 2 * top >= Base
<1>1. PICK c \in Nat : Base = 2 * c
  <2>1. Base = 2 * (Base \div 2) /\ Base \div 2 \in Nat
    BY Bases
  <2> QED
    BY <2>1
<1>2. Base * p = 2 * (p * c) /\ p * c \in Nat /\ p * top \in Nat
  BY <1>1
<1>3. CASE top >= c
  <2>1. p * top >= p * c
    BY <1>3
  <2> QED
    BY <1>1, <1>2, <1>3, <2>1
<1>4. CASE top < c
  <2>1. p * (top + 1) <= p * c /\ p * (top + 1) = p * top + p
    BY <1>1, <1>4
  <2> QED
    BY <1>1, <1>2, <1>4, <2>1
<1> QED
  BY <1>1, <1>3, <1>4

(* What is read from the bytes of g is what C keeps of g.                  *)
LEMMA PeekStored ==
  ASSUME NEW t, t.width \in Nat \ {0}, NEW o \in Nat, NEW b, NEW g \in Int,
         \A j \in 0..t.width - 1 : b[o + j] = Byte(g, j)
  PROVE  Peek(b, o, t) = Keep(t, g)
<1> PICK w : w = t.width
  OBVIOUS
<1> DEFINE kept == Rem(g, Pow[w])
<1>1. w \in Nat \ {0} /\ w - 1 \in Nat /\ w - 1 \in 0..w - 1 /\ (w - 1) + 1 = w
      /\ o + (w - 1) = o + w - 1
  OBVIOUS
<1>2. Number(b, o, w) = kept
  <2>1. \A j \in 0..w - 1 : b[o + j] = Byte(g, j)
    OBVIOUS
  <2> QED
    BY ONLY ZenonT(60), <1>1, <2>1, o \in Nat, g \in Int, NumberStored
<1> DEFINE p == Pow[w - 1]
           top == Rem(Quot(g, p), Base)
           low == Rem(g, p)
<1>3. p \in Nat \ {0} /\ Pow[w] = Base * p /\ Quot(g, p) \in Int
  <2>1. p \in Nat \ {0} /\ Pow[(w - 1) + 1] = Base * p
    BY <1>1, Powers
  <2>2. Quot(g, p) \in Int
    BY <2>1, Divided
  <2> QED
    BY <1>1, <2>1, <2>2
<1>4. b[o + w - 1] = top
  <2>1. b[o + (w - 1)] = Byte(g, w - 1)
    BY <1>1
  <2> QED
    BY <1>1, <2>1, ByteIs
<1> HIDE DEF p
<1>5. top \in 0..Base - 1 /\ low \in 0..p - 1
  BY <1>3, Divided, Bases
<1>6. kept = p * top + low
  <2>1. Rem(g, p * Base) = p * Rem(Quot(g, p), Base) + Rem(g, p)
    BY <1>3, Bases, DivisionTwice
  <2>2. p * Base = Pow[w]
    BY <1>3, Bases
  <2> QED
    BY <2>1, <2>2
<1> HIDE DEF top, low, kept
<1>7. 2 * kept >= Pow[w] <=> 2 * top >= Base
  BY <1>3, <1>5, <1>6, SignBit
<1>8. Peek(b, o, t) = Number(b, o, w) - IF t.signed /\ 2 * b[o + w - 1] >= Base THEN Pow[w] ELSE 0
  BY DEF Peek
<1>9. Keep(t, g) = IF t.signed /\ 2 * kept >= Pow[w] THEN kept - Pow[w] ELSE kept
  BY DEF Keep, kept
<1>10. kept \in Int /\ Pow[w] \in Nat
  BY <1>3, <1>5, <1>6, Bases
<1> QED
  BY <1>2, <1>4, <1>7, <1>8, <1>9, <1>10

(* An element is what its own bytes say, and no other byte.                *)
LEMMA PeekSame ==
  ASSUME NEW t, t.width \in Nat \ {0}, NEW o \in Nat, NEW b, NEW c,
         \A i \in o..o + t.width - 1 : b[i] \in Nat /\ c[i] = b[i]
  PROVE  Peek(b, o, t) = Peek(c, o, t)
<1>1. Number(b, o, t.width) = Number(c, o, t.width)
  BY NumberSame
<1>2. b[o + t.width - 1] = c[o + t.width - 1]
  <2>1. o + t.width - 1 \in o..o + t.width - 1
    OBVIOUS
  <2> QED
    BY <2>1
<1> QED
  BY <1>1, <1>2 DEF Peek

(* An element is 0 in a string of zeros.                                   *)
LEMMA PeekZero ==
  ASSUME NEW t, t.width \in Nat \ {0}, NEW o \in Nat, NEW b,
         \A j \in 0..t.width - 1 : b[o + j] = 0
  PROVE  Peek(b, o, t) = 0
<1>1. Number(b, o, t.width) = 0
  BY NumberZero
<1>2. b[o + t.width - 1] = 0
  <2>1. t.width - 1 \in 0..t.width - 1 /\ o + (t.width - 1) = o + t.width - 1
    OBVIOUS
  <2> QED
    BY <2>1
<1>3. ~ (2 * 0 >= Base)
  BY Bases
<1>4. Peek(b, o, t) = Number(b, o, t.width)
        - IF t.signed /\ 2 * b[o + t.width - 1] >= Base THEN Pow[t.width] ELSE 0
  BY DEF Peek
<1> QED
  BY <1>1, <1>2, <1>3, <1>4

(* The bytes of an element.                                                *)
Span(o, w, x) == o + x * w .. o + (x + 1) * w - 1

(* An element of a member, and the bytes that it has.                      *)
LEMMA Placed ==
  ASSUME NEW o \in Nat, NEW w \in Nat \ {0}, NEW e \in Nat, NEW j \in 0..w - 1,
         NEW i, i = o + e * w + j
  PROVE  /\ (i - o) \div w = e
         /\ i - o - e * w = j
<1>1. e * w \in Nat /\ (e + 1) * w = e * w + w
  OBVIOUS
<1>2. (i - o) \div w = e
  <2> DEFINE a == i - o
  <2>1. a = w * e + j /\ a \in Int
    BY <1>1
  <2> HIDE DEF a
  <2>2. e = Quot(a, w)
    BY <2>1, DivisionUnique
  <2> QED
    BY <2>2 DEF Quot, a
<1>3. i - o - e * w = j
  BY <1>1
<1> QED
  BY <1>2, <1>3

(* Two elements of a member have no byte in common.                        *)
LEMMA PlacedApart ==
  ASSUME NEW o \in Nat, NEW w \in Nat \ {0}, NEW e \in Nat, NEW x \in Nat, x # e,
         NEW i \in Span(o, w, e)
  PROVE  i \notin Span(o, w, x)
<1>1. /\ e * w \in Nat /\ (e + 1) * w = e * w + w
      /\ x * w \in Nat /\ (x + 1) * w = x * w + w
  OBVIOUS
<1>2. CASE x < e
  <2>1. (x + 1) * w <= e * w
    BY <1>2
  <2> QED
    BY <1>1, <2>1 DEF Span
<1>3. CASE x > e
  <2>1. (e + 1) * w <= x * w
    BY <1>3
  <2> QED
    BY <1>1, <2>1 DEF Span
<1> QED
  BY <1>2, <1>3

(* Members as they are declared, and as they are laid out.                 *)
Declared == [name : STRING, type : Type]
LaidOut == [name : STRING, type : Type, offset : Nat]

(* The types of the variables of the layout.                               *)
LayoutType ==
  /\ rest \in Seq(Declared)
  /\ members \in Seq(LaidOut)
  /\ compiled \in Seq(Nat)
  /\ elements \in Seq(Type)
  /\ offset \in Nat /\ align \in Nat /\ methods \subseteq STRING

(* The offset at which the next member may begin is where the struct of    *)
(* the C compiler ends so far: without it nothing is known of that member. *)
Agreed ==
  /\ Len(compiled) = Len(members)
  /\ OffsetsAgree
  /\ offset = CEnd

-----------------------------------------------------------------------------
(* Alignment                                                               *)

(* A member starts less than its alignment after the one before.           *)
LEMMA CAlignedInside ==
  ASSUME NEW o \in Nat, NEW a \in Nat \ {0}
  PROVE  CAligned(o, a) \in o..(o + a - 1)
BY DEF CAligned

(* A multiple leaves no remainder.                                         *)
LEMMA MultipleOf ==
  ASSUME NEW q \in Int, NEW a \in Nat \ {0}
  PROVE  (q * a) % a = 0
OBVIOUS

(* What leaves no remainder is a multiple.                                 *)
LEMMA Quotient ==
  ASSUME NEW n \in Int, NEW a \in Nat \ {0}, n % a = 0
  PROVE  n = a * (n \div a)
OBVIOUS

(* Two multiples that are less than the number apart are in order.         *)
LEMMA NoMultipleBetween ==
  ASSUME NEW k \in Int, NEW l \in Int, NEW a \in Nat \ {0}, a * k - a * l < a
  PROVE  k <= l
OBVIOUS

(* The loop that counts the offset up stops where the C compiler puts the  *)
(* member: there is one multiple of the alignment in its reach.            *)
LEMMA AlignedAgree ==
  ASSUME NEW o \in Nat, NEW a \in Nat \ {0}
  PROVE  Aligned(o, a) = CAligned(o, a)
<1> DEFINE c == CAligned(o, a)
           x == Aligned(o, a)
<1>1. c \in o..(o + a - 1)
  BY CAlignedInside
<1>2. c % a = 0
  <2>1. (o + a - 1) \div a \in Int
    OBVIOUS
  <2> QED
    BY <2>1, MultipleOf DEF CAligned
<1>3. x \in o..(o + a - 1) /\ x % a = 0
  BY <1>1, <1>2 DEF Aligned
<1> HIDE DEF c, x
<1>4. c = a * (c \div a) /\ x = a * (x \div a)
  BY <1>1, <1>2, <1>3, Quotient
<1>5. c - x < a /\ x - c < a
  BY <1>1, <1>3
<1>6. c \div a \in Int /\ x \div a \in Int
  BY <1>1, <1>3
<1>7. a * (c \div a) - a * (x \div a) < a /\ a * (x \div a) - a * (c \div a) < a
  BY <1>4, <1>5
<1>8. c \div a <= x \div a /\ x \div a <= c \div a
  BY <1>6, <1>7, NoMultipleBetween
<1>9. c \div a = x \div a
  BY <1>6, <1>8
<1>10. c = x
  BY <1>4, <1>9
<1> QED
  BY <1>10 DEF c, x

(* An element of a member is inside it.                                    *)
LEMMA ElementInside ==
  ASSUME NEW e \in Nat, NEW w \in Nat, NEW c \in Nat, e < c
  PROVE  e * w \in Nat /\ (e + 1) * w <= w * c
OBVIOUS

-----------------------------------------------------------------------------
(* The layout                                                              *)

(* Sizes, alignments and counts of types are numbers.                      *)
LEMMA Sizes ==
  ASSUME NEW t \in Type
  PROVE  /\ t.align \in Nat \ {0} /\ t.width \in Nat \ {0} /\ t.count \in Nat \ {0}
         /\ SizeOf(t) \in Nat
BY DEF Type, AnyType, SizeOf

(* The elements that libffi is told of: as many as the member has, of      *)
(* its width and alignment.                                                *)
LEMMA ElementsTyped ==
  ASSUME NEW t \in Type
  PROVE  /\ Elements(t) \in Seq(Type) /\ Len(Elements(t)) = t.count
         /\ \A i \in 1..t.count : Elements(t)[i].width = t.width /\ Elements(t)[i].align = t.align
<1>1. t \in AnyType /\ t.count \in Nat \ {0}
  BY Sizes DEF Type
<1> DEFINE one == [kind |-> t.kind, width |-> t.width, align |-> t.align,
                   signed |-> t.signed, array |-> FALSE, count |-> 1]
<1>2. /\ one \in AnyType /\ one.width = t.width /\ one.align = t.align /\ one.signed = t.signed
      /\ one.kind = t.kind /\ one.count = 1 /\ one.array = FALSE
  BY <1>1 DEF AnyType
<1> HIDE DEF one
<1>3. t.kind # "fixed" => one \in Type
  BY <1>2 DEF Type
<1>4. SInt8 \in Type /\ SInt8.width = 1 /\ SInt8.align = 1
  BY DEF SInt8, Scalar, Type, AnyType, Kind
<1>5. t.kind = "fixed" => t.width = 1 /\ t.align = 1
  BY DEF Type
<1> DEFINE e == IF t.kind = "fixed" THEN SInt8 ELSE one
<1>6. e \in Type /\ e.width = t.width /\ e.align = t.align
  BY <1>2, <1>3, <1>4, <1>5
<1>7. Elements(t) = [i \in 1..t.count |-> e]
  BY DEF Elements, one
<1> HIDE DEF e
<1> QED
  BY <1>1, <1>6, <1>7

(* A member that is added begins where the offset is, or after it.         *)
LEMMA MemberAdded ==
  ASSUME LayoutType, Agreed, MembersApart, AddMember
  PROVE  LayoutType' /\ Agreed' /\ MembersApart'
<1> DEFINE t == Head(rest).type
           o == Aligned(offset, t.align)
           n == Len(members)
           m == [name |-> Head(rest).name, type |-> t, offset |-> o]
<1>1. Head(rest) \in Declared /\ Tail(rest) \in Seq(Declared)
  BY DEF AddMember, LayoutType
<1>2. t \in Type /\ Head(rest).name \in STRING
  BY <1>1 DEF Declared
<1>3. o = CAligned(CEnd, t.align) /\ o \in Nat /\ o >= offset
  <2>1. offset \in Nat /\ CEnd = offset /\ t.align \in Nat \ {0}
    BY <1>2, Sizes DEF LayoutType, Agreed
  <2>2. o = CAligned(offset, t.align)
    BY <2>1, AlignedAgree
  <2> HIDE DEF o, t
  <2> QED
    BY <2>1, <2>2, CAlignedInside
<1>4. m \in LaidOut
  BY <1>2, <1>3 DEF LaidOut
<1>5. /\ members' = Append(members, m)
      /\ compiled' = Append(compiled, CAligned(CEnd, t.align))
      /\ offset' = o + SizeOf(t)
      /\ rest' = Tail(rest)
      /\ elements' = elements \o Elements(t)
      /\ align' = (IF t.align > align THEN t.align ELSE align)
      /\ methods' = methods \cup ({Head(rest).name} \ {Pad})
  BY DEF AddMember
<1>6. SizeOf(t) \in Nat
  BY <1>2, Sizes
<1> HIDE DEF t, o, m
<1>7. LayoutType'
  <2>1. elements' \in Seq(Type)
    <3>1. Elements(t) \in Seq(Type) /\ elements \in Seq(Type)
      BY <1>2, ElementsTyped DEF LayoutType
    <3> QED
      BY <1>5, <3>1
  <2>2. align' \in Nat /\ methods' \subseteq STRING
    BY <1>2, <1>5, Sizes DEF LayoutType
  <2>3. members' \in Seq(LaidOut) /\ rest' \in Seq(Declared)
    BY <1>1, <1>4, <1>5 DEF LayoutType
  <2>4. compiled' \in Seq(Nat) /\ offset' \in Nat
    BY SMTT(30), <1>3, <1>5, <1>6 DEF LayoutType
  <2> QED
    BY <2>1, <2>2, <2>3, <2>4 DEF LayoutType
<1>8. /\ n \in Nat /\ Len(members') = n + 1 /\ Len(compiled') = n + 1
      /\ DOMAIN members = 1..n /\ DOMAIN members' = 1..(n + 1)
      /\ \A k \in 1..n : members'[k] = members[k] /\ compiled'[k] = compiled[k]
      /\ members'[n + 1] = m /\ compiled'[n + 1] = o
  <2>1. compiled' = Append(compiled, o)
    BY <1>3, <1>5
  <2>2. /\ Len(members') = n + 1 /\ members'[n + 1] = m
        /\ \A k \in 1..n : members'[k] = members[k]
    BY <1>4, <1>5, AppendProperties DEF LayoutType
  <2>3. /\ Len(compiled') = n + 1 /\ compiled'[n + 1] = o
        /\ \A k \in 1..n : compiled'[k] = compiled[k]
    BY <1>3, <2>1, AppendProperties DEF LayoutType, Agreed
  <2>4. n \in Nat /\ DOMAIN members = 1..n /\ DOMAIN members' = 1..(n + 1)
    BY <1>7, <2>2 DEF LayoutType
  <2> QED
    BY <2>2, <2>3, <2>4
<1>9. m.offset = o /\ m.type = t
  BY DEF m
<1> HIDE DEF n
<1>10. Agreed'
  <2>1. members' # << >>
    BY <1>8
  <2>2. CEnd' = compiled'[n + 1] + SizeOf(members'[n + 1].type)
    BY <1>8, <2>1 DEF CEnd
  <2>3. offset' = CEnd'
    BY <1>5, <1>8, <1>9, <2>2
  <2>4. \A k \in 1..(n + 1) : members'[k].offset = compiled'[k]
    BY <1>8, <1>9 DEF Agreed, OffsetsAgree
  <2> QED
    BY <1>8, <2>3, <2>4 DEF Agreed, OffsetsAgree
<1>11. MembersApart'
  <2>1. \A k \in 1..n : /\ members[k].offset \in Nat /\ SizeOf(members[k].type) \in Nat
                        /\ members[k].offset + SizeOf(members[k].type) <= offset
    <3> TAKE k \in 1..n
    <3>1. members[k] \in LaidOut
      BY <1>8 DEF LayoutType
    <3>2. members[k].offset \in Nat /\ members[k].type \in Type
      BY <3>1 DEF LaidOut
    <3> QED
      BY <1>8, <3>2, Sizes DEF MembersApart
  <2>2. \A k \in 1..n : members[k].offset + SizeOf(members[k].type) <= o
    BY <1>3, <2>1 DEF LayoutType
  <2>3. \A k \in 1..(n + 1) : members'[k].offset + SizeOf(members'[k].type) <= offset'
    BY <1>3, <1>5, <1>6, <1>8, <1>9, <2>1, <2>2
  <2>4. \A k \in 1..(n + 1) : \A j \in 1..(n + 1) : j < k =>
          members'[j].offset + SizeOf(members'[j].type) <= members'[k].offset
    <3> SUFFICES ASSUME NEW k \in 1..(n + 1), NEW j \in 1..(n + 1), j < k
                 PROVE  members'[j].offset + SizeOf(members'[j].type) <= members'[k].offset
      OBVIOUS
    <3>1. CASE k = n + 1
      BY <1>8, <1>9, <2>2, <3>1
    <3>2. CASE k # n + 1
      BY <1>8, <3>2 DEF MembersApart
    <3> QED
      BY <3>1, <3>2
  <2> QED
    BY <1>8, <2>3, <2>4 DEF MembersApart
<1> QED
  BY <1>7, <1>10, <1>11

(* The actions that lay nothing out.                                       *)
LEMMA LayoutKept ==
  ASSUME LayoutType, Agreed, MembersApart,
         UNCHANGED <<rest, members, offset, align, compiled, elements, methods>>
  PROVE  LayoutType' /\ Agreed' /\ MembersApart'
BY DEF LayoutType, Agreed, OffsetsAgree, MembersApart, CEnd, SizeOf

(* A member that is laid out has a place, a type and a first element.      *)
LEMMA MemberTyped ==
  ASSUME LayoutType, NEW k \in DOMAIN members
  PROVE  /\ members[k].offset \in Nat
         /\ members[k].type \in Type
         /\ 0 \in Indexes(k)
<1>1. members[k] \in LaidOut
  BY DEF LayoutType
<1>2. members[k].offset \in Nat /\ members[k].type \in Type
  BY <1>1 DEF LaidOut
<1> QED
  BY <1>2, Sizes DEF Indexes

-----------------------------------------------------------------------------
(* What libffi computes                                                    *)

(* C puts a member at a multiple of its alignment.                         *)
LEMMA CAlignedMultiple ==
  ASSUME NEW o \in Nat, NEW a \in Nat \ {0}
  PROVE  CAligned(o, a) \in Nat /\ Rem(CAligned(o, a), a) = 0
<1>1. CAligned(o, a) % a = 0
  <2>1. (o + a - 1) \div a \in Int
    OBVIOUS
  <2> QED
    BY <2>1, MultipleOf DEF CAligned
<1> QED
  BY <1>1, CAlignedInside DEF Rem

(* What leaves no remainder is a multiple.                                 *)
LEMMA MultipleIs ==
  ASSUME NEW o \in Int, NEW a \in Nat \ {0}, Rem(o, a) = 0
  PROVE  \E x \in Int : o = a * x
<1>1. Quot(o, a) \in Int /\ o = a * Quot(o, a) + Rem(o, a)
  BY Divided
<1>2. PICK x \in Int : x = Quot(o, a)
  BY <1>1
<1>3. o = a * x + 0
  BY <1>1, <1>2
<1> QED
  BY <1>3

(* A multiple leaves no remainder.                                         *)
LEMMA IsMultiple ==
  ASSUME NEW x \in Int, NEW a \in Nat \ {0}, NEW o, o = a * x
  PROVE  Rem(o, a) = 0
<1>1. 0 \in 0..a - 1 /\ o \in Int /\ o = a * x + 0
  OBVIOUS
<1> QED
  BY <1>1, DivisionUnique

(* What ends at a boundary needs no padding.                               *)
LEMMA CAlignedSame ==
  ASSUME NEW o \in Nat, NEW a \in Nat \ {0}, Rem(o, a) = 0
  PROVE  CAligned(o, a) = o
<1>1. PICK c : c = CAligned(o, a)
  OBVIOUS
<1>2. c \in o..(o + a - 1) /\ c \in Nat
  BY <1>1, CAlignedInside
<1>3. Rem(c, a) = 0
  BY <1>1, CAlignedMultiple
<1>4. PICK x \in Int : c = a * x
  BY <1>2, <1>3, MultipleIs
<1>5. PICK y \in Int : o = a * y
  BY MultipleIs
<1>6. a * x - a * y < a /\ a * y - a * x < a
  BY <1>2, <1>4, <1>5
<1>7. x <= y /\ y <= x
  BY <1>6, NoMultipleBetween
<1>8. x = y
  BY <1>7
<1> QED
  BY <1>1, <1>4, <1>5, <1>8

(* Widths that are multiples of the alignment keep it.                     *)
LEMMA MultiplesAdded ==
  ASSUME NEW o \in Nat, NEW a \in Nat \ {0}, NEW w \in Nat, NEW i \in Nat,
         Rem(o, a) = 0, Rem(w, a) = 0
  PROVE  o + i * w \in Nat /\ Rem(o + i * w, a) = 0
<1>1. PICK x \in Int : o = a * x
  BY MultipleIs
<1>2. PICK y \in Int : w = a * y
  BY MultipleIs
<1>3. i * w = a * (i * y)
  BY <1>2
<1>4. i * y \in Int /\ i * w \in Nat
  OBVIOUS
<1>5. PICK z \in Int : z = i * y
  BY <1>4
<1>6. o + i * w = a * (x + z) /\ x + z \in Int
  BY <1>1, <1>3, <1>5
<1> QED
  BY <1>4, <1>6, IsMultiple

(* What the recursion of LibffiEnd says, without recursion.                *)
Ends(ts, end) ==
  /\ end \in [0..Len(ts) -> Nat]
  /\ end[0] = 0
  /\ \A i \in 1..Len(ts) : end[i] = CAligned(end[i - 1], ts[i].align) + ts[i].width

(* LibffiEnd is a function, and what its equation says.                    *)
LEMMA LibffiEnds ==
  ASSUME NEW ts \in Seq(Type)
  PROVE  Ends(ts, LibffiEnd(ts))
<1> DEFINE D == 0..Len(ts)
           F(i, x) == CAligned(x, ts[i].align) + ts[i].width
           G == [p \in D \X Nat |-> IF p[1] \in 1..Len(ts) THEN F(p[1], p[2]) ELSE 0]
           Is(f) == f = [i \in 0..Len(ts) |-> IF i = 0 THEN 0 ELSE F(i, f[i - 1])]
<1>0. Len(ts) \in Nat
  OBVIOUS
<1>1. \A i \in 1..Len(ts), x \in Nat : F(i, x) \in Nat
  <2> TAKE i \in 1..Len(ts), x \in Nat
  <2>1. ts[i] \in Type
    OBVIOUS
  <2>2. ts[i].align \in Nat \ {0} /\ ts[i].width \in Nat
    BY <2>1, Sizes
  <2>3. CAligned(x, ts[i].align) \in Nat
    BY <2>2, CAlignedMultiple
  <2> QED
    BY <2>2, <2>3
<1>2. LibffiEnd(ts) = CHOOSE f : Is(f)
  BY DEF LibffiEnd
<1> HIDE DEF F
<1>3. G \in [D \X Nat -> Nat]
  <2>1. ASSUME NEW p \in D \X Nat
        PROVE  (IF p[1] \in 1..Len(ts) THEN F(p[1], p[2]) ELSE 0) \in Nat
    <3>1. p[2] \in Nat
      OBVIOUS
    <3> QED
      BY <1>1, <3>1
  <2> QED
    BY <2>1
<1>4. D \in SUBSET Nat /\ \A i \in Nat : i + 1 \in D => i \in D
  BY <1>0
<1>5. PICK f : Recursive(D, Nat, 0, G, f)
  <2> HIDE DEF D, G
  <2> QED
    BY <1>3, <1>4, Recursion
<1>6. Is(f)
  <2>1. \A i \in 0..Len(ts) : f[i] = IF i = 0 THEN 0 ELSE F(i, f[i - 1])
    <3> TAKE i \in 0..Len(ts)
    <3>1. CASE i = 0
      BY <1>5, <3>1 DEF Recursive
    <3>2. CASE i # 0
      <4>1. i - 1 \in D /\ i \in 1..Len(ts)
        BY <1>0, <3>2
      <4>2. f[i - 1] \in Nat
        BY <1>5, <4>1 DEF Recursive
      <4>3. f[i] = G[<<i, f[i - 1]>>]
        BY <1>5, <3>2 DEF Recursive
      <4>4. <<i, f[i - 1]>> \in D \X Nat
        BY <4>2
      <4>5. G[<<i, f[i - 1]>>] = F(i, f[i - 1])
        BY <4>1, <4>4
      <4> QED
        BY <3>2, <4>3, <4>5
    <3> QED
      BY <3>1, <3>2
  <2>2. f = [i \in 0..Len(ts) |-> f[i]]
    BY <1>5 DEF Recursive
  <2> QED
    BY <2>1, <2>2
<1>7. Is(LibffiEnd(ts))
  BY <1>2, <1>6
<1>8. \A i \in 0..Len(ts) : LibffiEnd(ts)[i] \in Nat
  <2> PICK e : e = LibffiEnd(ts)
    OBVIOUS
  <2>1. e[0] = f[0] /\ \A i \in 1..Len(ts) : e[i - 1] = f[i - 1] => e[i] = f[i]
    <3>1. Is(e)
      BY <1>7
    <3> QED
      BY <1>0, <1>6, <3>1
  <2>2. \A i \in 0..Len(ts) : e[i] = f[i]
    <3>1. Len(ts) \in Nat
      BY <1>0
    <3>2. Linked(Len(ts), e, f)
      BY <2>1 DEF Linked
    <3>3. Same(Len(ts), e, f)
      BY ONLY <3>1, <3>2, Alike
    <3> QED
      BY <3>3 DEF Same
  <2>3. \A i \in 0..Len(ts) : f[i] \in Nat
    BY <1>5 DEF Recursive
  <2> QED
    BY <2>2, <2>3
<1> QED
  <2> DEFINE e == LibffiEnd(ts)
  <2> HIDE DEF e
  <2>1. Is(e) /\ \A i \in 0..Len(ts) : e[i] \in Nat
    BY <1>7, <1>8 DEF e
  <2>2. e \in [0..Len(ts) -> Nat] /\ e[0] = 0
    BY <1>0, <2>1
  <2>3. \A i \in 1..Len(ts) : e[i] = F(i, e[i - 1])
    BY <1>0, <2>1
  <2>4. Ends(ts, e)
    BY <2>2, <2>3 DEF Ends, F
  <2> QED
    BY <2>4 DEF e

(* What the recursion of FirstOf says, without recursion.                  *)
Firsts(ms, first) ==
  /\ first \in [0..Len(ms) -> Nat]
  /\ first[0] = 1
  /\ \A k \in 1..Len(ms) : first[k] = first[k - 1] + ms[k].type.count

(* FirstOf is a function, and what its equation says.                      *)
LEMMA FirstElements ==
  ASSUME NEW ms \in Seq(LaidOut)
  PROVE  Firsts(ms, FirstOf(ms))
<1> DEFINE D == 0..Len(ms)
           F(k, x) == x + ms[k].type.count
           G == [p \in D \X Nat |-> IF p[1] \in 1..Len(ms) THEN F(p[1], p[2]) ELSE 0]
           Is(f) == f = [k \in 0..Len(ms) |-> IF k = 0 THEN 1 ELSE F(k, f[k - 1])]
<1>1. Len(ms) \in Nat
  OBVIOUS
<1>2. \A k \in 1..Len(ms), x \in Nat : F(k, x) \in Nat
  <2> TAKE k \in 1..Len(ms), x \in Nat
  <2>1. ms[k] \in LaidOut
    OBVIOUS
  <2>2. ms[k].type \in Type
    BY <2>1 DEF LaidOut
  <2> QED
    BY <2>2, Sizes
<1>3. FirstOf(ms) = CHOOSE f : Is(f)
  BY DEF FirstOf
<1> HIDE DEF F
<1>4. G \in [D \X Nat -> Nat]
  <2>1. ASSUME NEW p \in D \X Nat
        PROVE  (IF p[1] \in 1..Len(ms) THEN F(p[1], p[2]) ELSE 0) \in Nat
    <3>1. p[2] \in Nat
      OBVIOUS
    <3> QED
      BY <1>2, <3>1
  <2> QED
    BY <2>1
<1>5. D \in SUBSET Nat /\ \A i \in Nat : i + 1 \in D => i \in D
  BY <1>1
<1>6. PICK f : Recursive(D, Nat, 1, G, f)
  <2> HIDE DEF D, G
  <2> QED
    BY <1>4, <1>5, Recursion
<1>7. Is(f)
  <2>1. \A k \in 0..Len(ms) : f[k] = IF k = 0 THEN 1 ELSE F(k, f[k - 1])
    <3> TAKE k \in 0..Len(ms)
    <3>1. CASE k = 0
      BY <1>6, <3>1 DEF Recursive
    <3>2. CASE k # 0
      <4>1. k - 1 \in D /\ k \in 1..Len(ms)
        BY <1>1, <3>2
      <4>2. f[k - 1] \in Nat
        BY <1>6, <4>1 DEF Recursive
      <4>3. f[k] = G[<<k, f[k - 1]>>]
        BY <1>6, <3>2 DEF Recursive
      <4>4. <<k, f[k - 1]>> \in D \X Nat
        BY <4>2
      <4>5. G[<<k, f[k - 1]>>] = F(k, f[k - 1])
        BY <4>1, <4>4
      <4> QED
        BY <3>2, <4>3, <4>5
    <3> QED
      BY <3>1, <3>2
  <2>2. f = [k \in 0..Len(ms) |-> f[k]]
    BY <1>6 DEF Recursive
  <2> QED
    BY <2>1, <2>2
<1>8. PICK e : e = FirstOf(ms)
  OBVIOUS
<1>9. Is(e)
  BY <1>3, <1>7, <1>8
<1>10. \A k \in 0..Len(ms) : e[k] = f[k] /\ f[k] \in Nat
  <2>1. e[0] = f[0]
    BY <1>1, <1>7, <1>9
  <2>2. \A k \in 1..Len(ms) : e[k - 1] = f[k - 1] => e[k] = f[k]
    <3> TAKE k \in 1..Len(ms)
    <3>1. k \in 0..Len(ms) /\ k # 0
      BY <1>1
    <3>2. e[k] = F(k, e[k - 1])
      BY <1>9, <3>1
    <3>3. f[k] = F(k, f[k - 1])
      BY <1>7, <3>1
    <3> QED
      BY <3>2, <3>3
  <2>3. \A k \in 0..Len(ms) : e[k] = f[k]
    <3>1. Len(ms) \in Nat
      BY <1>1
    <3>2. Linked(Len(ms), e, f)
      BY <2>1, <2>2 DEF Linked
    <3>3. Same(Len(ms), e, f)
      BY ONLY <3>1, <3>2, Alike
    <3> QED
      BY <3>3 DEF Same
  <2>4. \A k \in 0..Len(ms) : f[k] \in Nat
    BY <1>6 DEF Recursive
  <2> QED
    BY <2>3, <2>4
<1> QED
  <2>1. e \in [0..Len(ms) -> Nat] /\ e[0] = 1
    BY <1>1, <1>9, <1>10
  <2>2. \A k \in 1..Len(ms) : e[k] = F(k, e[k - 1])
    BY <1>1, <1>9
  <2>3. Firsts(ms, e)
    BY <2>1, <2>2 DEF Firsts, F
  <2> QED
    BY <1>8, <2>3

(* Another member leaves the first elements of the others alone.           *)
LEMMA FirstAppended ==
  ASSUME NEW ms \in Seq(LaidOut), NEW m \in LaidOut
  PROVE  /\ \A k \in 0..Len(ms) : FirstOf(Append(ms, m))[k] = FirstOf(ms)[k]
         /\ FirstOf(Append(ms, m))[Len(ms) + 1] = FirstOf(ms)[Len(ms)] + m.type.count
<1>1. PICK ns : ns = Append(ms, m)
  OBVIOUS
<1>2. PICK e : e = FirstOf(ms)
  OBVIOUS
<1>3. PICK f : f = FirstOf(ns)
  OBVIOUS
<1>4. PICK n : n = Len(ms)
  OBVIOUS
<1>5. /\ ns \in Seq(LaidOut) /\ n \in Nat /\ Len(ns) = n + 1
      /\ \A k \in 1..n : ns[k] = ms[k]
      /\ ns[n + 1] = m
  BY <1>1, <1>4
<1>6. Firsts(ms, e) /\ Firsts(ns, f)
  BY <1>2, <1>3, <1>5, FirstElements
<1>7. \A k \in 0..n : f[k] = e[k]
  <2>1. f[0] = e[0]
    BY <1>6 DEF Firsts
  <2>2. \A k \in 1..n : f[k - 1] = e[k - 1] => f[k] = e[k]
    BY SMTT(30), <1>4, <1>5, <1>6 DEF Firsts
  <2>3. n \in Nat
    BY <1>5
  <2>4. Linked(n, f, e)
    BY <2>1, <2>2 DEF Linked
  <2>5. Same(n, f, e)
    BY ONLY <2>3, <2>4, Alike
  <2> QED
    BY <2>5 DEF Same
<1>8. f[n + 1] = f[n] + ns[n + 1].type.count
  <2>1. n + 1 \in 1..Len(ns) /\ (n + 1) - 1 = n
    BY <1>5
  <2> QED
    BY <1>6, <2>1 DEF Firsts
<1>9. f[n + 1] = e[n] + m.type.count
  <2>1. f[n] = e[n]
    BY <1>5, <1>7
  <2> QED
    BY <1>5, <1>8, <2>1
<1> QED
  BY <1>1, <1>2, <1>3, <1>4, <1>7, <1>9

(* After n elements, those of a member one after the other from o.         *)
Following(end, next, n, o, t) ==
  /\ o \in Nat /\ n \in Nat
  /\ \A i \in 0..n : next[i] = end[i]
  /\ \A i \in 1..t.count : next[n + i] = o + i * t.width

(* The elements of a member, one after the other from its offset.          *)
LEMMA EndsAppended ==
  ASSUME NEW ts \in Seq(Type), NEW t \in Type
  PROVE  Following(LibffiEnd(ts), LibffiEnd(ts \o Elements(t)), Len(ts),
                   CAligned(LibffiEnd(ts)[Len(ts)], t.align), t)
<1> PICK end : end = LibffiEnd(ts)
  OBVIOUS
<1> PICK next : next = LibffiEnd(ts \o Elements(t))
  OBVIOUS
<1> PICK n : n = Len(ts)
  OBVIOUS
<1> PICK o : o = CAligned(end[n], t.align)
  OBVIOUS
<1>1. PICK us : us = Elements(t)
  OBVIOUS
<1>2. PICK vs : vs = ts \o us
  OBVIOUS
<1>3. PICK c : c = t.count
  OBVIOUS
<1>4. PICK w : w = t.width
  OBVIOUS
<1>5. PICK a : a = t.align
  OBVIOUS
<1>6. c \in Nat \ {0} /\ w \in Nat \ {0} /\ a \in Nat \ {0} /\ n \in Nat
  BY <1>3, <1>4, <1>5, Sizes
<1>7. /\ us \in Seq(Type) /\ Len(us) = c
      /\ \A i \in 1..c : us[i].width = w /\ us[i].align = a
  BY <1>1, <1>3, <1>4, <1>5, ElementsTyped
<1>8. /\ vs \in Seq(Type) /\ Len(vs) = n + c
      /\ \A i \in 1..n : vs[i] = ts[i]
      /\ \A i \in 1..c : vs[n + i] = us[i]
  <2>1. vs \in Seq(Type) /\ Len(vs) = n + c
    BY <1>2, <1>7, ConcatProperties
  <2>2. \A i \in 1..n : vs[i] = ts[i]
    BY <1>2, <1>6, <1>7
  <2>3. \A i \in 1..c : vs[n + i] = us[i]
    <3> TAKE i \in 1..c
    <3>1. n + i \in 1..Len(ts) + Len(us) /\ ~ (n + i <= Len(ts)) /\ (n + i) - Len(ts) = i
      BY <1>6, <1>7
    <3>2. vs[n + i] = us[(n + i) - Len(ts)]
      BY <1>2, <1>7, <3>1
    <3> QED
      BY <3>1, <3>2
  <2> QED
    BY <2>1, <2>2, <2>3
<1>9. Ends(ts, end) /\ Ends(vs, next)
  BY <1>1, <1>2, <1>8, LibffiEnds
<1>10. \A i \in 0..n : next[i] = end[i] /\ end[i] \in Nat
  <2>1. next[0] = end[0]
    BY <1>9 DEF Ends
  <2>2. \A i \in 1..n : next[i - 1] = end[i - 1] => next[i] = end[i]
    <3> TAKE i \in 1..n
    <3>1. i \in 1..Len(vs) /\ i \in 1..Len(ts)
      BY <1>6, <1>8
    <3>2. /\ next[i] = CAligned(next[i - 1], vs[i].align) + vs[i].width
          /\ end[i] = CAligned(end[i - 1], ts[i].align) + ts[i].width
      BY <1>9, <3>1 DEF Ends
    <3> QED
      BY <1>8, <3>2
  <2>3. \A i \in 0..n : end[i] \in Nat
    BY <1>9 DEF Ends
  <2>4. n \in Nat
    BY <1>6
  <2>5. \A i \in 0..n : next[i] = end[i]
    <3>1. Linked(n, next, end)
      BY <2>1, <2>2 DEF Linked
    <3>2. n \in Nat
      BY <2>4
    <3>3. Same(n, next, end)
      BY ONLY <3>1, <3>2, Alike
    <3> QED
      BY <3>3 DEF Same
  <2> QED
    BY <2>3, <2>5
<1>11. o \in Nat /\ Rem(o, a) = 0 /\ Rem(w, a) = 0
  <2>1. end[n] \in Nat
    BY <1>6, <1>10
  <2>2. w % a = 0
    BY <1>4, <1>5 DEF Type
  <2> QED
    BY <1>5, <1>6, <2>1, <2>2, CAlignedMultiple DEF Rem
<1> DEFINE g == [i \in 0..c |-> next[n + i]]
           h == [i \in 0..c |-> IF i = 0 THEN end[n] ELSE o + i * w]
<1>12. g[0] = h[0]
  BY <1>6, <1>10
<1>13. ASSUME NEW i \in 1..c, g[i - 1] = h[i - 1]
       PROVE  g[i] = h[i]
  <2>1. i \in 0..c /\ i - 1 \in 0..c /\ i \in Nat /\ i - 1 \in Nat
    BY <1>6
  <2>2. g[i] = next[n + i] /\ g[i - 1] = next[n + (i - 1)] /\ h[i] = o + i * w
    BY <2>1
  <2>3. n + i \in 1..Len(vs) /\ (n + i) - 1 = n + (i - 1)
    BY <1>6, <1>8
  <2>4. next[n + i] = CAligned(next[n + (i - 1)], vs[n + i].align) + vs[n + i].width
    BY <1>9, <2>3 DEF Ends
  <2>5. vs[n + i].align = a /\ vs[n + i].width = w
    BY <1>7, <1>8
  <2>6. g[i] = CAligned(h[i - 1], a) + w
    BY <1>13, <2>2, <2>4, <2>5
  <2>7. CASE i = 1
    <3>1. h[i - 1] = end[n] /\ i * w = w
      BY <1>6, <2>1, <2>7
    <3> HIDE DEF g, h
    <3> QED
      BY <1>5, <2>2, <2>6, <3>1
  <2>8. CASE i # 1
    <3>1. h[i - 1] = o + (i - 1) * w
      BY <2>1, <2>8
    <3>2. o + (i - 1) * w \in Nat /\ Rem(o + (i - 1) * w, a) = 0
      <4>1. PICK d \in Nat : d = i - 1
        BY <2>1
      <4>2. o + d * w \in Nat /\ Rem(o + d * w, a) = 0
        <5>1. o \in Nat /\ a \in Nat \ {0} /\ w \in Nat /\ Rem(o, a) = 0 /\ Rem(w, a) = 0
          BY <1>6, <1>11
        <5>2. d \in Nat
          BY <4>1
        <5> QED
          BY ONLY <5>1, <5>2, MultiplesAdded
      <4> QED
        BY <4>1, <4>2, Zenon
    <3>3. CAligned(o + (i - 1) * w, a) = o + (i - 1) * w
      BY <1>6, <3>2, CAlignedSame
    <3>4. (i - 1) * w + w = i * w /\ (i - 1) * w \in Nat /\ i * w \in Nat
      BY <1>6, <2>1
    <3>5. (o + (i - 1) * w) + w = o + i * w
      BY <1>6, <1>11, <3>4
    <3> HIDE DEF g, h
    <3> QED
      BY <2>2, <2>6, <3>1, <3>3, <3>5
  <2> QED
    BY <2>7, <2>8
<1>14. \A i \in 0..c : g[i] = h[i]
  <2>1. c \in Nat
    BY <1>6
  <2> HIDE DEF g, h
  <2>2. \A i \in 1..c : g[i - 1] = h[i - 1] => g[i] = h[i]
    BY <1>13
  <2>3. Linked(c, g, h)
    BY <1>12, <2>2 DEF Linked
  <2>4. Same(c, g, h)
    BY ONLY <2>1, <2>3, Alike
  <2> QED
    BY <2>4 DEF Same
<1>15. \A i \in 1..c : next[n + i] = o + i * w
  <2> TAKE i \in 1..c
  <2>1. i \in 0..c /\ i # 0
    BY <1>6
  <2>2. g[i] = next[n + i] /\ h[i] = o + i * w
    BY <2>1
  <2> HIDE DEF g, h
  <2> QED
    BY <1>14, <2>1, <2>2
<1>16. Following(end, next, n, o, t)
  BY <1>3, <1>4, <1>6, <1>10, <1>11, <1>15 DEF Following
<1> QED
  BY <1>16

(* What libffi is told of so far is where the members are.                 *)
Told ==
  /\ FirstOf(members)[Len(members)] = Len(elements) + 1
  /\ \A k \in DOMAIN members :
       /\ FirstOf(members)[k - 1] \in 1..Len(elements)
       /\ LibffiEnd(elements)[FirstOf(members)[k - 1]]
            = members[k].offset + members[k].type.width
  /\ LibffiEnd(elements)[Len(elements)] = offset
  /\ \A i \in DOMAIN elements : elements[i].align <= align
  /\ IF elements = << >> THEN align = 0
     ELSE \E i \in DOMAIN elements : elements[i].align = align

(* A member is added with the elements that libffi is told of.             *)
LEMMA ToldAdded ==
  ASSUME LayoutType, Agreed, Told, AddMember
  PROVE  Told'
<1> PICK t : t = Head(rest).type
  OBVIOUS
<1> PICK o : o = Aligned(offset, t.align)
  OBVIOUS
<1> PICK m : m = [name |-> Head(rest).name, type |-> t, offset |-> o]
  OBVIOUS
<1>1. Head(rest) \in Declared
  BY DEF AddMember, LayoutType
<1>2. t \in Type /\ Head(rest).name \in STRING
  BY <1>1 DEF Declared
<1>3. t.align \in Nat \ {0} /\ t.width \in Nat \ {0} /\ t.count \in Nat \ {0}
  BY <1>2, Sizes
<1>4. o = CAligned(offset, t.align) /\ o \in Nat /\ offset \in Nat /\ align \in Nat
  <2>1. offset \in Nat /\ align \in Nat
    BY DEF LayoutType
  <2> PICK a : a = t.align
    OBVIOUS
  <2>2. a \in Nat \ {0}
    BY <1>3
  <2>3. Aligned(offset, a) = CAligned(offset, a) /\ CAligned(offset, a) \in Nat
    BY ONLY <2>1, <2>2, AlignedAgree, CAlignedMultiple
  <2> QED
    BY <2>1, <2>3
<1>5. m \in LaidOut /\ m.type = t /\ m.offset = o
  BY <1>2, <1>4 DEF LaidOut
<1>6. /\ members' = Append(members, m)
      /\ offset' = o + SizeOf(t)
      /\ elements' = elements \o Elements(t)
      /\ align' = (IF t.align > align THEN t.align ELSE align)
  BY DEF AddMember
<1> PICK n : n = Len(elements)
  OBVIOUS
<1> PICK end : end = LibffiEnd(elements)
  OBVIOUS
<1> PICK next : next = LibffiEnd(elements')
  OBVIOUS
<1> PICK first : first = FirstOf(members)
  OBVIOUS
<1> PICK then : then = FirstOf(members')
  OBVIOUS
<1> PICK l : l = Len(members)
  OBVIOUS
<1>7. members \in Seq(LaidOut) /\ elements \in Seq(Type)
  BY DEF LayoutType
<1>8. /\ first[l] = n + 1
      /\ \A k \in 1..l : first[k - 1] \in 1..n /\ end[first[k - 1]]
                                                   = members[k].offset + members[k].type.width
      /\ end[n] = offset
      /\ \A i \in 1..n : elements[i].align <= align
  <2>1. DOMAIN members = 1..l /\ DOMAIN elements = 1..n
    BY <1>7
  <2>2. first[l] = n + 1 /\ end[n] = offset
    BY DEF Told
  <2>3. \A k \in DOMAIN members :
          /\ first[k - 1] \in 1..n
          /\ end[first[k - 1]] = members[k].offset + members[k].type.width
    BY DEF Told
  <2>4. \A i \in DOMAIN elements : elements[i].align <= align
    BY DEF Told
  <2> QED
    BY <2>1, <2>2, <2>3, <2>4
<1>9. /\ n \in Nat
      /\ \A i \in 0..n : next[i] = end[i]
      /\ \A i \in 1..t.count : next[n + i] = o + i * t.width
  <2>1. o = CAligned(end[n], t.align)
    BY <1>4, <1>8
  <2>2. next = LibffiEnd(elements \o Elements(t))
    BY <1>6
  <2>3. end = LibffiEnd(elements) /\ n = Len(elements)
    OBVIOUS
  <2> QED
    <3>1. Following(end, next, n, o, t)
      BY <1>2, <1>7, <2>1, <2>2, <2>3, EndsAppended
    <3> QED
      BY <3>1 DEF Following
<1>10. /\ l \in Nat
       /\ \A k \in 0..l : then[k] = first[k]
       /\ then[l + 1] = first[l] + t.count
  <2>1. then = FirstOf(Append(members, m))
    BY <1>6
  <2> QED
    BY <1>5, <1>7, <2>1, FirstAppended
<1>11. /\ Len(members') = l + 1 /\ members'[l + 1] = m
       /\ \A k \in 1..l : members'[k] = members[k]
       /\ DOMAIN members' = 1..l + 1
  BY <1>5, <1>6, <1>7, AppendProperties
<1>12. /\ elements' \in Seq(Type) /\ Len(elements') = n + t.count
       /\ DOMAIN elements' = 1..n + t.count
       /\ \A i \in 1..n : elements'[i] = elements[i]
       /\ \A i \in 1..t.count : elements'[n + i].align = t.align
  <2> PICK es : es = Elements(t)
    OBVIOUS
  <2>1. es \in Seq(Type) /\ Len(es) = t.count /\ \A i \in 1..t.count : es[i].align = t.align
    BY <1>2, ElementsTyped
  <2>2. /\ elements' \in Seq(Type) /\ Len(elements') = n + t.count
        /\ \A i \in 1..n + t.count : elements'[i] = IF i <= n THEN elements[i] ELSE es[i - n]
    BY <1>6, <1>7, <2>1, ConcatProperties
  <2>3. \A i \in 1..n : elements'[i] = elements[i]
    BY <1>3, <1>9, <2>2
  <2>4. ASSUME NEW i \in 1..t.count PROVE elements'[n + i].align = t.align
    <3>1. n + i \in 1..n + t.count /\ ~ (n + i <= n) /\ (n + i) - n = i
      BY <1>3, <1>9
    <3>2. elements'[n + i] = es[(n + i) - n]
      BY <2>2, <3>1
    <3> QED
      BY <2>1, <3>1, <3>2
  <2>5. DOMAIN elements' = 1..n + t.count
    BY <2>2
  <2> QED
    BY <2>2, <2>3, <2>4, <2>5
<1>13. then[l + 1] = (n + t.count) + 1
  <2>1. then[l + 1] = (n + 1) + t.count
    BY <1>8, <1>10, Zenon
  <2>2. n \in Nat /\ t.count \in Nat
    BY <1>3, <1>9
  <2> QED
    BY <2>1, <2>2
<1>14. ASSUME NEW k \in 1..l + 1
       PROVE  /\ then[k - 1] \in 1..n + t.count
              /\ next[then[k - 1]] = members'[k].offset + members'[k].type.width
  <2>1. CASE k = l + 1
    <3>1. then[k - 1] = n + 1 /\ members'[k].offset = o /\ members'[k].type = t
      BY <1>5, <1>8, <1>10, <1>11, <2>1
    <3>2. 1 \in 1..t.count /\ 1 * t.width = t.width
      BY <1>3
    <3>3. next[n + 1] = o + t.width
      BY <1>9, <3>2
    <3> QED
      BY <1>3, <1>9, <3>1, <3>3
  <2>2. CASE k # l + 1
    <3>1. k \in 1..l /\ k - 1 \in 0..l
      BY <1>10, <2>2
    <3>2. then[k - 1] = first[k - 1] /\ first[k - 1] \in 1..n /\ members'[k] = members[k]
          /\ end[first[k - 1]] = members[k].offset + members[k].type.width
      BY <1>8, <1>10, <1>11, <3>1
    <3>3. first[k - 1] \in 0..n /\ first[k - 1] \in 1..n + t.count
      BY <1>3, <1>9, <3>2
    <3> QED
      BY <1>9, <3>2, <3>3
  <2> QED
    BY <2>1, <2>2
<1>15. next[n + t.count] = offset'
  <2>1. t.count \in 1..t.count
    BY <1>3
  <2>2. next[n + t.count] = o + t.count * t.width
    BY <1>9, <2>1
  <2>3. t.count * t.width = t.width * t.count
    BY <1>3
  <2> QED
    BY <1>6, <2>2, <2>3 DEF SizeOf
<1>16. /\ \A i \in 1..n : elements[i].align \in Nat
       /\ t.align <= align' /\ align <= align'
       /\ align' = t.align \/ align' = align
  <2>1. \A i \in 1..n : elements[i].align \in Nat
    <3> TAKE i \in 1..n
    <3>1. elements[i] \in Type
      BY <1>7
    <3> QED
      BY <3>1, Sizes
  <2> QED
    BY <1>3, <1>4, <1>6, <2>1
<1>17. \A i \in 1..n + t.count : elements'[i].align <= align'
  <2> TAKE i \in 1..n + t.count
  <2>1. CASE i <= n
    <3>1. i \in 1..n
      BY <1>3, <1>9, <2>1
    <3>2. elements'[i].align = elements[i].align /\ elements[i].align <= align
      BY <1>8, <1>12, <3>1
    <3>3. align' \in Nat
      BY <1>3, <1>4, <1>16
    <3> QED
      BY <1>4, <1>16, <3>1, <3>2, <3>3
  <2>2. CASE ~ (i <= n)
    <3>1. PICK j \in 1..t.count : i = n + j
      <4>1. i - n \in 1..t.count /\ i = n + (i - n)
        BY <1>3, <1>9, <2>2
      <4> QED
        BY <4>1
    <3> QED
      BY <1>12, <1>16, <3>1
  <2> QED
    BY <2>1, <2>2
<1>18. elements' # << >> /\ \E i \in 1..n + t.count : elements'[i].align = align'
  <2>1. 1 \in 1..t.count /\ n + 1 \in 1..n + t.count
    BY <1>3, <1>9
  <2>2. elements' # << >>
    BY <1>3, <1>9, <1>12
  <2>3. CASE align' = t.align
    BY <1>12, <2>1, <2>2, <2>3
  <2>4. CASE align' = align /\ align' # t.align
    <3>1. elements # << >>
      <4> SUFFICES ASSUME elements = << >> PROVE FALSE
        OBVIOUS
      <4>1. align = 0
        BY DEF Told
      <4> QED
        BY <1>3, <1>6, <2>4, <4>1
    <3>2. PICK i \in 1..n : elements[i].align = align
      BY <1>7, <3>1 DEF Told
    <3>3. i \in 1..n + t.count
      BY <1>3, <1>9
    <3> QED
      BY <1>12, <2>2, <2>4, <3>2, <3>3
  <2> QED
    BY <1>16, <2>2, <2>3, <2>4
<1> QED
  BY <1>10, <1>11, <1>12, <1>13, <1>14, <1>15, <1>17, <1>18 DEF Told

(* The actions that lay nothing out tell libffi nothing.                   *)
LEMMA ToldKept ==
  ASSUME Told, UNCHANGED <<members, offset, align, elements>>
  PROVE  Told'
BY DEF Told

(* Before the first member nothing is told.                                *)
LEMMA NothingTold ==
  /\ << >> \in Seq(LaidOut) /\ << >> \in Seq(Type) /\ Len(<< >>) = 0
  /\ FirstOf(<< >>)[0] = 1 /\ LibffiEnd(<< >>)[0] = 0
<1>1. << >> \in Seq(LaidOut) /\ << >> \in Seq(Type) /\ Len(<< >>) = 0
  OBVIOUS
<1>2. FirstOf(<< >>)[0] = 1
  <2>1. Firsts(<< >>, FirstOf(<< >>))
    BY <1>1, FirstElements
  <2> QED
    BY <2>1 DEF Firsts
<1>3. LibffiEnd(<< >>)[0] = 0
  <2>1. Ends(<< >>, LibffiEnd(<< >>))
    BY <1>1, LibffiEnds
  <2> QED
    BY <2>1 DEF Ends
<1> QED
  BY <1>1, <1>2, <1>3

(* What is told so far is, in the end, what LibffiAgrees asks for.         *)
LEMMA ToldAgrees ==
  ASSUME LayoutType, Agreed, Told
  PROVE  LibffiAgrees
<1>1. members \in Seq(LaidOut) /\ elements \in Seq(Type) /\ offset \in Nat /\ align \in Nat
  BY DEF LayoutType
<1>2. \A k \in DOMAIN members : members[k].offset = compiled[k]
  BY DEF Agreed, OffsetsAgree
<1>3. LibffiAlign(elements) = align
  <2> DEFINE A == {elements[i].align : i \in DOMAIN elements} \cup {0}
  <2>1. align \in A /\ \A i \in DOMAIN elements : elements[i].align <= align
    BY DEF Told
  <2>2. \A a \in A : a \in Nat
    <3>1. \A i \in DOMAIN elements : elements[i].align \in Nat
      <4> TAKE i \in DOMAIN elements
      <4>1. elements[i] \in Type
        BY <1>1
      <4> QED
        BY <4>1, Sizes
    <3> QED
      BY <3>1
  <2>3. ASSUME NEW a \in A, \A i \in DOMAIN elements : elements[i].align <= a
        PROVE  a = align
    <3>1. a <= align
      BY <1>1, <2>1
    <3>2. align <= a
      <4>1. CASE align = 0
        BY <2>2, <4>1
      <4>2. CASE align # 0
        <5>1. \E i \in DOMAIN elements : elements[i].align = align
          BY <2>1, <4>2
        <5> QED
          BY <2>3, <5>1
      <4> QED
        BY <4>1, <4>2
    <3> HIDE DEF A
    <3> QED
      BY <1>1, <2>2, <3>1, <3>2
  <2> HIDE DEF A
  <2>4. LibffiAlign(elements) = CHOOSE a \in A : \A i \in DOMAIN elements : elements[i].align <= a
    BY DEF LibffiAlign, A
  <2>5. PICK l : l = CHOOSE a \in A : \A i \in DOMAIN elements : elements[i].align <= a
    OBVIOUS
  <2>6. l \in A /\ \A i \in DOMAIN elements : elements[i].align <= l
    BY <2>1, <2>5
  <2> QED
    BY <2>3, <2>4, <2>5, <2>6
<1>4. ASSUME members # << >>
      PROVE  LibffiSize(elements) = CAligned(CEnd, align)
  <2>1. elements # << >>
    <3>1. 1 \in DOMAIN members
      BY <1>1, <1>4
    <3>2. 1..Len(elements) # {}
      BY <3>1 DEF Told
    <3> QED
      BY <3>2
  <2>2. LibffiEnd(elements)[Len(elements)] = CEnd
    BY DEF Told, Agreed
  <2> QED
    BY <1>3, <2>1, <2>2 DEF LibffiSize
<1> QED
  BY <1>2, <1>3, <1>4 DEF LibffiAgrees, Told

-----------------------------------------------------------------------------
(* Stores to the bytes of an object                                        *)

(* The bytes of an object, and where an element begins.                    *)
Bytes == [0..offset - 1 -> 0..Base - 1]
At(k, e) == members[k].offset + e * members[k].type.width

(* Every byte of an element is inside its member, and in the record.       *)
LEMMA BytesInside ==
  ASSUME LayoutType, MembersApart, NEW k \in DOMAIN members, NEW e \in Indexes(k),
         NEW i \in At(k, e)..At(k, e) + members[k].type.width - 1
  PROVE  /\ e \in Nat /\ At(k, e) \in Nat
         /\ i \in members[k].offset .. members[k].offset + SizeOf(members[k].type) - 1
         /\ i \in 0..offset - 1
<1> PICK o : o = members[k].offset
  OBVIOUS
<1> PICK w : w = members[k].type.width
  OBVIOUS
<1> PICK c : c = members[k].type.count
  OBVIOUS
<1> PICK x : x = e * w
  OBVIOUS
<1>1. o \in Nat /\ w \in Nat \ {0} /\ c \in Nat \ {0}
  BY MemberTyped, Sizes
<1>2. e \in Nat /\ e < c
  BY <1>1 DEF Indexes
<1>3. x \in Nat /\ (e + 1) * w = x + w /\ x + w <= w * c
  <2>1. e \in Nat /\ w \in Nat
    BY <1>1, <1>2
  <2>2. (e + 1) * w = e * w + w /\ e * w \in Nat
    BY ONLY <2>1
  <2>3. (e + 1) * w <= w * c
    BY <1>1, <1>2, ElementInside
  <2> QED
    BY <2>2, <2>3
<1>4. At(k, e) = o + x
  BY DEF At
<1> PICK s : s = SizeOf(members[k].type)
  OBVIOUS
<1>5. s = w * c
  BY DEF SizeOf
<1>6. s \in Nat
  BY MemberTyped, Sizes
<1>7. o + s <= offset /\ offset \in Nat
  BY DEF MembersApart, LayoutType
<1>8. i \in o + x..o + x + w - 1 /\ x + w <= s
  BY <1>3, <1>4, <1>5
<1>9. i \in o..o + s - 1
  BY <1>1, <1>3, <1>6, <1>8
<1>10. i \in 0..offset - 1
  BY <1>1, <1>6, <1>7, <1>9
<1> QED
  BY <1>1, <1>2, <1>3, <1>4, <1>9, <1>10

(* A byte that is poked is a byte of an element that is given.             *)
LEMMA Poked ==
  ASSUME LayoutType, MembersApart, NEW k \in DOMAIN members, NEW b \in Bytes,
         NEW given, DOMAIN given \subseteq Indexes(k),
         \A e \in DOMAIN given : given[e] \in Int,
         NEW new, new = Poke(b, members[k].offset, members[k].type.width, given)
  PROVE  /\ new \in Bytes
         /\ \A i \in 0..offset - 1 :
              \/ new[i] = b[i]
              \/ i \in members[k].offset .. members[k].offset + SizeOf(members[k].type) - 1
         /\ \A e \in DOMAIN given : \A j \in 0..members[k].type.width - 1 :
              new[At(k, e) + j] = Byte(given[e], j)
         /\ \A e \in Indexes(k) \ DOMAIN given : \A j \in 0..members[k].type.width - 1 :
              new[At(k, e) + j] = b[At(k, e) + j]
<1> PICK o : o = members[k].offset
  OBVIOUS
<1> PICK w : w = members[k].type.width
  OBVIOUS
<1>1. o \in Nat /\ w \in Nat \ {0}
  BY MemberTyped, Sizes
<1>2. \A e \in DOMAIN given : e \in Nat /\ e \in Indexes(k)
  BY MemberTyped, Sizes DEF Indexes
<1>3. \A e : At(k, e) = o + e * w
  BY DEF At
<1> DEFINE In(i, x) == i \in Span(o, w, x)
           E(i) == (i - o) \div w
           Result(i) == IF \E x \in DOMAIN given : In(i, x)
                     THEN Byte(given[E(i)], i - o - E(i) * w) ELSE b[i]
<1>4. new = [i \in 0..offset - 1 |-> Result(i)]
  BY DEF Poke, Bytes, Span
<1> HIDE DEF In, E
<1>5. ASSUME NEW e \in Indexes(k), NEW j \in 0..w - 1
      PROVE  /\ At(k, e) + j \in 0..offset - 1
             /\ At(k, e) + j \in o .. o + SizeOf(members[k].type) - 1
             /\ \A x \in DOMAIN given : In(At(k, e) + j, x) <=> x = e
             /\ E(At(k, e) + j) = e
             /\ (At(k, e) + j) - o - E(At(k, e) + j) * w = j
  <2>1. e \in Nat
    BY MemberTyped, Sizes DEF Indexes
  <2> PICK i : i = o + e * w + j
    OBVIOUS
  <2>1a. o \in Nat /\ w \in Nat \ {0} /\ e \in Nat /\ j \in 0..w - 1 /\ i = o + e * w + j
    BY <1>1, <2>1
  <2>2. \A x \in Nat : In(i, x) <=> x = e
    <3>1. i \in Span(o, w, e)
      <4>1. e * w \in Nat /\ (e + 1) * w = e * w + w
        BY ONLY <2>1a
      <4> QED
        BY <2>1a, <4>1 DEF Span
    <3>2. ASSUME NEW x \in Nat, x # e PROVE i \notin Span(o, w, x)
      BY <1>1, <2>1, <3>1, <3>2, PlacedApart
    <3> QED
      BY <3>1, <3>2 DEF In
  <2>3. E(i) = e /\ i - o - E(i) * w = j
    <3>2. (i - o) \div w = e /\ i - o - e * w = j
      BY ONLY <2>1a, Placed
    <3> QED
      BY <3>2, Zenon DEF E
  <2>4. PICK a : a = At(k, e)
    OBVIOUS
  <2>5. a + j \in a..a + w - 1
    <3>1. 0 \in 0..w - 1
      BY <1>1
    <3>2. a \in Nat
      <4>1. e * w \in Nat
        BY <1>1, <2>1
      <4> QED
        BY <1>1, <1>3, <2>4, <4>1
    <3> QED
      BY <1>1, <3>2
  <2>6. a + j \in 0..offset - 1 /\ a + j \in o .. o + SizeOf(members[k].type) - 1
    BY <2>4, <2>5, BytesInside
  <2>7. i = a + j
    BY <1>3, <2>4
  <2> QED
    BY <1>2, <2>2, <2>3, <2>4, <2>6, <2>7
<1>6. ASSUME NEW i \in 0..offset - 1, NEW x \in DOMAIN given, In(i, x)
      PROVE  /\ Result(i) \in 0..Base - 1
             /\ i \in o .. o + SizeOf(members[k].type) - 1
  <2>1. x \in Nat /\ x \in Indexes(k)
    BY <1>2
  <2>2. PICK a : a = At(k, x)
    OBVIOUS
  <2>3. x * w \in Nat /\ (x + 1) * w = x * w + w
    BY <1>1, <2>1
  <2>4. PICK y : y = x * w
    OBVIOUS
  <2>5. a = o + y /\ y \in Nat /\ i \in o + y .. o + (y + w) - 1
    BY <1>3, <1>6, <2>2, <2>3, <2>4 DEF In, Span
  <2>6. PICK j : j = i - a
    OBVIOUS
  <2>7. j \in 0..w - 1 /\ i = a + j
    BY <1>1, <2>5, <2>6
  <2>8. /\ i \in o .. o + SizeOf(members[k].type) - 1
        /\ E(i) = x /\ i - o - E(i) * w = j
    BY <1>5, <2>1, <2>2, <2>7
  <2>9. Result(i) = Byte(given[x], j)
    BY <1>6, <2>8
  <2>10. Byte(given[x], j) \in 0..Base - 1
    BY <2>7, ByteIs
  <2> QED
    BY <2>8, <2>9, <2>10
<1>7. new \in Bytes
  <2>1. \A i \in 0..offset - 1 : Result(i) \in 0..Base - 1
    BY <1>6 DEF Bytes
  <2> QED
    BY <1>4, <2>1 DEF Bytes
<1>8. \A i \in 0..offset - 1 : new[i] = b[i] \/ i \in o .. o + SizeOf(members[k].type) - 1
  BY <1>4, <1>6
<1>9. ASSUME NEW e \in DOMAIN given, NEW j \in 0..w - 1
      PROVE  new[At(k, e) + j] = Byte(given[e], j)
  <2> PICK i : i = At(k, e) + j
    OBVIOUS
  <2>1. i \in 0..offset - 1 /\ In(i, e) /\ E(i) = e /\ i - o - E(i) * w = j
    BY <1>2, <1>5
  <2>2. Result(i) = Byte(given[e], j)
    BY <2>1
  <2> HIDE DEF Result
  <2> QED
    BY <1>4, <2>1, <2>2
<1>10. ASSUME NEW e \in Indexes(k) \ DOMAIN given, NEW j \in 0..w - 1
       PROVE  new[At(k, e) + j] = b[At(k, e) + j]
  <2> PICK i : i = At(k, e) + j
    OBVIOUS
  <2>1. i \in 0..offset - 1 /\ \A x \in DOMAIN given : In(i, x) <=> x = e
    BY <1>5
  <2>2. Result(i) = b[i]
    BY <2>1
  <2> HIDE DEF Result
  <2> QED
    BY <1>4, <2>1, <2>2
<1> QED
  BY <1>7, <1>8, <1>9, <1>10

(* An element of some bytes.                                               *)
Peeked(b, k, e) == Peek(b, At(k, e), members[k].type)

(* The element of an object is that of its bytes.                          *)
LEMMA Peeks ==
  \A r, k, e : Element(r, k, e) = Peeked(object[r].bytes, k, e)
BY DEF Element, Peeked, At

(* A store sets the elements that are given, to what a C integer keeps of  *)
(* the number, and no other element of the object.                         *)
LEMMA PokeElements ==
  ASSUME LayoutType, MembersApart, NEW k \in DOMAIN members, NEW b \in Bytes,
         NEW given, DOMAIN given \subseteq Indexes(k),
         \A e \in DOMAIN given : given[e] \in Int,
         NEW new, new = Poke(b, members[k].offset, members[k].type.width, given)
  PROVE  \A j \in DOMAIN members : \A e \in Indexes(j) :
           Peeked(new, j, e) = IF j = k /\ e \in DOMAIN given
                               THEN Keep(members[k].type, given[e]) ELSE Peeked(b, j, e)
<1>1. /\ new \in Bytes
      /\ \A i \in 0..offset - 1 :
           \/ new[i] = b[i]
           \/ i \in members[k].offset .. members[k].offset + SizeOf(members[k].type) - 1
      /\ \A e \in DOMAIN given : \A i \in 0..members[k].type.width - 1 :
           new[At(k, e) + i] = Byte(given[e], i)
      /\ \A e \in Indexes(k) \ DOMAIN given : \A i \in 0..members[k].type.width - 1 :
           new[At(k, e) + i] = b[At(k, e) + i]
  BY Poked
<1> SUFFICES ASSUME NEW j \in DOMAIN members, NEW e \in Indexes(j)
             PROVE  Peeked(new, j, e) = IF j = k /\ e \in DOMAIN given
                                        THEN Keep(members[k].type, given[e])
                                        ELSE Peeked(b, j, e)
  OBVIOUS
<1> PICK t : t = members[j].type
  OBVIOUS
<1> PICK a : a = At(j, e)
  OBVIOUS
<1>2. t.width \in Nat \ {0} /\ t \in Type
  BY MemberTyped, Sizes
<1>3. a \in Nat
  <2>1. e \in Nat /\ members[j].offset \in Nat
    BY MemberTyped, Sizes DEF Indexes
  <2>2. PICK w \in Nat : w = t.width
    BY <1>2
  <2>3. e * w \in Nat
    BY <2>1, <2>2
  <2> QED
    BY <2>1, <2>2, <2>3 DEF At
<1>4. \A i \in a..a + t.width - 1 :
        /\ i \in members[j].offset .. members[j].offset + SizeOf(t) - 1
        /\ i \in 0..offset - 1
        /\ b[i] \in Nat
  <2> TAKE i \in a..a + t.width - 1
  <2>1. i \in members[j].offset .. members[j].offset + SizeOf(t) - 1 /\ i \in 0..offset - 1
    BY BytesInside
  <2>2. b[i] \in 0..Base - 1
    BY <2>1 DEF Bytes
  <2> QED
    BY <2>1, <2>2, Bases
<1>5. ASSUME \A i \in a..a + t.width - 1 : new[i] = b[i]
      PROVE  Peeked(new, j, e) = Peeked(b, j, e)
  <2>1. Peek(b, a, t) = Peek(new, a, t)
    BY <1>2, <1>3, <1>4, <1>5, PeekSame
  <2> QED
    BY <2>1 DEF Peeked
<1>6. CASE j = k /\ e \in DOMAIN given
  <2>1. \A i \in 0..t.width - 1 : new[a + i] = Byte(given[e], i)
    BY <1>1, <1>6
  <2>2. Peek(new, a, t) = Keep(t, given[e])
    <3> PICK g \in Int : g = given[e]
      BY <1>6
    <3>1. \A i \in 0..t.width - 1 : new[a + i] = Byte(g, i)
      BY <2>1
    <3>2. Peek(new, a, t) = Keep(t, g)
      <4>1. t.width \in Nat \ {0} /\ a \in Nat
        BY <1>2, <1>3
      <4>2. g \in Int
        OBVIOUS
      <4> QED
        BY ONLY <3>1, <4>1, <4>2, PeekStored
    <3> QED
      BY <3>2
  <2> QED
    BY <1>6, <2>2 DEF Peeked
<1>7. CASE j = k /\ e \notin DOMAIN given
  <2>1. \A i \in 0..t.width - 1 : new[a + i] = b[a + i]
    BY <1>1, <1>7
  <2>2. ASSUME NEW i \in a..a + t.width - 1 PROVE new[i] = b[i]
    <3>1. i - a \in 0..t.width - 1 /\ a + (i - a) = i
      BY <1>2, <1>3
    <3> QED
      BY <2>1, <3>1
  <2> QED
    BY <1>5, <1>7, <2>2
<1>8. CASE j # k
  <2>1. ASSUME NEW i \in a..a + t.width - 1 PROVE new[i] = b[i]
    <3> PICK o : o = members[j].offset
      OBVIOUS
    <3> PICK s : s = SizeOf(t)
      OBVIOUS
    <3> PICK p : p = members[k].offset
      OBVIOUS
    <3> PICK u : u = SizeOf(members[k].type)
      OBVIOUS
    <3>1. i \in o..o + s - 1 /\ i \in 0..offset - 1
      BY <1>4
    <3>2. o \in Nat /\ s \in Nat /\ p \in Nat /\ u \in Nat
      BY MemberTyped, Sizes
    <3>3. o + s <= p \/ p + u <= o
      <4>1. j \in Int /\ k \in Int
        BY DEF LayoutType
      <4>2. j < k \/ k < j
        BY <1>8, <4>1
      <4> QED
        BY <4>2 DEF MembersApart
    <3>4. i \notin p..p + u - 1
      BY <3>1, <3>2, <3>3
    <3> QED
      BY <1>1, <3>1, <3>4
  <2> QED
    BY <1>5, <1>8, <2>1
<1> QED
  BY <1>6, <1>7, <1>8

-----------------------------------------------------------------------------
(* Objects                                                                 *)

(* An object has as many bytes as its class has for good.                  *)
ObjectsSized ==
  /\ DOMAIN object \subseteq Rec
  /\ object = [r \in DOMAIN object |-> object[r]]
  /\ \A r \in DOMAIN object :
       /\ phase \in {"defined", "broken"}
       /\ object[r] \in [bytes : Bytes, ro : BOOLEAN]

(* What StoresConfined says of a step.                                     *)
Confining ==
  \A r \in DOMAIN object \cap DOMAIN object' :
    \A i \in 0..offset - 1 : object'[r].bytes[i] # object[r].bytes[i] =>
      /\ event'.call = "set" /\ event'.rec = r
      /\ LET m == members[event'.member]
         IN  i \in m.offset .. m.offset + SizeOf(m.type) - 1

(* Elements of the member are given numbers, at the place of the member.   *)
StoredInside(r, k, given) ==
  /\ Live(r)
  /\ DOMAIN given \subseteq Indexes(k)
  /\ \A e \in DOMAIN given : given[e] \in Int
  /\ Stored(r, k, members[k].offset, given)

(* The objects there are stay, and no more than those elements change.     *)
Assigned(r, k, given) ==
  /\ DOMAIN object' = DOMAIN object
  /\ \A q \in DOMAIN object : object'[q].ro = object[q].ro
  /\ \A q \in DOMAIN object : \A j \in DOMAIN members : \A e \in Indexes(j) :
       Element(q, j, e)' = IF q = r /\ j = k /\ e \in DOMAIN given
                           THEN Keep(members[k].type, given[e]) ELSE Element(q, j, e)

(* A store keeps the size of the object and sets the elements given.       *)
LEMMA StoreStep ==
  ASSUME LayoutType, MembersApart, ObjectsSized, NEW r, NEW k \in DOMAIN members,
         NEW given, StoredInside(r, k, given)
  PROVE  UNCHANGED layoutVars /\ ObjectsSized' /\ Confining /\ Assigned(r, k, given)
<1> PICK b : b = object[r].bytes
  OBVIOUS
<1> PICK new : new = Poke(b, members[k].offset, members[k].type.width, given)
  OBVIOUS
<1>1. UNCHANGED layoutVars
  BY DEF StoredInside, Stored
<1>2. UNCHANGED <<phase, members, offset>>
  BY <1>1 DEF layoutVars
<1>3. r \in DOMAIN object /\ b \in Bytes /\ object[r].ro \in BOOLEAN
      /\ object[r] \in [bytes : Bytes, ro : BOOLEAN]
  BY DEF StoredInside, Live, ObjectsSized
<1>4. object' = [object EXCEPT ![r] = [@ EXCEPT !.bytes = new]]
  BY DEF StoredInside, Stored
<1>5. /\ DOMAIN object' = DOMAIN object
      /\ object' = [q \in DOMAIN object' |-> object'[q]]
      /\ \A q \in DOMAIN object : q # r => object'[q] = object[q]
      /\ object'[r] = [object[r] EXCEPT !.bytes = new]
  BY <1>3, <1>4 DEF ObjectsSized
<1>6. /\ new \in Bytes
      /\ \A i \in 0..offset - 1 :
           \/ new[i] = b[i]
           \/ i \in members[k].offset .. members[k].offset + SizeOf(members[k].type) - 1
  BY <1>3, Poked DEF StoredInside
<1>7. /\ object'[r] \in [bytes : Bytes, ro : BOOLEAN]
      /\ object'[r].bytes = new /\ object'[r].ro = object[r].ro
  BY <1>3, <1>5, <1>6
<1>8. ObjectsSized'
  <2>1. Bytes' = Bytes
    BY <1>2 DEF Bytes
  <2>2. ASSUME NEW q \in DOMAIN object'
        PROVE  phase \in {"defined", "broken"} /\ object'[q] \in [bytes : Bytes, ro : BOOLEAN]
    BY <1>5, <1>7 DEF ObjectsSized
  <2>3. DOMAIN object' \subseteq Rec
    BY <1>5 DEF ObjectsSized
  <2> QED
    BY <1>2, <1>5, <2>1, <2>2, <2>3 DEF ObjectsSized
<1>9. Confining
  <2> SUFFICES ASSUME NEW q \in DOMAIN object, NEW i \in 0..offset - 1,
                      object'[q].bytes[i] # object[q].bytes[i]
               PROVE  /\ event'.call = "set" /\ event'.rec = q
                      /\ LET m == members[event'.member]
                         IN  i \in m.offset .. m.offset + SizeOf(m.type) - 1
    BY DEF Confining
  <2>1. q = r
    BY <1>5
  <2>2. i \in members[k].offset .. members[k].offset + SizeOf(members[k].type) - 1
    BY <1>6, <1>7, <2>1
  <2>3. event'.call = "set" /\ event'.rec = r /\ event'.member = k
    BY DEF StoredInside, Stored
  <2> QED
    BY <2>1, <2>2, <2>3
<1>10. Assigned(r, k, given)
  <2>1. \A q \in DOMAIN object : object'[q].ro = object[q].ro
    BY <1>5, <1>7
  <2>2. ASSUME NEW q \in DOMAIN object, NEW j \in DOMAIN members, NEW e \in Indexes(j)
        PROVE  Element(q, j, e)' = IF q = r /\ j = k /\ e \in DOMAIN given
                                   THEN Keep(members[k].type, given[e]) ELSE Element(q, j, e)
    <3>1. Element(q, j, e)' = Peeked(object'[q].bytes, j, e)
      BY <1>2 DEF Element, Peeked, At
    <3>2. Element(q, j, e) = Peeked(object[q].bytes, j, e)
      BY Peeks
    <3>3. CASE q = r
      <4>1. Peeked(new, j, e) = IF j = k /\ e \in DOMAIN given
                                THEN Keep(members[k].type, given[e]) ELSE Peeked(b, j, e)
        BY <1>3, PokeElements DEF StoredInside
      <4> QED
        BY <1>7, <3>1, <3>2, <3>3, <4>1
    <3>4. CASE q # r
      BY <1>5, <3>1, <3>2, <3>4
    <3> QED
      BY <3>3, <3>4
  <2> QED
    BY <1>5, <2>1, <2>2 DEF Assigned
<1> QED
  BY <1>1, <1>8, <1>9, <1>10

(* An accessor, or C, gives numbers to a member that has no heap string.   *)
PlainStore(r, k) ==
  /\ \E given : StoredInside(r, k, given)
  /\ ~ IsKind(k, {"string_rw"})
  /\ UNCHANGED <<strings, corrupt>>

(* A heap string is put in place of what the member has, or taken away.    *)
StringStore(r, k, new) ==
  /\ StoredInside(r, k, [e \in {0} |-> new])
  /\ \/ new \in String /\ SetString(r, k, new)
     \/ new = 0 /\ UnsetString(r, k)

(* An accessor is asked for a value, or refuses.                           *)
Reading(r, k) ==
  \/ \E e \in Index : Get(r, k, e) \/ GetElement(r, k, e) \/ GetAddress(r, k, e)
  \/ Refused(r, k) \/ NullRecord(k)

(* Every accessor that stores, and every store by C, stores elements that  *)
(* the member has; C's are at the same place because the layouts agree.    *)
LEMMA AccessorCases ==
  ASSUME LayoutType, Agreed, NEW r \in Rec, NEW k \in DOMAIN members,
         Accessor(r, k) \/ Native(r, k)
  PROVE  \/ PlainStore(r, k)
         \/ \E new \in String \cup {0} : StringStore(r, k, new)
         \/ Reading(r, k)
<1>1. /\ 0 \in Indexes(k) /\ members[k].type \in Type /\ members[k].type.count \in Nat
  BY MemberTyped, Sizes
<1>2. members[k].type.array => ~ IsKind(k, {"string_rw"})
  BY <1>1 DEF Type, IsKind
<1>3. ASSUME NEW v \in Int
      PROVE  /\ DOMAIN [e \in {0} |-> v] \subseteq Indexes(k)
             /\ \A e \in DOMAIN [x \in {0} |-> v] : [x \in {0} |-> v][e] \in Int
  BY <1>1
<1>4. ASSUME NEW i \in Indexes(k), NEW v \in Int
      PROVE  /\ DOMAIN [e \in {i} |-> v] \subseteq Indexes(k)
             /\ \A e \in DOMAIN [x \in {i} |-> v] : [x \in {i} |-> v][e] \in Int
  OBVIOUS
<1>5. /\ \A v \in Value : v \in Int
      /\ \A v \in String : v \in Int
      /\ \A e \in Index : e \in Int
      /\ \A text \in Text : text \in Seq(0..Base - 1)
  <2>1. Pow[Pointer] \in Int
    BY Powers, Bases
  <2> QED
    BY <2>1, RecordAssumption DEF RecordAssumption
<1>6. \A text \in Text : \A i \in 0..Len(text) - 1 : text[i + 1] \in Int
  <2> TAKE text \in Text
  <2> TAKE i \in 0..Len(text) - 1
  <2>1. text \in Seq(0..Base - 1) /\ Len(text) \in Nat
    BY <1>5
  <2>2. i + 1 \in 1..Len(text)
    BY <2>1
  <2>3. text[i + 1] \in 0..Base - 1
    BY <2>1, <2>2, ElementOfSeq
  <2> QED
    BY <2>3, Bases
<1>7. ASSUME NEW v \in Value, SetScalar(r, k, v)
      PROVE  PlainStore(r, k)
  <2>1. StoredInside(r, k, [e \in {0} |-> v])
    BY <1>3, <1>5, <1>7 DEF SetScalar, StoredInside
  <2>2. ~ IsKind(k, {"string_rw"})
    BY <1>7 DEF SetScalar, IsKind
  <2> QED
    BY <1>7, <2>1, <2>2 DEF SetScalar, PlainStore
<1>8. ASSUME NEW e \in Index, NEW v \in Value, SetElement(r, k, e, v)
      PROVE  PlainStore(r, k)
  <2>1. e \in Indexes(k)
    BY <1>1, <1>5, <1>8 DEF SetElement, Indexes
  <2>2. StoredInside(r, k, [x \in {e} |-> v])
    BY <1>4, <1>5, <1>8, <2>1 DEF SetElement, StoredInside
  <2> QED
    BY <1>2, <1>8, <2>2 DEF SetElement, PlainStore
<1>9. ASSUME NEW list \in Text, SetList(r, k, list)
      PROVE  PlainStore(r, k)
  <2> DEFINE given == [e \in Indexes(k) |-> IF e < Len(list) THEN list[e + 1] ELSE 0]
  <2>1. DOMAIN given \subseteq Indexes(k)
    OBVIOUS
  <2>2. \A e \in DOMAIN given : given[e] \in Int
    <3> TAKE e \in DOMAIN given
    <3>1. e \in Nat
      BY <1>1 DEF Indexes
    <3>2. Len(list) \in Nat
      BY <1>5
    <3>3. e < Len(list) => list[e + 1] \in Int
      BY <1>6, <3>1, <3>2
    <3> QED
      BY <3>3
  <2>3. StoredInside(r, k, given)
    BY <1>9, <2>1, <2>2 DEF SetList, StoredInside
  <2> HIDE DEF given
  <2> QED
    BY <1>2, <1>9, <2>3 DEF SetList, PlainStore
<1>10. ASSUME NEW text \in Text, SetFixed(r, k, text)
       PROVE  PlainStore(r, k)
  <2> DEFINE given == [e \in {x \in Indexes(k) : x < Len(text)} |-> text[e + 1]]
  <2>1. DOMAIN given \subseteq Indexes(k)
    OBVIOUS
  <2>2. \A e \in DOMAIN given : given[e] \in Int
    <3> TAKE e \in DOMAIN given
    <3>1. e \in Nat /\ e < Len(text)
      BY <1>1 DEF Indexes
    <3>2. Len(text) \in Nat
      BY <1>5
    <3> QED
      BY <1>6, <3>1, <3>2
  <2>3. StoredInside(r, k, given)
    BY <1>10, <2>1, <2>2 DEF SetFixed, StoredInside
  <2>4. ~ IsKind(k, {"string_rw"})
    BY <1>10 DEF SetFixed, IsKind
  <2> HIDE DEF given
  <2> QED
    BY <1>10, <2>3, <2>4 DEF SetFixed, PlainStore
<1>11. ASSUME NEW new \in String, SetString(r, k, new)
       PROVE  StringStore(r, k, new)
  BY <1>3, <1>5, <1>11 DEF SetString, StoredInside, StringStore
<1>12. ASSUME UnsetString(r, k)
       PROVE  StringStore(r, k, 0)
  BY <1>3, <1>12 DEF UnsetString, StoredInside, StringStore
<1>13. ASSUME NEW e \in Index, NEW v \in Value, CStore(r, k, e, v)
       PROVE  PlainStore(r, k)
  <2>1. compiled[k] = members[k].offset
    BY DEF Agreed, OffsetsAgree
  <2>2. StoredInside(r, k, [x \in {e} |-> v])
    BY <1>4, <1>5, <1>13, <2>1 DEF CStore, StoredInside
  <2> QED
    BY <1>13, <2>2 DEF CStore, PlainStore
<1> QED
  BY <1>7, <1>8, <1>9, <1>10, <1>11, <1>12, <1>13 DEF Accessor, Native, Reading

(* Such a call changes no object.                                          *)
LEMMA ReadingStep ==
  ASSUME NEW r, NEW k, Reading(r, k)
  PROVE  UNCHANGED <<layoutVars, object, strings, shared, corrupt>>
BY DEF Reading, Get, GetElement, GetAddress, Refused, NullRecord, Asked, Nothing

(* An object more, the others as they were.                                *)
MadeOf(r, o) ==
  /\ ~ Live(r)
  /\ DOMAIN object' = DOMAIN object \cup {r}
  /\ object'[r] = o
  /\ \A q \in DOMAIN object : object'[q] = object[q]
  /\ \A q \in DOMAIN object : \A k, e : Element(q, k, e)' = Element(q, k, e)
  /\ \A k, e : Element(r, k, e)' = Peeked(o.bytes, k, e)

(* An object that is made has the size of the class.                       *)
LEMMA MadeStep ==
  ASSUME ObjectsSized, UNCHANGED layoutVars, phase \in {"defined", "broken"},
         NEW r \in Rec, ~ Live(r), NEW o \in [bytes : Bytes, ro : BOOLEAN], Made(r, o)
  PROVE  ObjectsSized' /\ Confining /\ MadeOf(r, o)
<1>1. UNCHANGED <<phase, members, offset>>
  BY DEF layoutVars
<1>2. /\ DOMAIN object' = DOMAIN object \cup {r}
      /\ object' = [q \in DOMAIN object' |-> object'[q]]
      /\ object'[r] = o
      /\ \A q \in DOMAIN object : object'[q] = object[q]
  BY DEF Made, Live
<1>3. ObjectsSized'
  <2>1. Bytes' = Bytes
    BY <1>1 DEF Bytes
  <2>2. \A q \in DOMAIN object' :
          phase \in {"defined", "broken"} /\ object'[q] \in [bytes : Bytes, ro : BOOLEAN]
    BY <1>2 DEF ObjectsSized
  <2>3. DOMAIN object' \subseteq Rec
    BY <1>2 DEF ObjectsSized
  <2> QED
    BY <1>1, <1>2, <2>1, <2>2, <2>3 DEF ObjectsSized
<1>4. Confining
  BY <1>2 DEF Confining
<1>5. \A q \in DOMAIN object : \A k, e : Element(q, k, e)' = Element(q, k, e)
  BY <1>1, <1>2 DEF Element
<1>6. \A k, e : Element(r, k, e)' = Peeked(o.bytes, k, e)
  BY <1>1, <1>2 DEF Element, Peeked, At
<1> QED
  BY <1>2, <1>3, <1>4, <1>5, <1>6 DEF MadeOf

(* A new object is made of zeros.                                          *)
LEMMA NewStep ==
  ASSUME LayoutType, MembersApart, ObjectsSized, NEW r \in Rec, New(r)
  PROVE  /\ ObjectsSized' /\ Confining
         /\ \E o : /\ MadeOf(r, o) /\ o.ro = FALSE
                   /\ \A k \in DOMAIN members : \A e \in Indexes(k) : Peeked(o.bytes, k, e) = 0
<1> PICK b : b = [i \in 0..offset - 1 |-> 0]
  OBVIOUS
<1> PICK o : o = [bytes |-> b, ro |-> FALSE]
  OBVIOUS
<1>1. 0 \in 0..Base - 1
  BY Bases
<1>2. b \in Bytes /\ o \in [bytes : Bytes, ro : BOOLEAN] /\ o.bytes = b /\ o.ro = FALSE
  BY <1>1 DEF Bytes
<1>3. ObjectsSized' /\ Confining /\ MadeOf(r, o)
  <2>1. UNCHANGED layoutVars /\ phase \in {"defined", "broken"} /\ ~ Live(r) /\ Made(r, o)
    BY DEF New
  <2> QED
    BY <1>2, <2>1, MadeStep
<1>4. ASSUME NEW k \in DOMAIN members, NEW e \in Indexes(k)
      PROVE  Peeked(b, k, e) = 0
  <2> PICK t : t = members[k].type
    OBVIOUS
  <2> PICK a : a = At(k, e)
    OBVIOUS
  <2>1. t.width \in Nat \ {0}
    BY MemberTyped, Sizes
  <2>2. a \in Nat
    <3>1. e \in Nat /\ members[k].offset \in Nat
      BY MemberTyped, Sizes DEF Indexes
    <3>2. PICK w \in Nat : w = t.width
      BY <2>1
    <3>3. e * w \in Nat
      BY <3>1, <3>2
    <3> QED
      BY <3>1, <3>2, <3>3 DEF At
  <2>3. \A j \in 0..t.width - 1 : b[a + j] = 0
    <3> TAKE j \in 0..t.width - 1
    <3> PICK i : i = a + j
      OBVIOUS
    <3>1. i \in a..a + t.width - 1
      BY <2>1, <2>2
    <3>2. i \in 0..offset - 1
      BY <3>1, BytesInside
    <3> QED
      BY <3>2
  <2>4. Peek(b, a, t) = 0
    BY ONLY <2>1, <2>2, <2>3, PeekZero
  <2> QED
    BY <2>4 DEF Peeked
<1> QED
  BY <1>2, <1>3, <1>4

(* A copy has what the record has that it is made of.                      *)
LEMMA CopyStep ==
  ASSUME ObjectsSized, NEW r \in Rec, NEW from \in Rec, NEW ro \in BOOLEAN,
         Copied(r, from, ro)
  PROVE  /\ ObjectsSized' /\ Confining
         /\ MadeOf(r, [bytes |-> object[from].bytes, ro |-> ro])
<1>1. /\ UNCHANGED layoutVars /\ phase \in {"defined", "broken"} /\ ~ Live(r)
      /\ from \in DOMAIN object
      /\ Made(r, [bytes |-> object[from].bytes, ro |-> ro])
  BY DEF Copied, Live
<1>2. object[from] \in [bytes : Bytes, ro : BOOLEAN]
  BY <1>1 DEF ObjectsSized
<1>3. [bytes |-> object[from].bytes, ro |-> ro] \in [bytes : Bytes, ro : BOOLEAN]
  BY <1>2
<1> QED
  BY <1>1, <1>3, MadeStep

(* The objects that stay are as they were.                                 *)
LEMMA DestroyStep ==
  ASSUME ObjectsSized, NEW r, Destroy(r)
  PROVE  /\ ObjectsSized' /\ Confining
         /\ r \in DOMAIN object /\ DOMAIN object' = DOMAIN object \ {r}
         /\ \A q \in DOMAIN object' : object'[q] = object[q]
         /\ \A q \in DOMAIN object' : \A k, e : Element(q, k, e)' = Element(q, k, e)
<1>1. UNCHANGED <<phase, members, offset>>
  BY DEF Destroy, layoutVars
<1>2. /\ r \in DOMAIN object
      /\ DOMAIN object' = DOMAIN object \ {r}
      /\ object' = [q \in DOMAIN object' |-> object'[q]]
      /\ \A q \in DOMAIN object' : object'[q] = object[q]
  BY DEF Destroy, Live
<1>3. ObjectsSized'
  <2>1. Bytes' = Bytes
    BY <1>1 DEF Bytes
  <2>2. \A q \in DOMAIN object' :
          phase \in {"defined", "broken"} /\ object'[q] \in [bytes : Bytes, ro : BOOLEAN]
    BY <1>2 DEF ObjectsSized
  <2>3. DOMAIN object' \subseteq Rec
    BY <1>2 DEF ObjectsSized
  <2> QED
    BY <1>1, <1>2, <2>1, <2>2, <2>3 DEF ObjectsSized
<1>4. Confining
  BY <1>2 DEF Confining
<1>5. \A q \in DOMAIN object' : \A k, e : Element(q, k, e)' = Element(q, k, e)
  BY <1>1, <1>2 DEF Element
<1> QED
  BY <1>2, <1>3, <1>4, <1>5

(* The steps that leave the objects alone.                                 *)
LEMMA ObjectsKept ==
  ASSUME ObjectsSized, UNCHANGED <<layoutVars, object>>
  PROVE  ObjectsSized' /\ Confining
BY DEF ObjectsSized, Confining, Bytes, layoutVars

-----------------------------------------------------------------------------
(* The invariant                                                           *)

(* The inductive invariant.                                                *)
Inv ==
  /\ phase \in {"none", "members", "failed", "defined", "broken"}
  /\ LayoutType
  /\ Agreed
  /\ MembersApart
  /\ Told
  /\ ObjectsSized
  /\ strings \subseteq String

(* What the accessors and C do to an object keeps the invariant.           *)
LEMMA AccessorStep ==
  ASSUME Inv, NEW r \in Rec, NEW k \in DOMAIN members, Accessor(r, k) \/ Native(r, k)
  PROVE  UNCHANGED layoutVars /\ ObjectsSized' /\ strings' \subseteq String /\ Confining
<1> USE DEF Inv
<1>1. CASE PlainStore(r, k)
  BY <1>1, StoreStep DEF PlainStore
<1>2. ASSUME NEW new \in String \cup {0}, StringStore(r, k, new)
      PROVE  UNCHANGED layoutVars /\ ObjectsSized' /\ strings' \subseteq String /\ Confining
  <2>1. strings' \subseteq String
    BY <1>2 DEF StringStore, SetString, UnsetString
  <2> QED
    BY <1>2, <2>1, StoreStep DEF StringStore
<1>3. CASE Reading(r, k)
  BY <1>3, ReadingStep, ObjectsKept
<1> QED
  BY <1>1, <1>2, <1>3, AccessorCases

(* What is done to whole objects keeps the invariant.                      *)
LEMMA WholeStep ==
  ASSUME Inv, NEW r \in Rec, Whole(r)
  PROVE  UNCHANGED layoutVars /\ ObjectsSized' /\ strings' \subseteq String /\ Confining
<1> USE DEF Inv
<1>1. CASE New(r)
  <2>1. UNCHANGED layoutVars /\ strings' \subseteq String
    BY <1>1 DEF New
  <2> QED
    BY <1>1, <2>1, NewStep
<1>2. ASSUME NEW from \in Rec, NEW ro \in BOOLEAN, Copied(r, from, ro)
      PROVE  UNCHANGED layoutVars /\ ObjectsSized' /\ strings' \subseteq String /\ Confining
  <2>1. UNCHANGED layoutVars /\ strings' \subseteq String
    BY <1>2 DEF Copied
  <2> QED
    BY <1>2, <2>1, CopyStep
<1>3. CASE Destroy(r)
  <2>1. UNCHANGED layoutVars /\ strings' \subseteq String
    BY <1>3 DEF Destroy
  <2> QED
    BY <1>3, <2>1, DestroyStep
<1>4. CASE PassByValue(r)
  <2>1. UNCHANGED <<layoutVars, object, strings>>
    BY <1>4 DEF PassByValue, Nothing
  <2> QED
    BY <2>1, ObjectsKept
<1> QED
  BY <1>1, <1>2, <1>3, <1>4 DEF Whole, ReturnCopy, ClosureCopy

(* No object is there before the layout is final.                          *)
LEMMA LayoutStep ==
  ASSUME Inv, Layout
  PROVE  Inv' /\ Confining
<1>1. object' = object /\ strings' = strings
  BY DEF Layout, RecordLayout, AddMember, MemberRefused, Finish, OnlyLayout
<1>2. phase \notin {"defined", "broken"}
      /\ phase' \in {"none", "members", "failed", "defined", "broken"}
  BY DEF Layout, RecordLayout, AddMember, MemberRefused, Finish
<1>3. ObjectsSized' /\ Confining
  <2>1. DOMAIN object = {}
    BY <1>2 DEF Inv, ObjectsSized
  <2> QED
    BY <1>1, <2>1 DEF Inv, ObjectsSized, Confining
<1>4. CASE AddMember
  BY <1>1, <1>2, <1>3, <1>4, MemberAdded, ToldAdded DEF Inv
<1>5. CASE MemberRefused \/ Finish
  <2>1. UNCHANGED <<rest, members, offset, align, compiled, elements, methods>>
    BY <1>5 DEF MemberRefused, Finish
  <2> QED
    BY <1>1, <1>2, <1>3, <2>1, LayoutKept, ToldKept DEF Inv
<1>6. ASSUME NEW d \in Decl, RecordLayout(d)
      PROVE  LayoutType' /\ Agreed' /\ MembersApart' /\ Told'
  <2>1. d \in Seq(Declared)
    BY RecordAssumption DEF RecordAssumption, Declared
  <2>2. /\ rest' = d /\ members' = << >> /\ compiled' = << >> /\ elements' = << >>
        /\ offset' = 0 /\ align' = 0 /\ methods' = methods
    BY <1>6 DEF RecordLayout
  <2>3. Told'
    BY <2>2, NothingTold DEF Told
  <2>4. LayoutType' /\ Agreed' /\ MembersApart'
    BY <2>1, <2>2 DEF Inv, LayoutType, Agreed, OffsetsAgree, MembersApart, CEnd
  <2> QED
    BY <2>3, <2>4
<1> QED
  BY <1>1, <1>2, <1>3, <1>4, <1>5, <1>6 DEF Layout, Inv

-----------------------------------------------------------------------------

(* The invariant holds, and with it every step is confined.                *)
LEMMA InvHolds == Spec => []Inv /\ [][Confining]_vars
<1>1. Init => Inv
  <2> SUFFICES ASSUME Init PROVE Inv
    OBVIOUS
  <2>1. Told
    BY NothingTold DEF Init, Told
  <2> QED
    BY <2>1 DEF Init, Inv, LayoutType, Agreed, OffsetsAgree, MembersApart, ObjectsSized, CEnd
<1>2. Inv /\ [Next]_vars => Inv' /\ [Confining]_vars
  <2> SUFFICES ASSUME Inv, [Next]_vars PROVE Inv' /\ [Confining]_vars
    OBVIOUS
  <2>1. ASSUME UNCHANGED layoutVars, ObjectsSized', strings' \subseteq String
        PROVE  Inv'
    BY <2>1, LayoutKept, ToldKept DEF Inv, layoutVars
  <2>2. CASE UNCHANGED vars
    BY <2>1, <2>2, ObjectsKept DEF vars, Inv
  <2>3. CASE Layout
    BY <2>3, LayoutStep
  <2>4. ASSUME NEW r \in Rec, Whole(r) PROVE Inv' /\ [Confining]_vars
    BY <2>1, <2>4, WholeStep
  <2>5. ASSUME NEW r \in Rec, NEW k \in DOMAIN members, Accessor(r, k) \/ Native(r, k)
        PROVE  Inv' /\ [Confining]_vars
    BY <2>1, <2>5, AccessorStep
  <2> QED
    BY <2>2, <2>3, <2>4, <2>5 DEF Next
<1> QED
  BY <1>1, <1>2, PTL DEF Spec

(* The offsets that record_layout counts are those of the C compiler, and  *)
(* members do not overlap and are inside of the record, for any sizes and  *)
(* alignments of their types and whichever layouts were refused.           *)
THEOREM LayoutIsOfC == Spec => []LayoutOfC
<1>1. Inv => LayoutOfC
  BY DEF Inv, Agreed, LayoutOfC
<1> QED
  BY <1>1, InvHolds, PTL

(* The variables have their types, and an object has as many bytes, each   *)
(* of them a byte, as the class has when its layout is final.              *)
THEOREM TypesKept == Spec => []TypeOK
<1>1. Inv => TypeOK
  <2> SUFFICES ASSUME Inv PROVE TypeOK
    OBVIOUS
  <2>1. \A r \in DOMAIN object :
          object[r] \in [bytes : [0..offset - 1 -> 0..Base - 1], ro : BOOLEAN]
    BY DEF Inv, ObjectsSized, Bytes
  <2> QED
    BY <2>1 DEF Inv, TypeOK, LayoutType, ObjectsSized, Declared, LaidOut
<1> QED
  BY <1>1, InvHolds, PTL

(* libffi, which is told the element types one after the other, computes   *)
(* for each member the place that C gives it, and for the record the size  *)
(* and the alignment of the struct: for every list of members, arrays and  *)
(* fixed strings included.                                                 *)
THEOREM LibffiComputesLayout == Spec => []LibffiAgrees
<1>1. Inv => LibffiAgrees
  BY ToldAgrees DEF Inv
<1> QED
  BY <1>1, InvHolds, PTL

(* A byte of an object changes only when a call stores to the member that  *)
(* it belongs to.                                                          *)
THEOREM StoresStayInside == Spec => StoresConfined
<1>1. [Confining]_vars => [\A r \in DOMAIN object \cap DOMAIN object' :
       \A i \in 0..offset - 1 : object'[r].bytes[i] # object[r].bytes[i] =>
         /\ event'.call = "set" /\ event'.rec = r
         /\ LET m == members[event'.member]
            IN  i \in m.offset .. m.offset + SizeOf(m.type) - 1]_vars
  BY DEF Confining
<1> QED
  BY <1>1, InvHolds, PTL DEF StoresConfined

-----------------------------------------------------------------------------
(* The owners of strings                                                   *)

(* The members of objects that own the heap string they point to.          *)
Slot(r, k) ==
  /\ r \in DOMAIN object /\ ~ object[r].ro
  /\ k \in DOMAIN members /\ Member(k) /\ IsKind(k, {"string_rw"})

(* The address that a member has.                                          *)
Pointed(r, k) == Element(r, k, 0)

(* Without copies, each string has one owner: that there are not two is    *)
(* what keeps the next realloc, free or DESTROY from freeing it again.     *)
OneOwner ==
  /\ ~ corrupt
  /\ \A r, k : Slot(r, k) => Pointed(r, k) \in strings \cup {0}
  /\ \A r, k, q, j :
       Slot(r, k) /\ Slot(q, j) /\ Pointed(r, k) = Pointed(q, j) /\ Pointed(r, k) # 0
         => r = q /\ k = j
  /\ phase = "defined" => \A s \in strings : \E r, k : Slot(r, k) /\ Pointed(r, k) = s

(* Strings are only there for the objects of a class that is laid out.     *)
Owning ==
  /\ phase \notin {"defined", "broken"} => strings = {}
  /\ ~ shared => OneOwner

(* No string changes hands; a member that is new points to nothing.        *)
LEMMA OwnersKept ==
  ASSUME Owning, UNCHANGED <<phase, strings, corrupt>>, ~ shared' => ~ shared,
         ~ shared' =>
           /\ \A r, k : Slot(r, k)' => \/ Slot(r, k) /\ Pointed(r, k)' = Pointed(r, k)
                                       \/ Pointed(r, k)' = 0
           /\ \A r, k : Slot(r, k) => Slot(r, k)' /\ Pointed(r, k)' = Pointed(r, k)
  PROVE  Owning'
<1>1. phase' \notin {"defined", "broken"} => strings' = {}
  BY DEF Owning
<1>2. ASSUME ~ shared' PROVE OneOwner'
  <2>1. OneOwner
    BY <1>2 DEF Owning
  <2>2. /\ \A r, k : Slot(r, k)' => \/ Slot(r, k) /\ Pointed(r, k)' = Pointed(r, k)
                                    \/ Pointed(r, k)' = 0
        /\ \A r, k : Slot(r, k) => Slot(r, k)' /\ Pointed(r, k)' = Pointed(r, k)
    BY <1>2
  <2>3. \A r, k : Slot(r, k)' => Pointed(r, k)' \in strings' \cup {0}
    BY <2>1, <2>2 DEF OneOwner
  <2>4. ASSUME NEW r, NEW k, NEW q, NEW j, Slot(r, k)', Slot(q, j)',
               Pointed(r, k)' = Pointed(q, j)', Pointed(r, k)' # 0
        PROVE  r = q /\ k = j
    <3>1. Slot(r, k) /\ Pointed(r, k)' = Pointed(r, k)
      BY <2>2, <2>4
    <3>2. Slot(q, j) /\ Pointed(q, j)' = Pointed(q, j)
      BY <2>2, <2>4
    <3> QED
      <4>1. Pointed(r, k) = Pointed(q, j) /\ Pointed(r, k) # 0
        BY <2>4, <3>1, <3>2
      <4> QED
        BY <2>1, <3>1, <3>2, <4>1, ZenonT(30) DEF OneOwner
  <2>5. ASSUME phase' = "defined", NEW s \in strings'
        PROVE  \E r, k : Slot(r, k)' /\ Pointed(r, k)' = s
    <3>1. PICK r, k : Slot(r, k) /\ Pointed(r, k) = s
      BY <2>1, <2>5 DEF OneOwner
    <3> QED
      BY <2>2, <3>1
  <2> QED
    BY <2>1, <2>3, <2>4, <2>5 DEF OneOwner
<1> QED
  BY <1>1, <1>2 DEF Owning

(* An address is kept whole in a pointer.                                  *)
LEMMA AddressKept ==
  ASSUME Inv, NEW k \in DOMAIN members, IsKind(k, {"string_rw"}),
         NEW new, new \in String \/ new = 0
  PROVE  Keep(members[k].type, new) = new
<1> PICK t : t = members[k].type
  OBVIOUS
<1> PICK p : p = Pow[Pointer]
  OBVIOUS
<1>1. t \in Type
  BY MemberTyped DEF Inv
<1>2. t.width = Pointer /\ ~ t.signed
  BY <1>1 DEF Type, IsKind
<1>3. p \in Nat \ {0}
  BY Powers, Bases
<1>4. String \subseteq 1..p - 1
  BY RecordAssumption DEF RecordAssumption
<1>5. new \in 0..p - 1
  <2>1. CASE new \in String
    <3>1. new \in 1..p - 1
      BY <1>4, <2>1
    <3> QED
      BY <3>1
  <2>2. CASE new = 0
    BY <1>3, <2>2
  <2> QED
    BY <2>1, <2>2
<1>6. Rem(new, p) = new
  <2>1. 0 \in Int /\ new \in Int /\ new = p * 0 + new
    BY <1>3, <1>5
  <2> QED
    BY ONLY <1>3, <1>5, <2>1, DivisionUnique
<1> QED
  BY <1>2, <1>6 DEF Keep

(* The null pointer is no string.                                          *)
LEMMA NotNull == Inv => 0 \notin strings
<1>1. Pow[Pointer] \in Nat \ {0}
  BY Powers, Bases
<1> QED
  BY <1>1, RecordAssumption DEF Inv, RecordAssumption

(* A store to another member leaves the strings where they are.            *)
LEMMA PlainOwned ==
  ASSUME Inv, Owning, NEW r, NEW k \in DOMAIN members, PlainStore(r, k)
  PROVE  Owning'
<1> PICK given : StoredInside(r, k, given)
  BY DEF PlainStore
<1>1. UNCHANGED layoutVars /\ Assigned(r, k, given)
  BY StoreStep DEF Inv
<1>2. UNCHANGED <<phase, members, strings, corrupt, shared>>
  BY <1>1 DEF layoutVars, PlainStore, StoredInside, Stored
<1>3. \A q, j : Slot(q, j)' <=> Slot(q, j)
  BY <1>1, <1>2 DEF Slot, Assigned, Member, IsKind
<1>4. ASSUME NEW q, NEW j, Slot(q, j)
      PROVE  Pointed(q, j)' = Pointed(q, j)
  <2>1. q \in DOMAIN object /\ j \in DOMAIN members /\ j # k
    BY <1>4 DEF Slot, PlainStore
  <2>2. 0 \in Indexes(j)
    BY <2>1, MemberTyped DEF Inv
  <2>3. Element(q, j, 0)' = Element(q, j, 0)
    BY <1>1, <2>1, <2>2 DEF Assigned
  <2> QED
    BY <2>3 DEF Pointed
<1> QED
  BY <1>2, <1>3, <1>4, OwnersKept

(* realloc and free are given the string that the member owns.             *)
LEMMA StringOwned ==
  ASSUME Inv, Owning, NEW r, NEW k \in DOMAIN members, NEW new, StringStore(r, k, new)
  PROVE  Owning'
<1>1. UNCHANGED layoutVars /\ Assigned(r, k, [e \in {0} |-> new])
  BY StoreStep DEF Inv, StringStore
<1>2. UNCHANGED <<phase, members, shared>>
  BY <1>1 DEF layoutVars, StringStore, StoredInside, Stored
<1>3. \A q, j : Slot(q, j)' <=> Slot(q, j)
  BY <1>1, <1>2 DEF Slot, Assigned, Member, IsKind
<1>4. Slot(r, k) /\ IsKind(k, {"string_rw"}) /\ (new \in String \/ new = 0)
  BY DEF StringStore, SetString, UnsetString, Slot, Live
<1>5. Pointed(r, k)' = new
  <2>1. r \in DOMAIN object /\ 0 \in Indexes(k)
    BY <1>4, MemberTyped DEF Slot, Inv
  <2>2. Element(r, k, 0)' = Keep(members[k].type, new)
    BY <1>1, <2>1 DEF Assigned
  <2> QED
    BY <1>4, <2>2, AddressKept DEF Pointed
<1>6. ASSUME NEW q, NEW j, Slot(q, j), ~ (q = r /\ j = k)
      PROVE  Pointed(q, j)' = Pointed(q, j)
  <2>1. q \in DOMAIN object /\ j \in DOMAIN members
    BY <1>6 DEF Slot
  <2>2. 0 \in Indexes(j)
    BY <2>1, MemberTyped DEF Inv
  <2>3. Element(q, j, 0)' = Element(q, j, 0)
    BY <1>1, <1>6, <2>1, <2>2 DEF Assigned
  <2> QED
    BY <2>3 DEF Pointed
<1> PICK old : old = Pointed(r, k)
  OBVIOUS
<1>7. /\ corrupt' = (corrupt \/ old \notin strings \cup {0})
      /\ \/ new # 0 /\ new \notin strings \ {old} /\ strings' = (strings \ {old}) \cup {new}
         \/ new = 0 /\ strings' = strings \ {old}
  <2>1. 0 \notin String
    <3>1. Pow[Pointer] \in Nat \ {0}
      BY Powers, Bases
    <3> QED
      BY <3>1, RecordAssumption DEF RecordAssumption
  <2> QED
    BY <2>1 DEF StringStore, SetString, UnsetString, Pointed
<1>8. phase \in {"defined", "broken"}
  BY <1>4 DEF Slot, Inv, ObjectsSized
<1>9. ASSUME ~ shared PROVE OneOwner'
  <2>1. OneOwner
    BY <1>9 DEF Owning
  <2>2. ~ corrupt' /\ old \in strings \cup {0}
    BY <1>4, <1>7, <2>1 DEF OneOwner
  <2>3. ASSUME NEW q, NEW j, Slot(q, j), ~ (q = r /\ j = k), Pointed(q, j) # 0
        PROVE  Pointed(q, j) \in strings \ {old} /\ Pointed(q, j) # new
    <3>1. Pointed(q, j) \in strings
      BY <2>1, <2>3 DEF OneOwner
    <3>2. Pointed(q, j) # old
      BY <1>4, <2>1, <2>3 DEF OneOwner
    <3> QED
      BY <1>7, <2>3, <3>1, <3>2
  <2>4. ASSUME NEW q, NEW j, Slot(q, j)'
        PROVE  Pointed(q, j)' \in strings' \cup {0}
    <3>1. CASE q = r /\ j = k
      BY <1>5, <1>7, <3>1
    <3>2. CASE ~ (q = r /\ j = k)
      BY <1>3, <1>6, <1>7, <2>3, <2>4, <3>2
    <3> QED
      BY <3>1, <3>2
  <2>5. ASSUME NEW p, NEW i, NEW q, NEW j, Slot(p, i)', Slot(q, j)',
               Pointed(p, i)' = Pointed(q, j)', Pointed(p, i)' # 0
        PROVE  p = q /\ i = j
    <3>1. Slot(p, i) /\ Slot(q, j)
      BY <1>3, <2>5
    <3>2. CASE p = r /\ i = k
      BY <1>5, <1>6, <2>3, <2>5, <3>1, <3>2
    <3>3. CASE q = r /\ j = k
      BY <1>5, <1>6, <2>3, <2>5, <3>1, <3>3
    <3>4. CASE ~ (p = r /\ i = k) /\ ~ (q = r /\ j = k)
      <4>1. Pointed(p, i)' = Pointed(p, i) /\ Pointed(q, j)' = Pointed(q, j)
        BY <1>6, <3>1, <3>4
      <4> QED
        BY <2>1, <2>5, <3>1, <4>1 DEF OneOwner
    <3> QED
      BY <3>2, <3>3, <3>4
  <2>6. ASSUME phase' = "defined", NEW s \in strings'
        PROVE  \E q, j : Slot(q, j)' /\ Pointed(q, j)' = s
    <3>1. CASE s = new
      BY <1>3, <1>4, <1>5, <3>1
    <3>2. CASE s # new
      <4>1. s \in strings /\ s # old
        BY <1>7, <2>6, <3>2
      <4>2. PICK q, j : Slot(q, j) /\ Pointed(q, j) = s
        BY <1>2, <2>1, <2>6, <4>1 DEF OneOwner
      <4>3. ~ (q = r /\ j = k)
        BY <4>1, <4>2
      <4> QED
        BY <1>3, <1>6, <4>2, <4>3
    <3> QED
      BY <3>1, <3>2
  <2> QED
    BY <2>2, <2>4, <2>5, <2>6 DEF OneOwner
<1> QED
  BY <1>2, <1>8, <1>9 DEF Owning

(* An object whose strings are all null is one more owner of nothing.      *)
LEMMA MadeOwned ==
  ASSUME Inv, Owning, UNCHANGED <<phase, members, strings, corrupt>>,
         ~ shared' => ~ shared, NEW r, NEW o, MadeOf(r, o),
         ~ shared' /\ ~ o.ro => \A k : Slot(r, k)' => Pointed(r, k)' = 0
  PROVE  Owning'
<1>1. ASSUME NEW q, NEW j, Slot(q, j)
      PROVE  Slot(q, j)' /\ Pointed(q, j)' = Pointed(q, j)
  BY <1>1 DEF MadeOf, Slot, Pointed, Member, IsKind
<1>2. ASSUME ~ shared', NEW q, NEW j, Slot(q, j)'
      PROVE  (Slot(q, j) /\ Pointed(q, j)' = Pointed(q, j)) \/ Pointed(q, j)' = 0
  <2>1. CASE q = r
    BY <1>2, <2>1 DEF MadeOf, Slot
  <2>2. CASE q # r
    BY <1>2, <2>2 DEF MadeOf, Slot, Pointed, Member, IsKind
  <2> QED
    BY <2>1, <2>2
<1> QED
  BY <1>1, <1>2, OwnersKept

(* A new object points to nothing.                                         *)
LEMMA NewOwned ==
  ASSUME Inv, Owning, NEW r \in Rec, New(r)
  PROVE  Owning'
<1>1. PICK o : /\ MadeOf(r, o) /\ o.ro = FALSE
               /\ \A k \in DOMAIN members : \A e \in Indexes(k) : Peeked(o.bytes, k, e) = 0
  BY NewStep DEF Inv
<1>2. UNCHANGED <<phase, members, strings, corrupt, shared>>
  BY DEF New, layoutVars
<1>3. ASSUME NEW k, Slot(r, k)' PROVE Pointed(r, k)' = 0
  <2>1. k \in DOMAIN members
    BY <1>2, <1>3 DEF Slot
  <2>2. 0 \in Indexes(k)
    BY <2>1, MemberTyped DEF Inv
  <2> QED
    BY <1>1, <2>1, <2>2 DEF MadeOf, Pointed
<1> QED
  BY <1>1, <1>2, <1>3, MadeOwned

(* A copy that may free its strings has none, unless shared is set.        *)
LEMMA CopyOwned ==
  ASSUME Inv, Owning, NEW r \in Rec, NEW from \in Rec, NEW ro \in BOOLEAN,
         Copied(r, from, ro)
  PROVE  Owning'
<1> PICK o : o = [bytes |-> object[from].bytes, ro |-> ro]
  OBVIOUS
<1>1. MadeOf(r, o)
  BY CopyStep DEF Inv
<1>2. /\ UNCHANGED <<phase, members, strings, corrupt>>
      /\ shared' = (shared \/ (~ ro /\ HasString(object[from].bytes)))
  BY DEF Copied, layoutVars
<1>3. ASSUME ~ shared', ~ o.ro, NEW k, Slot(r, k)' PROVE Pointed(r, k)' = 0
  <2>1. k \in DOMAIN members /\ IsKind(k, {"string_rw"}) /\ members[k].name # Pad
    BY <1>2, <1>3 DEF Slot, Member, IsKind
  <2>2. Peek(object[from].bytes, members[k].offset, members[k].type) = 0
    BY <1>2, <1>3, <2>1 DEF HasString
  <2>3. At(k, 0) = members[k].offset
    <3>1. members[k].offset \in Nat /\ members[k].type.width \in Nat
      BY <2>1, MemberTyped, Sizes DEF Inv
    <3> QED
      BY <3>1 DEF At
  <2>4. Pointed(r, k)' = Peeked(object[from].bytes, k, 0)
    BY <1>1 DEF MadeOf, Pointed
  <2> QED
    BY <2>2, <2>3, <2>4 DEF Peeked
<1> QED
  BY <1>1, <1>2, <1>3, MadeOwned

(* DESTROY frees what the object owns, and that is not freed yet.          *)
LEMMA DestroyOwned ==
  ASSUME Inv, Owning, NEW r \in Rec, Destroy(r)
  PROVE  Owning'
<1>1. /\ r \in DOMAIN object /\ DOMAIN object' = DOMAIN object \ {r}
      /\ \A q \in DOMAIN object' : object'[q] = object[q]
      /\ \A q \in DOMAIN object' : \A k, e : Element(q, k, e)' = Element(q, k, e)
  BY DestroyStep DEF Inv
<1>2. /\ UNCHANGED <<phase, members, shared>>
      /\ strings' = strings \ Freeing(r)
      /\ corrupt' = (corrupt \/ ~ Freeing(r) \subseteq strings)
  BY DEF Destroy, layoutVars
<1>3. \A q, j : Slot(q, j)' <=> Slot(q, j) /\ q # r
  BY <1>1, <1>2 DEF Slot, Member, IsKind
<1>4. \A q, j : Slot(q, j)' => Pointed(q, j)' = Pointed(q, j)
  BY <1>1 DEF Slot, Pointed
<1>5. phase \in {"defined", "broken"}
  BY <1>1 DEF Inv, ObjectsSized
<1>6. \A s \in Freeing(r) : s # 0 /\ \E k : Slot(r, k) /\ Pointed(r, k) = s
  BY <1>1 DEF Freeing, Owned, Slot, Pointed
<1>7. phase = "defined" => \A k : Slot(r, k) /\ Pointed(r, k) # 0 => Pointed(r, k) \in Freeing(r)
  BY DEF Freeing, Owned, Slot, Pointed
<1>8. ASSUME ~ shared PROVE OneOwner'
  <2>1. OneOwner
    BY <1>8 DEF Owning
  <2>2. ~ corrupt'
    <3>1. Freeing(r) \subseteq strings
      <4>1. ASSUME NEW s \in Freeing(r) PROVE s \in strings
        <5>1. PICK k : s # 0 /\ Slot(r, k) /\ Pointed(r, k) = s
          BY <1>6
        <5> QED
          BY <2>1, <5>1 DEF OneOwner
      <4> QED
        BY <4>1
    <3> QED
      BY <1>2, <2>1, <3>1 DEF OneOwner
  <2>3. ASSUME NEW q, NEW j, Slot(q, j)'
        PROVE  Pointed(q, j)' \in strings' \cup {0}
    <3>1. Slot(q, j) /\ q # r /\ Pointed(q, j)' = Pointed(q, j)
      BY <1>3, <1>4, <2>3
    <3>2. Pointed(q, j) # 0 => Pointed(q, j) \notin Freeing(r)
      BY <1>6, <2>1, <3>1 DEF OneOwner
    <3> QED
      BY <1>2, <2>1, <3>1, <3>2 DEF OneOwner
  <2>4. ASSUME NEW p, NEW i, NEW q, NEW j, Slot(p, i)', Slot(q, j)',
               Pointed(p, i)' = Pointed(q, j)', Pointed(p, i)' # 0
        PROVE  p = q /\ i = j
    BY <1>3, <1>4, <2>1, <2>4 DEF OneOwner
  <2>5. ASSUME phase' = "defined", NEW s \in strings'
        PROVE  \E q, j : Slot(q, j)' /\ Pointed(q, j)' = s
    <3>1. s \in strings /\ s \notin Freeing(r) /\ phase = "defined"
      BY <1>2, <2>5
    <3>2. PICK q, j : Slot(q, j) /\ Pointed(q, j) = s
      BY <2>1, <3>1 DEF OneOwner
    <3>3. s # 0
      BY <3>1, NotNull
    <3>4. q # r
      BY <1>7, <3>1, <3>2, <3>3
    <3> QED
      BY <1>3, <1>4, <3>2, <3>4
  <2> QED
    BY <2>2, <2>3, <2>4, <2>5 DEF OneOwner
<1> QED
  BY <1>2, <1>5, <1>8 DEF Owning

(* The steps that leave the objects and their strings alone.               *)
LEMMA NothingOwned ==
  ASSUME Owning, UNCHANGED <<phase, members, object, strings, shared, corrupt>>
  PROVE  Owning'
BY DEF Owning, OneOwner, Slot, Pointed, Element, Member, IsKind

(* There are no strings before there are objects.                          *)
LEMMA LayoutOwned ==
  ASSUME Inv, Owning, Layout
  PROVE  Owning'
<1>1. UNCHANGED <<object, strings, shared, corrupt>>
  BY DEF Layout, RecordLayout, AddMember, MemberRefused, Finish, OnlyLayout
<1>2. phase \notin {"defined", "broken"}
  BY DEF Layout, RecordLayout, AddMember, MemberRefused, Finish
<1>3. DOMAIN object = {} /\ strings = {}
  BY <1>2 DEF Inv, ObjectsSized, Owning
<1>4. \A r, k : ~ Slot(r, k)'
  BY <1>1, <1>3 DEF Slot
<1> QED
  BY <1>1, <1>3, <1>4 DEF Owning, OneOwner

(* The owners of strings are as the invariant says, at every step.         *)
LEMMA OwningHolds == Spec => []Owning
<1>1. Init => Owning
  BY DEF Init, Owning, OneOwner, Slot
<1>2. Inv /\ Owning /\ [Next]_vars => Owning'
  <2> SUFFICES ASSUME Inv, Owning, [Next]_vars PROVE Owning'
    OBVIOUS
  <2>1. CASE UNCHANGED vars
    BY <2>1, NothingOwned DEF vars, layoutVars
  <2>2. CASE Layout
    BY <2>2, LayoutOwned
  <2>3. ASSUME NEW r \in Rec, Whole(r) PROVE Owning'
    <3>1. CASE PassByValue(r)
      BY <3>1, NothingOwned DEF PassByValue, Nothing, layoutVars
    <3> QED
      BY <2>3, <3>1, NewOwned, CopyOwned, DestroyOwned DEF Whole, ReturnCopy, ClosureCopy
  <2>4. ASSUME NEW r \in Rec, NEW k \in DOMAIN members, Accessor(r, k) \/ Native(r, k)
        PROVE  Owning'
    <3>1. CASE Reading(r, k)
      BY <3>1, ReadingStep, NothingOwned DEF layoutVars
    <3> QED
      BY <2>4, <3>1, AccessorCases, PlainOwned, StringOwned DEF Inv
  <2> QED
    BY <2>1, <2>2, <2>3, <2>4 DEF Next
<1> QED
  BY <1>1, <1>2, InvHolds, PTL DEF Spec

(* Every heap string belongs to an object that will free it, and realloc   *)
(* and free are never given an address that is not allocated, for any      *)
(* layout and any number of objects, as long as C has not returned a copy  *)
(* of a record that has strings.                                           *)
THEOREM StringsHaveOwners == Spec => []StringsOwned
<1>1. Inv /\ Owning => StringsOwned
  <2> SUFFICES ASSUME Inv, Owning, ~ shared
               PROVE  /\ ~ corrupt
                      /\ phase = "defined" =>
                           strings = UNION {Owned(r) : r \in {o \in DOMAIN object : ~ object[o].ro}}
    BY DEF StringsOwned
  <2>1. OneOwner
    BY DEF Owning
  <2>2. ASSUME NEW r, NEW s
        PROVE  r \in DOMAIN object /\ ~ object[r].ro =>
                 (s \in Owned(r) <=> s # 0 /\ \E k : Slot(r, k) /\ Pointed(r, k) = s)
    BY DEF Owned, Slot, Pointed
  <2>3. ASSUME phase = "defined", NEW s
        PROVE  s \in strings <=>
                 \E r \in {o \in DOMAIN object : ~ object[o].ro} : s \in Owned(r)
    <3>1. ASSUME s \in strings
          PROVE  \E r \in {o \in DOMAIN object : ~ object[o].ro} : s \in Owned(r)
      <4>1. PICK r, k : Slot(r, k) /\ Pointed(r, k) = s
        BY <2>1, <2>3, <3>1 DEF OneOwner
      <4>2. s # 0 /\ r \in DOMAIN object /\ ~ object[r].ro
        BY <3>1, <4>1, NotNull DEF Slot
      <4> QED
        BY <2>2, <4>1, <4>2
    <3>2. ASSUME NEW r \in {o \in DOMAIN object : ~ object[o].ro}, s \in Owned(r)
          PROVE  s \in strings
      <4>1. PICK k : s # 0 /\ Slot(r, k) /\ Pointed(r, k) = s
        BY <2>2, <3>2
      <4> QED
        BY <2>1, <4>1 DEF OneOwner
    <3> QED
      BY <3>1, <3>2
  <2>4. ASSUME phase = "defined"
        PROVE  strings = UNION {Owned(r) : r \in {o \in DOMAIN object : ~ object[o].ro}}
    BY <2>3, <2>4
  <2> QED
    BY <2>1, <2>4 DEF OneOwner
<1> QED
  BY <1>1, InvHolds, OwningHolds, PTL

-----------------------------------------------------------------------------
(* Objects are structs                                                     *)

(* The refinement mapping: the shape of the class, and what the members of *)
(* the objects are.                                                        *)
Shape == IF phase \in {"defined", "broken"} THEN ShapeOf ELSE << >>
(* The values of the members of an object, and of all objects.             *)
Fields(r) == [k \in DOMAIN members |-> [e \in Indexes(k) |-> Element(r, k, e)]]
Fielded == [r \in DOMAIN object |-> Fields(r)]

(* The shape of a class that is laid out.                                  *)
LEMMA ShapeIs ==
  ASSUME phase \in {"defined", "broken"}
  PROVE  /\ DOMAIN Shape = DOMAIN members
         /\ \A k \in DOMAIN members :
              /\ S!Elements(Shape[k]) = Indexes(k)
              /\ Shape[k].width = members[k].type.width
              /\ Shape[k].signed = members[k].type.signed
              /\ Shape[k].loose = (members[k].type.array /\ members[k].type.kind = "opaque")
BY DEF Shape, ShapeOf, S!Elements, Indexes

(* Both modules count the values of bytes the same way.                    *)
LEMMA SamePow == S!Pow = Pow
BY DEF S!Pow, Pow

(* What the bytes of a member keep of a number is what a C integer keeps.  *)
LEMMA HoldIsKeep ==
  ASSUME phase \in {"defined", "broken"}, NEW k \in DOMAIN members, NEW g
  PROVE  S!Hold(Shape[k], g) = Keep(members[k].type, g)
BY ShapeIs, SamePow DEF S!Hold, Keep, Rem

(* An object whose elements are the same has the same fields.              *)
LEMMA FieldsSame ==
  ASSUME NEW r, UNCHANGED members, \A k, e : Element(r, k, e)' = Element(r, k, e)
  PROVE  Fields(r)' = Fields(r)
BY DEF Fields, Indexes

(* The actions of Struct, on the mapped variables.                         *)
LEMMA StructActions ==
  /\ Shape = << >> /\ DOMAIN Fielded = {} /\ event' = [call |-> "declare"]
       /\ UNCHANGED Fielded => S!Declare
  /\ event'.call = "new" /\ event'.rec \in Rec \ DOMAIN Fielded /\ UNCHANGED Shape
       /\ Fielded' = [q \in DOMAIN Fielded \cup {event'.rec} |->
                        IF q = event'.rec
                        THEN [k \in DOMAIN Shape |-> [e \in S!Elements(Shape[k]) |-> 0]]
                        ELSE Fielded[q]] => S!Create
  /\ event'.call = "copy" /\ event'.rec \in Rec \ DOMAIN Fielded
       /\ event'.from \in DOMAIN Fielded /\ UNCHANGED Shape
       /\ Fielded' = [q \in DOMAIN Fielded \cup {event'.rec} |->
                        IF q = event'.rec THEN Fielded[event'.from] ELSE Fielded[q]] => S!Copy
  /\ event'.call = "destroy" /\ event'.rec \in DOMAIN Fielded /\ UNCHANGED Shape
       /\ Fielded' = [q \in DOMAIN Fielded \ {event'.rec} |-> Fielded[q]] => S!Destroy
  /\ event'.call \in {"refused", "null", "passed"} /\ UNCHANGED <<Shape, Fielded>> => S!Refuse
BY DEF Shape, Fielded, Fields, S!Declare, S!Create, S!Made, S!Copy, S!Destroy, S!Refuse

(* Reading is an action of Struct.                                         *)
LEMMA StructRead ==
  ASSUME event'.call = "get", event'.rec \in DOMAIN Fielded, UNCHANGED <<Shape, Fielded>>,
         \/ /\ event'.index \in S!Elements(Shape[event'.member])
            /\ event'.answer = Fielded[event'.rec][event'.member][event'.index]
         \/ /\ event'.index \notin S!Elements(Shape[event'.member])
            /\ event'.answer = None \/ Shape[event'.member].loose
  PROVE  S!Read
BY DEF Shape, Fielded, Fields, S!Read

(* Assigning is an action of Struct.                                       *)
LEMMA StructAssign ==
  ASSUME event'.call = "set", event'.rec \in DOMAIN Fielded, UNCHANGED Shape,
         DOMAIN event'.given \subseteq S!Elements(Shape[event'.member]),
         Fielded' = [Fielded EXCEPT ![event'.rec][event'.member] =
                       [e \in DOMAIN @ |-> IF e \in DOMAIN event'.given
                                           THEN S!Hold(Shape[event'.member], event'.given[e])
                                           ELSE @[e]]]
  PROVE  S!Assign
BY DEF Shape, Fielded, Fields, S!Assign

(* A step of Struct, or one that it does not see.                          *)
StructStep == S!Next \/ UNCHANGED <<Shape, Fielded, event>>

(* The shape changes with the layout only.                                 *)
LEMMA ShapeKept == UNCHANGED layoutVars => UNCHANGED Shape
BY DEF layoutVars, Shape, ShapeOf

(* The fields change with the objects only.                                *)
LEMMA FieldedKept == UNCHANGED <<layoutVars, object>> => UNCHANGED Fielded
BY DEF layoutVars, Fielded, Fields, Indexes, Element

(* A store is an assignment to elements of one member.                     *)
LEMMA StoreRefines ==
  ASSUME Inv, NEW r, NEW k \in DOMAIN members, NEW given, StoredInside(r, k, given)
  PROVE  StructStep
<1>1. UNCHANGED layoutVars /\ Assigned(r, k, given)
  BY StoreStep DEF Inv
<1>2. UNCHANGED <<phase, members, Shape>>
  BY <1>1, ShapeKept DEF layoutVars
<1>3. /\ event'.call = "set" /\ event'.rec = r /\ event'.member = k /\ event'.given = given
  BY DEF StoredInside, Stored
<1>4. r \in DOMAIN object /\ DOMAIN given \subseteq Indexes(k)
  BY DEF StoredInside, Live
<1>5. phase \in {"defined", "broken"}
  BY <1>4 DEF Inv, ObjectsSized
<1>6. DOMAIN given \subseteq S!Elements(Shape[k])
  BY <1>4, <1>5, ShapeIs
<1> DEFINE new == [e \in Indexes(k) |-> IF e \in DOMAIN given THEN S!Hold(Shape[k], given[e])
                                         ELSE Element(r, k, e)]
<1>7. ASSUME NEW q \in DOMAIN object, q # r
      PROVE  Fields(q)' = Fields(q)
  <2>1. \A j \in DOMAIN members : \A e \in Indexes(j) : Element(q, j, e)' = Element(q, j, e)
    BY <1>1, <1>7 DEF Assigned
  <2>2. Fields(q)' = [j \in DOMAIN members |-> [e \in Indexes(j) |-> Element(q, j, e)']]
    BY <1>2 DEF Fields, Indexes
  <2> QED
    BY <2>1, <2>2 DEF Fields
<1>8. Fields(r)' = [Fields(r) EXCEPT ![k] = new]
  <2>1. Fields(r)' = [j \in DOMAIN members |-> [e \in Indexes(j) |-> Element(r, j, e)']]
    BY <1>2 DEF Fields, Indexes
  <2>2. ASSUME NEW j \in DOMAIN members, j # k
        PROVE  [e \in Indexes(j) |-> Element(r, j, e)'] = Fields(r)[j]
    <3>1. \A e \in Indexes(j) : Element(r, j, e)' = Element(r, j, e)
      BY <1>1, <1>4, <2>2 DEF Assigned
    <3> QED
      BY <3>1 DEF Fields
  <2>3. [e \in Indexes(k) |-> Element(r, k, e)'] = new
    <3>1. ASSUME NEW e \in Indexes(k)
          PROVE  Element(r, k, e)' = IF e \in DOMAIN given THEN S!Hold(Shape[k], given[e])
                                     ELSE Element(r, k, e)
      <4>1. Element(r, k, e)' = IF r = r /\ k = k /\ e \in DOMAIN given
                                THEN Keep(members[k].type, given[e]) ELSE Element(r, k, e)
        BY <1>1, <1>4 DEF Assigned
      <4>2. S!Hold(Shape[k], given[e]) = Keep(members[k].type, given[e])
        BY <1>5, HoldIsKeep
      <4> QED
        BY <4>1, <4>2
    <3> QED
      BY <3>1
  <2>4. DOMAIN Fields(r) = DOMAIN members /\ Fields(r) = [j \in DOMAIN members |-> Fields(r)[j]]
    BY DEF Fields
  <2> HIDE DEF new
  <2> QED
    BY <2>1, <2>2, <2>3, <2>4
<1>9. new = [e \in DOMAIN Fields(r)[k] |->
               IF e \in DOMAIN given THEN S!Hold(Shape[k], given[e]) ELSE Fields(r)[k][e]]
  BY DEF Fields
<1>10. DOMAIN Fielded = DOMAIN object /\ Fielded[r] = Fields(r)
  BY <1>4 DEF Fielded
<1> HIDE DEF new
<1>11. Fielded' = [Fielded EXCEPT ![r] = [Fielded[r] EXCEPT ![k] = new]]
  <2>1. Fielded' = [q \in DOMAIN object |-> Fields(q)']
    BY <1>1 DEF Fielded, Assigned
  <2> QED
    BY <1>4, <1>7, <1>8, <1>10, <2>1 DEF Fielded
<1>12. S!Assign
  BY <1>2, <1>3, <1>4, <1>6, <1>9, <1>10, <1>11, StructAssign
<1> QED
  BY <1>12 DEF StructStep, S!Next

(* An accessor that reads answers what the member is.                      *)
LEMMA ReadingRefines ==
  ASSUME Inv, NEW r, NEW k \in DOMAIN members, Reading(r, k)
  PROVE  StructStep
<1>1. UNCHANGED <<layoutVars, object, Shape, Fielded>>
  BY ReadingStep, ShapeKept, FieldedKept
<1>2. ASSUME NEW e, NEW a, Live(r), Asked(r, k, e, a),
             \/ e \in Indexes(k) /\ a = Element(r, k, e)
             \/ e \notin Indexes(k) /\ (a = None \/ (members[k].type.array /\ IsKind(k, {"opaque"})))
      PROVE  StructStep
  <2>1. r \in DOMAIN object
    BY <1>2 DEF Live
  <2>2. phase \in {"defined", "broken"}
    BY <2>1 DEF Inv, ObjectsSized
  <2>3. /\ event'.call = "get" /\ event'.rec = r /\ event'.member = k
        /\ event'.index = e /\ event'.answer = a
    BY <1>2 DEF Asked
  <2>4. S!Elements(Shape[k]) = Indexes(k)
        /\ Shape[k].loose = (members[k].type.array /\ members[k].type.kind = "opaque")
    BY <2>2, ShapeIs
  <2>5. DOMAIN Fielded = DOMAIN object /\ (e \in Indexes(k) => Fielded[r][k][e] = Element(r, k, e))
    BY <2>1 DEF Fielded, Fields
  <2>6. S!Read
    <3>1. CASE e \in Indexes(k) /\ a = Element(r, k, e)
      BY <1>1, <2>1, <2>3, <2>4, <2>5, <3>1, StructRead
    <3>2. CASE e \notin Indexes(k) /\ (a = None \/ (members[k].type.array /\ IsKind(k, {"opaque"})))
      <4>1. a = None \/ Shape[k].loose
        BY <2>4, <3>2 DEF IsKind
      <4> QED
        BY <1>1, <2>1, <2>3, <2>4, <2>5, <3>2, <4>1, StructRead
    <3> QED
      BY <1>2, <3>1, <3>2
  <2> QED
    BY <2>6 DEF StructStep, S!Next
<1>3. ASSUME NEW e \in Index, Get(r, k, e) PROVE StructStep
  BY <1>2, <1>3 DEF Get
<1>4. ASSUME NEW e \in Index, GetElement(r, k, e) PROVE StructStep
  <2>1. e \in Int /\ members[k].type.count \in Nat
    BY MemberTyped, Sizes, RecordAssumption DEF RecordAssumption, Inv
  <2>2. e \in Indexes(k) <=> e >= 0 /\ e < members[k].type.count
    BY <2>1 DEF Indexes
  <2> QED
    <3>1. CASE e \in Indexes(k)
      <4>1. Live(r) /\ Asked(r, k, e, Element(r, k, e))
        BY <1>4, <2>2, <3>1 DEF GetElement
      <4> QED
        BY <1>2, <3>1, <4>1
    <3>2. CASE e \notin Indexes(k)
      <4>1. Live(r) /\ Asked(r, k, e, None)
        BY <1>4, <2>2, <3>2 DEF GetElement
      <4> QED
        BY <1>2, <3>2, <4>1
    <3> QED
      BY <3>1, <3>2
<1>5. ASSUME NEW e \in Index, GetAddress(r, k, e) PROVE StructStep
  <2>1. e \in Int /\ members[k].type.count \in Nat
    BY MemberTyped, Sizes, RecordAssumption DEF RecordAssumption, Inv
  <2>2. e < 0 => e \notin Indexes(k)
    BY <2>1 DEF Indexes
  <2>3. Live(r) /\ members[k].type.array /\ IsKind(k, {"opaque"})
    BY <1>5 DEF GetAddress
  <2>4. CASE Asked(r, k, e, None) /\ e < 0
    BY <1>2, <2>2, <2>3, <2>4
  <2>5. CASE e \in Indexes(k) /\ Asked(r, k, e, Element(r, k, e))
    BY <1>2, <2>3, <2>5
  <2>6. ASSUME e \notin Indexes(k), NEW a \in Value, Asked(r, k, e, a) PROVE StructStep
    BY <1>2, <2>3, <2>6
  <2> QED
    BY <1>5, <2>4, <2>5, <2>6 DEF GetAddress
<1>6. CASE Refused(r, k) \/ NullRecord(k)
  <2>1. event'.call \in {"refused", "null", "passed"}
    BY <1>6 DEF Refused, NullRecord, Nothing
  <2> QED
    BY <1>1, <2>1, StructActions DEF StructStep, S!Next
<1> QED
  BY <1>3, <1>4, <1>5, <1>6 DEF Reading

(* Every accessor, and every store of C, is a step of Struct.              *)
LEMMA AccessorRefines ==
  ASSUME Inv, NEW r \in Rec, NEW k \in DOMAIN members, Accessor(r, k) \/ Native(r, k)
  PROVE  StructStep
BY AccessorCases, StoreRefines, ReadingRefines DEF PlainStore, StringStore, Inv

(* An object is added with its fields.                                     *)
Gains(r, v) ==
  /\ DOMAIN Fielded = DOMAIN object /\ r \notin DOMAIN object
  /\ Fielded' = [q \in DOMAIN Fielded \cup {r} |-> IF q = r THEN v ELSE Fielded[q]]

LEMMA MadeFields ==
  ASSUME UNCHANGED members, NEW r, NEW o, MadeOf(r, o), NEW v, Fields(r)' = v
  PROVE  Gains(r, v)
<1>1. ASSUME NEW q \in DOMAIN object PROVE Fields(q)' = Fields(q)
  <2>1. \A k, e : Element(q, k, e)' = Element(q, k, e)
    BY DEF MadeOf
  <2> QED
    BY <2>1, FieldsSame
<1>2. DOMAIN Fielded = DOMAIN object /\ \A q \in DOMAIN object : Fielded[q] = Fields(q)
  BY DEF Fielded
<1>3. Fielded' = [q \in DOMAIN object \cup {r} |-> Fields(q)']
  BY DEF Fielded, MadeOf
<1>4. r \notin DOMAIN object
  BY DEF MadeOf, Live
<1> QED
  BY <1>1, <1>2, <1>3, <1>4 DEF Gains

(* Making, copying and destroying objects are steps of Struct.             *)
LEMMA WholeRefines ==
  ASSUME Inv, NEW r \in Rec, Whole(r)
  PROVE  StructStep
<1>1. CASE New(r)
  <2>1. PICK o : /\ MadeOf(r, o)
                 /\ \A k \in DOMAIN members : \A e \in Indexes(k) : Peeked(o.bytes, k, e) = 0
    BY <1>1, NewStep DEF Inv
  <2>2. /\ UNCHANGED layoutVars /\ UNCHANGED members /\ phase \in {"defined", "broken"}
        /\ event'.call = "new" /\ event'.rec = r
    BY <1>1 DEF New, layoutVars
  <2>3. Fields(r)' = [k \in DOMAIN Shape |-> [e \in S!Elements(Shape[k]) |-> 0]]
    <3>1. Fields(r)' = [k \in DOMAIN members |-> [e \in Indexes(k) |-> Element(r, k, e)']]
      BY <2>2 DEF Fields, Indexes
    <3>2. \A k \in DOMAIN members : \A e \in Indexes(k) : Element(r, k, e)' = 0
      BY <2>1 DEF MadeOf
    <3>3. \A k \in DOMAIN members :
            [e \in Indexes(k) |-> Element(r, k, e)'] = [e \in S!Elements(Shape[k]) |-> 0]
      BY <2>2, <3>2, ShapeIs
    <3> QED
      BY <2>2, <3>1, <3>3, ShapeIs
  <2> PICK v : v = [k \in DOMAIN Shape |-> [e \in S!Elements(Shape[k]) |-> 0]]
    OBVIOUS
  <2>4. /\ DOMAIN Fielded = DOMAIN object /\ r \notin DOMAIN object
        /\ Fielded' = [q \in DOMAIN Fielded \cup {r} |-> IF q = r THEN v ELSE Fielded[q]]
    <3>1. Gains(r, v)
      <4>1. MadeOf(r, o) /\ UNCHANGED members /\ Fields(r)' = v
        BY <2>1, <2>2, <2>3
      <4> QED
        BY ONLY <4>1, MadeFields
    <3> QED
      BY <3>1 DEF Gains
  <2>5. UNCHANGED Shape /\ event'.rec \in Rec \ DOMAIN Fielded
    BY <2>2, <2>4, ShapeKept
  <2>6. S!Create
    BY <2>2, <2>4, <2>5, StructActions
  <2> QED
    BY <2>6 DEF StructStep, S!Next
<1>2. ASSUME NEW from \in Rec, NEW ro \in BOOLEAN, Copied(r, from, ro)
      PROVE  StructStep
  <2> PICK o : o = [bytes |-> object[from].bytes, ro |-> ro]
    OBVIOUS
  <2>1. MadeOf(r, o)
    BY <1>2, CopyStep DEF Inv
  <2>2. /\ UNCHANGED layoutVars /\ UNCHANGED members /\ from \in DOMAIN object
        /\ event'.call = "copy" /\ event'.rec = r /\ event'.from = from
    BY <1>2 DEF Copied, layoutVars, Live
  <2>3. Fields(r)' = Fielded[from]
    <3>1. \A k, e : Element(r, k, e)' = Element(from, k, e)
      BY <2>1, Peeks DEF MadeOf
    <3>2. Fields(r)' = [k \in DOMAIN members |-> [e \in Indexes(k) |-> Element(r, k, e)']]
      BY <2>2 DEF Fields, Indexes
    <3>3. Fields(r)' = Fields(from)
      BY <3>1, <3>2 DEF Fields
    <3> QED
      BY <2>2, <3>3 DEF Fielded
  <2> PICK v : v = Fielded[from]
    OBVIOUS
  <2>4. /\ DOMAIN Fielded = DOMAIN object /\ r \notin DOMAIN object
        /\ Fielded' = [q \in DOMAIN Fielded \cup {r} |-> IF q = r THEN v ELSE Fielded[q]]
    <3>1. Gains(r, v)
      <4>1. MadeOf(r, o) /\ UNCHANGED members /\ Fields(r)' = v
        BY <2>1, <2>2, <2>3
      <4> QED
        BY ONLY <4>1, MadeFields
    <3> QED
      BY <3>1 DEF Gains
  <2>5. UNCHANGED Shape /\ event'.rec \in Rec \ DOMAIN Fielded
    BY <2>2, <2>4, ShapeKept
  <2>6. S!Copy
    BY <2>2, <2>4, <2>5, StructActions
  <2> QED
    BY <2>6 DEF StructStep, S!Next
<1>3. CASE Destroy(r)
  <2>1. /\ r \in DOMAIN object /\ DOMAIN object' = DOMAIN object \ {r}
        /\ \A q \in DOMAIN object' : \A k, e : Element(q, k, e)' = Element(q, k, e)
    BY <1>3, DestroyStep DEF Inv
  <2>2. UNCHANGED layoutVars /\ UNCHANGED members /\ event'.call = "destroy" /\ event'.rec = r
    BY <1>3 DEF Destroy, layoutVars
  <2>3. \A q \in DOMAIN object' : Fields(q)' = Fields(q)
    BY <2>1, <2>2, FieldsSame
  <2>4. Fielded' = [q \in DOMAIN object \ {r} |-> Fields(q)']
    BY <2>1 DEF Fielded
  <2>5. DOMAIN Fielded = DOMAIN object /\ \A q \in DOMAIN object : Fielded[q] = Fields(q)
    BY DEF Fielded
  <2>6. Fielded' = [q \in DOMAIN Fielded \ {r} |-> Fielded[q]]
    BY <2>1, <2>3, <2>4, <2>5
  <2> QED
    BY <2>1, <2>2, <2>5, <2>6, ShapeKept, StructActions DEF StructStep, S!Next
<1>4. CASE PassByValue(r)
  <2>1. UNCHANGED <<layoutVars, object>> /\ event'.call = "passed"
    BY <1>4 DEF PassByValue, Nothing
  <2> QED
    BY <2>1, ShapeKept, FieldedKept, StructActions DEF StructStep, S!Next
<1> QED
  BY <1>1, <1>2, <1>3, <1>4 DEF Whole, ReturnCopy, ClosureCopy

(* The making of the layout is one step, the last.                         *)
LEMMA LayoutRefines ==
  ASSUME Inv, Layout
  PROVE  StructStep
<1>1. phase \notin {"defined", "broken"} /\ object' = object
  BY DEF Layout, RecordLayout, AddMember, MemberRefused, Finish, OnlyLayout
<1>2. DOMAIN object = {}
  BY <1>1 DEF Inv, ObjectsSized
<1>3. Shape = << >> /\ DOMAIN Fielded = {} /\ UNCHANGED Fielded
  BY <1>1, <1>2 DEF Shape, Fielded
<1>4. CASE Finish
  <2>1. event' = [call |-> "declare"]
    BY <1>4 DEF Finish
  <2> QED
    BY <1>3, <2>1, StructActions DEF StructStep, S!Next
<1>5. CASE AddMember \/ MemberRefused \/ \E d \in Decl : RecordLayout(d)
  <2>1. phase' \notin {"defined", "broken"} /\ event' = event
    BY <1>1, <1>5 DEF AddMember, MemberRefused, RecordLayout
  <2>2. Shape' = << >>
    BY <2>1 DEF Shape
  <2> QED
    BY <1>3, <2>1, <2>2 DEF StructStep
<1> QED
  BY <1>4, <1>5 DEF Layout

(* The objects of a record class are C structs: whatever accessors, C code *)
(* and copies do, in any order, each member is a variable of its own that  *)
(* keeps of a number what a C integer of its width and sign keeps.         *)
THEOREM RecordsAreStructs == Spec => IsStruct
<1>1. Init => S!Init
  <2> SUFFICES ASSUME Init PROVE S!Init
    OBVIOUS
  <2>1. DOMAIN object = {} /\ phase = "none"
    BY DEF Init
  <2> QED
    BY <2>1 DEF Init, S!Init
<1>2. Inv /\ [Next]_vars => [S!Next]_S!vars
  <2> SUFFICES ASSUME Inv, [Next]_vars PROVE [S!Next]_S!vars
    OBVIOUS
  <2>1. StructStep
    <3>1. CASE UNCHANGED vars
      BY <3>1, ShapeKept, FieldedKept DEF vars, StructStep
    <3>2. CASE Next
      BY <3>2, LayoutRefines, WholeRefines, AccessorRefines DEF Next
    <3> QED
      BY <3>1, <3>2
  <2>2. UNCHANGED <<Shape, Fielded, event>> => UNCHANGED S!vars
    BY DEF Shape, Fielded, Fields, S!vars
  <2> QED
    BY <2>1, <2>2 DEF StructStep
<1>3. Spec => S!Spec
  BY <1>1, <1>2, InvHolds, PTL DEF Spec, S!Spec
<1> QED
  BY <1>3 DEF IsStruct

=============================================================================
