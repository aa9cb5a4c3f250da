--------------------------- MODULE MulDiv_proofs ---------------------------
(***************************************************************************)
(* Proofs about MulDiv.tla, for every even width (64 in the code).         *)
(*                                                                         *)
(* First the arithmetic: powers of two, remainders by a variable modulus,  *)
(* words and their signs, one iteration of each algorithm.  The invariant  *)
(* IInv then follows an instruction from the operands it starts with to    *)
(* the results it leaves, and a last part compares what the instruction    *)
(* takes from the unit with what the ISA asks for, case by case.           *)
(***************************************************************************)
EXTENDS MulDiv, Induction, TLAPS

----------------------------------------------------------------------------
\* Powers of two.

\* The recursive definition of pow2 is a function, with values that are positive.
LEMMA Pow ==
    /\ \A n \in 0..W : pow2[n] \in Nat /\ pow2[n] > 0
    /\ pow2[0] = 1
    /\ \A n \in 1..W : pow2[n] = 2 * pow2[n - 1]
  <1> DEFINE X == Nat \ {0}
             step == [k \in 1..W |-> [x \in X |-> 2 * x]]
             Eq(f) == f = [n \in 0..W |-> IF n = 0 THEN 1 ELSE 2 * f[n - 1]]
             up == CHOOSE f : Eq(f)
  <1>1. W \in Nat
    BY WAssumption
  <1>2. step \in [1..W -> [X -> X]] /\ 1 \in X
    OBVIOUS
  <1>3. pow2 = up
    BY DEF pow2
  <1>4. PICK g \in Runs(W, X, 1, step) : TRUE
    <2> HIDE DEF step
    <2>1. Runs(W, X, 1, step) # {}
      BY <1>1, <1>2, Recursion
    <2>2. QED
      BY <2>1
  <1>5. g \in [0..W -> X] /\ g[0] = 1 /\ \A k \in 1..W : g[k] = step[k][g[k - 1]]
    <2> HIDE DEF step
    <2>1. QED
      BY <1>4 DEF Runs
  <1>6. ASSUME NEW k \in 1..W PROVE g[k] = 2 * g[k - 1]
    <2>1. k - 1 \in 0..W /\ g[k - 1] \in X
      BY <1>1, <1>5
    <2>2. g[k] = [x \in X |-> 2 * x][g[k - 1]]
      BY <1>5
    <2>3. QED
      BY <2>1, <2>2
  <1>7. Eq(up)
    <2>1. Eq(g)
      BY <1>1, <1>5, <1>6
    <2> HIDE DEF Eq
    <2>2. QED
      BY <2>1
  <1> HIDE DEF up
  <1>8. up[0] = 1 /\ \A k \in 1..W : up[k] = 2 * up[k - 1]
    <2>1. up = [n \in 0..W |-> IF n = 0 THEN 1 ELSE 2 * up[n - 1]]
      BY <1>7
    <2>2. ASSUME NEW n \in 0..W PROVE up[n] = IF n = 0 THEN 1 ELSE 2 * up[n - 1]
      BY <2>1
    <2>3. ASSUME NEW k \in 1..W PROVE up[k] = 2 * up[k - 1]
      <3>1. k \in 0..W /\ k # 0
        BY <1>1
      <3>2. QED
        BY <2>2, <3>1
    <2>4. QED
      BY <1>1, <2>2, <2>3
  <1> DEFINE T == {n \in 0..W : up[n] \in Nat /\ up[n] > 0}
  <1>9. 0 \in T
    BY <1>1, <1>8
  <1>10. ASSUME NEW n \in 0..(W - 1), n \in T PROVE n + 1 \in T
    <2>1. n + 1 \in 1..W /\ n + 1 \in 0..W /\ n + 1 - 1 = n
      BY <1>1
    <2>2. up[n + 1] = 2 * up[n]
      BY <1>8, <2>1
    <2>3. up[n] \in Nat /\ up[n] > 0
      BY <1>10
    <2>4. 2 * up[n] \in Nat /\ 2 * up[n] > 0
      BY <2>3
    <2>5. QED
      BY <2>1, <2>2, <2>4
  <1>11. 0..W \subseteq T
    BY <1>1, <1>9, <1>10, UpTo
  <1>12. QED
    BY <1>3, <1>8, <1>11

\* Two of them that make up the width multiply to the number of words.
LEMMA PowSum ==
    ASSUME NEW k \in 0..W
    PROVE  pow2[W - k] * pow2[k] = pow2[W]
  <1> DEFINE T == {n \in 0..W : pow2[W - n] * pow2[n] = pow2[W]}
  <1>1. W \in Nat
    BY WAssumption
  <1>2. 0 \in T
    <2>1. pow2[W - 0] = pow2[W] /\ pow2[W] \in Nat
      BY <1>1, Pow
    <2>2. QED
      BY <1>1, <2>1, Pow
  <1>3. ASSUME NEW n \in 0..(W - 1), n \in T PROVE n + 1 \in T
    <2> DEFINE a == pow2[W - (n + 1)]
               b == pow2[n]
    <2>1. W - n \in 1..W /\ W - (n + 1) \in 0..W /\ W - n - 1 = W - (n + 1)
          /\ n + 1 \in 1..W /\ n + 1 - 1 = n
      BY <1>1
    <2>2. pow2[W - n] = 2 * a /\ pow2[n + 1] = 2 * b /\ a \in Nat /\ b \in Nat
      BY <1>1, <2>1, Pow
    <2>3. (2 * a) * b = pow2[W]
      BY <1>3, <2>2
    <2> HIDE DEF a, b
    <2>4. a * (2 * b) = (2 * a) * b
      BY <2>2
    <2>5. a * pow2[n + 1] = pow2[W]
      BY <2>2, <2>3, <2>4
    <2>6. QED
      BY <2>1, <2>5 DEF a
  <1>4. 0..W \subseteq T
    BY <1>1, <1>2, <1>3, UpTo
  <1>5. QED
    BY <1>4
\* The sizes of a word and of a half word, and of the numbers below their sign bits.
LEMMA Sizes ==
    /\ H \in Nat /\ H >= 1 /\ H < W /\ W - H = H /\ H \in 0..W /\ W - 1 \in 0..W
    /\ pow2[W] \in Nat /\ pow2[W - 1] \in Nat /\ pow2[H] \in Nat /\ pow2[H - 1] \in Nat
    /\ pow2[W - 1] > 0 /\ pow2[H - 1] > 0
    /\ pow2[W] = 2 * pow2[W - 1] /\ pow2[H] = 2 * pow2[H - 1]
    /\ pow2[H] * pow2[H] = pow2[W]
    /\ pow2[H] <= pow2[W - 1]
  <1>1. /\ H \in Nat /\ H >= 1 /\ H < W /\ W - H = H
        /\ W \in 0..W /\ W - 1 \in 0..W /\ H \in 0..W /\ H - 1 \in 0..W /\ W \in 1..W /\ H \in 1..W
    BY WAssumption DEF H
  <1> DEFINE M == pow2[W]
             Hf == pow2[W - 1]
             L == pow2[H]
             Lh == pow2[H - 1]
  <1>2. M \in Nat /\ Hf \in Nat /\ L \in Nat /\ Lh \in Nat /\ Hf > 0 /\ Lh > 0
    BY <1>1, Pow
  <1>3. M = 2 * Hf /\ L = 2 * Lh
    BY <1>1, Pow
  <1>4. L * L = M
    BY <1>1, PowSum
  <1> HIDE DEF M, Hf, L, Lh
  <1>5. L <= Hf
    <2>1. (2 * Lh) * L = 2 * (Lh * L)
      BY <1>2
    <2>2. Lh * L = Hf
      <3>1. Lh * L \in Nat
        BY <1>2
      <3>2. QED
        BY <1>2, <1>3, <1>4, <2>1, <3>1
    <2>3. Lh * L = (Lh - 1) * L + L /\ (Lh - 1) * L >= 0
      BY <1>2
    <2>4. QED
      BY <1>2, <2>2, <2>3
  <1>6. QED
    BY <1>1, <1>2, <1>3, <1>4, <1>5 DEF M, Hf, L, Lh

----------------------------------------------------------------------------
\* Remainders.

\* What a quotient and a remainder are.
LEMMA DivMod ==
    ASSUME NEW x \in Int, NEW m \in Nat, m > 0
    PROVE  /\ x % m \in Nat /\ x % m < m /\ x \div m \in Int
           /\ x = m * (x \div m) + (x % m)
           /\ x >= 0 => x \div m \in Nat
  OBVIOUS

\* There is only one of each.
LEMMA DivModIs ==
    ASSUME NEW x \in Int, NEW m \in Nat, m > 0, NEW q \in Int, NEW r \in Nat, r < m,
           x = m * q + r
    PROVE  x % m = r /\ x \div m = q
  <1> DEFINE s == x % m
             p == x \div m
  <1>1. s \in Nat /\ s < m /\ p \in Int /\ x = m * p + s
    BY DivMod
  <1> HIDE DEF s, p
  <1>2. m * p + s = m * q + r /\ m * (p - q) = m * p - m * q /\ m * (q - p) = m * q - m * p
    BY <1>1
  <1>3. ~(p - q >= 1)
    <2>1. SUFFICES ASSUME p - q >= 1 PROVE FALSE
      OBVIOUS
    <2>2. m * (p - q) = m + m * (p - q - 1) /\ m * (p - q - 1) >= 0
      BY <1>1, <2>1
    <2> DEFINE u == m * (p - q)
               v == m * (p - q - 1)
               y == m * p
               z == m * q
    <2>3. u \in Int /\ v \in Int /\ y \in Int /\ z \in Int
      BY <1>1
    <2>4. u = m + v /\ v >= 0 /\ u = y - z /\ y + s = z + r
      BY <1>2, <2>2
    <2> HIDE DEF u, v, y, z
    <2>5. QED
      BY <1>1, <2>3, <2>4
  <1>4. ~(q - p >= 1)
    <2>1. SUFFICES ASSUME q - p >= 1 PROVE FALSE
      OBVIOUS
    <2>2. m * (q - p) = m + m * (q - p - 1) /\ m * (q - p - 1) >= 0
      BY <1>1, <2>1
    <2> DEFINE u == m * (q - p)
               v == m * (q - p - 1)
               y == m * p
               z == m * q
    <2>3. u \in Int /\ v \in Int /\ y \in Int /\ z \in Int
      BY <1>1
    <2>4. u = m + v /\ v >= 0 /\ u = z - y /\ y + s = z + r
      BY <1>2, <2>2
    <2> HIDE DEF u, v, y, z
    <2>5. QED
      BY <1>1, <2>3, <2>4
  <1>5. p = q
    BY <1>1, <1>3, <1>4
  <1>6. r = s
    BY <1>1, <1>2, <1>5
  <1>7. QED
    BY <1>5, <1>6 DEF s, p

\* A number below the modulus is its own remainder.
LEMMA ModSmall ==
    ASSUME NEW m \in Nat, NEW r \in Nat, r < m
    PROVE  r % m = r
  <1>1. r = m * 0 + r /\ m > 0
    OBVIOUS
  <1>2. QED
    BY <1>1, DivModIs

\* Multiples of the modulus do not count.
LEMMA ModShift ==
    ASSUME NEW x \in Int, NEW m \in Nat, m > 0, NEW k \in Int
    PROVE  (x + m * k) % m = x % m
  <1> DEFINE r == x % m
             q == x \div m
  <1>1. r \in Nat /\ r < m /\ q \in Int /\ x = m * q + r
    BY DivMod
  <1> HIDE DEF r, q
  <1>2. m * (q + k) = m * q + m * k /\ q + k \in Int /\ m * k \in Int /\ m * q \in Int
    BY <1>1
  <1>3. x + m * k = m * (q + k) + r /\ x + m * k \in Int
    BY <1>1, <1>2
  <1>4. (x + m * k) % m = r
    BY <1>1, <1>2, <1>3, DivModIs
  <1>5. QED
    BY <1>4 DEF r
----------------------------------------------------------------------------
\* Words.

\* word makes a word of a number, and leaves a word alone.
LEMMA WordTyped ==
    /\ \A x \in Int : word(x) \in Words /\ word(x) \in Nat /\ word(x) < pow2[W]
    /\ \A x \in Words : word(x) = x /\ x \in Nat
  <1>1. ASSUME NEW x \in Int PROVE word(x) \in Nat /\ word(x) < pow2[W]
    <2>1. pow2[W] \in Nat /\ pow2[W] > 0
      BY Sizes
    <2>2. QED
      BY <2>1, DivMod DEF word
  <1>2. ASSUME NEW x \in Words PROVE word(x) = x /\ x \in Nat
    <2>1. x \in Nat /\ x < pow2[W] /\ pow2[W] \in Nat
      BY Sizes DEF Words
    <2>2. QED
      BY <2>1, ModSmall DEF word
  <1>3. QED
    BY <1>1, <1>2, Sizes DEF Words

\* Numbers that differ by a multiple of the number of words make the same word.
LEMMA SameWord ==
    ASSUME NEW x \in Int, NEW y \in Int, NEW k \in Int, x = y + pow2[W] * k
    PROVE  word(x) = word(y)
  <1> DEFINE M == pow2[W]
  <1>1. M \in Nat /\ M > 0
    BY Sizes
  <1> HIDE DEF M
  <1>2. (y + M * k) % M = y % M
    BY <1>1, ModShift
  <1>3. x % M = y % M
    BY <1>2 DEF M
  <1>4. QED
    BY <1>3 DEF M, word

\* The word of a number, as a number.
LEMMA WordIs ==
    ASSUME NEW x \in Int
    PROVE  \E k \in Int : word(x) = x + pow2[W] * k
  <1> DEFINE M == pow2[W]
             q == x \div M
             r == x % M
  <1>1. M \in Nat /\ M > 0
    BY Sizes
  <1>2. q \in Int /\ x = M * q + r /\ r \in Nat
    <2> HIDE DEF M
    <2>1. QED
      BY <1>1, DivMod
  <1>3. word(x) = r
    BY DEF word
  <1> HIDE DEF M, q, r
  <1>4. M * (-q) = -(M * q) /\ -q \in Int /\ M * q \in Int
    BY <1>1, <1>2
  <1>5. word(x) = x + M * (-q)
    BY <1>1, <1>2, <1>3, <1>4
  <1>6. QED
    BY <1>4, <1>5 DEF M

\* Sums and products may be cut to words before or after.
LEMMA WordSum ==
    ASSUME NEW x \in Int, NEW y \in Int, NEW z \in Int
    PROVE  word(word(x) + word(y) * z) = word(x + y * z)
  <1> DEFINE M == pow2[W]
  <1>0. M \in Int
    BY Sizes
  <1>1. PICK k \in Int : word(x) = x + M * k
    BY WordIs
  <1>2. PICK l \in Int : word(y) = y + M * l
    BY WordIs
  <1> HIDE DEF M
  <1>3. /\ (y + M * l) * z = y * z + M * (l * z)
        /\ M * (k + l * z) = M * k + M * (l * z)
    BY <1>0
  <1>4. /\ M * k \in Int /\ l * z \in Int /\ M * (l * z) \in Int /\ y * z \in Int
        /\ k + l * z \in Int /\ word(x) + word(y) * z \in Int /\ x + y * z \in Int
    BY <1>0, <1>1, <1>2
  <1> DEFINE u == word(x) + word(y) * z
             v == x + y * z
             n == k + l * z
  <1>5. u = v + M * n
    BY <1>1, <1>2, <1>3, <1>4
  <1>6. u \in Int /\ v \in Int /\ n \in Int
    BY <1>4
  <1> HIDE DEF u, v, n
  <1>7. word(u) = word(v)
    BY <1>5, <1>6, SameWord DEF M
  <1>8. QED
    BY <1>7 DEF u, v

\* Products of words.
LEMMA WordProduct ==
    ASSUME NEW x \in Int, NEW y \in Int
    PROVE  word(word(x) * word(y)) = word(x * y)
  <1>1. word(y) \in Int /\ word(x) \in Int /\ word(0) = 0
    <2>1. 0 \in Words
      BY Sizes DEF Words
    <2>2. QED
      BY <2>1, WordTyped
  <1>2. word(word(0) + word(x) * word(y)) = word(0 + x * word(y))
    <2> DEFINE z == word(y)
    <2>1. z \in Int /\ 0 \in Int
      BY <1>1
    <2> HIDE DEF z
    <2>2. word(word(0) + word(x) * z) = word(0 + x * z)
      BY ONLY x \in Int, <2>1, WordSum
    <2>3. QED
      BY <2>2 DEF z
  <1>3. word(word(0) + word(y) * x) = word(0 + y * x)
    BY ONLY 0 \in Int, y \in Int, x \in Int, WordSum
  <1>4. /\ word(0) + word(x) * word(y) = word(x) * word(y)
        /\ 0 + x * word(y) = x * word(y)
        /\ word(0) + word(y) * x = x * word(y)
        /\ 0 + y * x = x * y
    BY <1>1
  <1>5. QED
    BY <1>2, <1>3, <1>4

\* neg is the two's complement.
LEMMA NegWord ==
    ASSUME NEW z \in Int
    PROVE  neg(word(z)) = word(-z)
  <1> DEFINE M == pow2[W]
  <1>0. M \in Int
    BY Sizes
  <1>1. PICK k \in Int : word(z) = z + M * k
    BY WordIs
  <1> HIDE DEF M
  <1>2. M * (1 - k) = M - M * k /\ M * k \in Int /\ 1 - k \in Int /\ -z \in Int
    BY <1>0
  <1>3. M - word(z) = (-z) + M * (1 - k) /\ M - word(z) \in Int
    BY <1>0, <1>1, <1>2
  <1>4. QED
    BY <1>2, <1>3, SameWord DEF M, neg

\* Twice a word.
LEMMA Double ==
    ASSUME NEW x \in Words
    PROVE  /\ word(2 * x) = IF msb(x) THEN 2 * x - pow2[W] ELSE 2 * x
           /\ word(2 * x) + 1 \in Words
           /\ word(2 * x) \in Words
           /\ ~msb(x) => 2 * x < pow2[W]
  <1> DEFINE M == pow2[W]
             Hf == pow2[W - 1]
  <1>1. M \in Nat /\ Hf \in Nat /\ M = 2 * Hf /\ Hf > 0 /\ x \in Nat /\ x < M
    BY Sizes DEF Words
  <1>2. msb(x) <=> x >= Hf
    BY DEF msb
  <1>3. CASE msb(x)
    <2>1. 2 * x - M \in Nat /\ 2 * x - M + 1 < M
      BY <1>1, <1>2, <1>3
    <2>2. word(2 * x) = word(2 * x - M)
      <3> DEFINE u == 2 * x
                 v == 2 * x - M
      <3>1. u \in Int /\ v \in Int /\ u = v + M * 1
        BY <1>1
      <3> HIDE DEF u, v
      <3>2. word(u) = word(v)
        BY <3>1, SameWord
      <3>3. QED
        BY <3>2 DEF u, v
    <2>3. 2 * x - M \in Words /\ 2 * x - M + 1 \in Words
      BY <1>1, <2>1 DEF Words
    <2>4. QED
      BY <1>3, <2>2, <2>3, WordTyped
  <1>4. CASE ~msb(x)
    <2>1. 2 * x \in Nat /\ 2 * x + 1 < M
      BY <1>1, <1>2, <1>4
    <2>2. 2 * x \in Words /\ 2 * x + 1 \in Words
      BY <1>1, <2>1 DEF Words
    <2>3. 2 * x < M
      BY <1>1, <2>1
    <2>4. QED
      BY <1>4, <2>2, <2>3, WordTyped
  <1>5. QED
    BY <1>3, <1>4

\* The number a word stands for, and its absolute value.
LEMMA Sign ==
    ASSUME NEW x \in Words
    PROVE  /\ signed(x, W) \in Int
           /\ msb(x) <=> signed(x, W) < 0
           /\ abs(x) = IF signed(x, W) < 0 THEN -signed(x, W) ELSE signed(x, W)
           /\ abs(x) \in Words /\ abs(x) <= pow2[W - 1]
           /\ word(signed(x, W)) = x
  <1> DEFINE M == pow2[W]
             Hf == pow2[W - 1]
             s == signed(x, W)
  <1>1. M \in Nat /\ Hf \in Nat /\ M = 2 * Hf /\ Hf > 0 /\ x \in Nat /\ x < M
    BY Sizes DEF Words
  <1>2. msb(x) <=> x >= Hf
    BY DEF msb
  <1>3. CASE msb(x)
    <2>1. s = x - M
      BY <1>2, <1>3 DEF signed
    <2>2. s \in Int /\ s < 0 /\ M - x \in Nat /\ M - x = -s /\ M - x < M /\ M - x <= Hf
          /\ s = x + M * (-1) /\ -1 \in Int
      BY <1>1, <1>2, <1>3, <2>1
    <2>3. M - x \in Words
      BY <1>1, <2>2 DEF Words
    <2>4. abs(x) = M - x
      BY <1>3, <2>3, WordTyped DEF abs, neg
    <2>5. word(s) = word(x) /\ word(x) = x
      <3> DEFINE k == -1
      <3>1. s \in Int /\ x \in Int /\ k \in Int /\ s = x + M * k
        BY <1>1, <2>2
      <3> HIDE DEF s, k
      <3>2. word(s) = word(x)
        BY <3>1, SameWord
      <3>3. QED
        BY <3>2, WordTyped
    <2>6. QED
      BY <1>3, <2>2, <2>3, <2>4, <2>5
  <1>4. CASE ~msb(x)
    <2>1. s = x /\ abs(x) = x
      BY <1>2, <1>4 DEF signed, abs
    <2>2. ~(x < 0) /\ x <= Hf
      BY <1>1, <1>2, <1>4
    <2>3. QED
      BY <1>1, <1>4, <2>1, <2>2, WordTyped
  <1>5. QED
    BY <1>3, <1>4
\* A half word is what low leaves of a number; words that are the same have the same one.
LEMMA Low ==
    /\ \A x \in Int : low(x) \in Nat /\ low(x) < pow2[H] /\ low(x) \in Words
    /\ \A x \in Nat : x < pow2[H] => low(x) = x
    /\ \A x \in Int : low(word(x)) = low(x)
  <1> DEFINE L == pow2[H]
             M == pow2[W]
  <1>1. L \in Nat /\ L > 0 /\ M \in Nat /\ M = L * L /\ L <= M
    <2>1. L \in Nat /\ L > 0 /\ M \in Nat /\ M = L * L /\ L <= pow2[W - 1]
          /\ M = 2 * pow2[W - 1] /\ pow2[W - 1] \in Nat
      BY Sizes
    <2>2. QED
      BY <2>1
  <1> HIDE DEF L, M
  <1>2. ASSUME NEW x \in Int PROVE low(x) \in Nat /\ low(x) < L /\ low(x) \in Words
    <2>1. x % L \in Nat /\ x % L < L
      BY <1>1, DivMod
    <2>2. x % L = low(x)
      BY DEF low, L
    <2>3. Words = 0..(M - 1)
      BY DEF Words, M
    <2>4. QED
      BY <1>1, <2>1, <2>2, <2>3
  <1>3. ASSUME NEW x \in Nat, x < L PROVE low(x) = x
    <2>1. x % L = x
      BY <1>1, <1>3, ModSmall
    <2>2. QED
      BY <2>1 DEF low, L
  <1>4. ASSUME NEW x \in Int PROVE low(word(x)) = low(x)
    <2>1. PICK k \in Int : word(x) = x + M * k
      BY WordIs DEF M
    <2>2. M * k = L * (L * k)
      BY <1>1
    <2> DEFINE n == L * k
               y == word(x)
    <2>3. n \in Int /\ y = x + L * n
      BY <1>1, <2>1, <2>2
    <2> HIDE DEF n, y
    <2>4. (x + L * n) % L = x % L
      BY <1>1, <2>3, ModShift
    <2>5. y % L = x % L
      BY <2>3, <2>4
    <2>6. QED
      BY <2>5 DEF y, low, L
  <1>5. QED
    BY <1>2, <1>3, <1>4 DEF L

\* The sign extension of a half word is a word that stands for the same number, and it
\* looks at that half only.
LEMMA Sext ==
    ASSUME NEW x \in Int
    PROVE  /\ sext(x) \in Words
           /\ signed(low(x), H) \in Int
           /\ signed(sext(x), W) = signed(low(x), H)
           /\ low(sext(x)) = low(x)
           /\ low(signed(low(x), H)) = low(x)
           /\ abs(sext(x)) < pow2[H]
  <1> DEFINE M == pow2[W]
             Hf == pow2[W - 1]
             L == pow2[H]
             Lh == pow2[H - 1]
             l == low(x)
             s == signed(l, H)
  <1>1. /\ M \in Nat /\ Hf \in Nat /\ M = 2 * Hf /\ Hf > 0 /\ L \in Nat /\ Lh \in Nat /\ Lh > 0
        /\ L = 2 * Lh /\ L * L = M /\ L <= Hf
    BY Sizes
  <1>2. l \in Nat /\ l < L /\ low(l) = l
    BY Low
  <1>3. s = IF l >= Lh THEN l - L ELSE l
    BY DEF signed
  <1>4. s \in Int /\ -Lh <= s /\ s < Lh
    <2> HIDE DEF s, l, L, Lh
    <2>1. QED
      BY <1>1, <1>2, <1>3
  <1>5. low(s) = l
    <2>1. s % L = l % L
      <3>1. CASE l >= Lh
        <4> DEFINE k == -1
        <4>1. k \in Int /\ s = l + L * k
          BY <1>1, <1>2, <1>3, <3>1
        <4>2. L \in Nat /\ L > 0 /\ l \in Int
          BY <1>1, <1>2
        <4> HIDE DEF k, L, l, s
        <4>3. (l + L * k) % L = l % L
          BY ONLY <4>1, <4>2, ModShift
        <4>4. QED
          BY <4>1, <4>3
      <3>2. CASE ~(l >= Lh)
        BY <1>3, <3>2
      <3>3. QED
        BY <3>1, <3>2
    <2>2. QED
      BY <1>2, <2>1 DEF low
  <1>6. sext(x) = word(s)
    BY DEF sext
  <1>7. sext(x) \in Words
    BY <1>4, <1>6, WordTyped
  <1>8. low(sext(x)) = l
    BY <1>4, <1>5, <1>6, Low
  <1>9. sext(x) = IF s < 0 THEN s + M ELSE s
    <2>1. CASE s < 0
      <3> DEFINE k == -1
                 u == s + M
      <3>1. k \in Int /\ s = u + M * k /\ u \in 0..(M - 1)
        <4> HIDE DEF s, l, L, Lh, M, Hf
        <4>1. QED
          BY <1>1, <1>4, <2>1
      <3>2. u \in Words /\ u \in Int
        BY <1>1, <3>1 DEF Words
      <3> HIDE DEF k, u, s
      <3>3. word(s) = word(u)
        BY <1>4, <3>1, <3>2, SameWord
      <3>4. QED
        BY <1>6, <2>1, <3>2, <3>3, WordTyped DEF u
    <2>2. CASE ~(s < 0)
      <3>1. s \in 0..(M - 1)
        <4> HIDE DEF s, l, L, Lh, M, Hf
        <4>1. QED
          BY <1>1, <1>4, <2>2
      <3>2. s \in Words
        BY <3>1 DEF Words
      <3>3. QED
        BY <1>6, <2>2, <3>2, WordTyped
    <2>3. QED
      BY <2>1, <2>2
  <1>10. signed(sext(x), W) = s
    <2> DEFINE e == sext(x)
    <2>1. signed(e, W) = IF e >= Hf THEN e - M ELSE e
      BY DEF signed
    <2>2. e = IF s < 0 THEN s + M ELSE s
      BY <1>9
    <2> HIDE DEF e, s, l, L, Lh, M, Hf
    <2>3. s < 0 => e = s + M /\ e >= Hf /\ e - M = s
      BY <1>1, <1>4, <2>2
    <2>4. ~(s < 0) => e = s /\ ~(e >= Hf)
      BY <1>1, <1>4, <2>2
    <2>5. signed(e, W) = s
      BY <2>1, <2>3, <2>4
    <2>6. QED
      BY <2>5 DEF e
  <1>11. abs(sext(x)) < L
    <2>1. abs(sext(x)) = IF s < 0 THEN -s ELSE s
      BY <1>7, <1>10, Sign
    <2> HIDE DEF s, l, L, Lh
    <2>2. QED
      BY <1>1, <1>4, <2>1
  <1>12. QED
    BY <1>4, <1>5, <1>7, <1>8, <1>10, <1>11

\* Numbers with the same half word have the same sign extension.
LEMMA SextSame ==
    ASSUME NEW x, NEW y, low(x) = low(y)
    PROVE  sext(x) = sext(y)
  BY DEF sext

\* The product of two words from the product of their absolute values.
LEMMA ProductSign ==
    ASSUME NEW a \in Words, NEW b \in Words
    PROVE  word(a * b) = IF msb(a) # msb(b) THEN neg(word(abs(a) * abs(b)))
                         ELSE word(abs(a) * abs(b))
  <1> DEFINE x == signed(a, W)
             y == signed(b, W)
             p == abs(a) * abs(b)
  <1>1. x \in Int /\ y \in Int /\ word(x) = a /\ word(y) = b
    BY Sign
  <1>2. word(a * b) = word(x * y)
    BY <1>1, WordProduct
  <1>3. abs(a) = (IF x < 0 THEN -x ELSE x) /\ abs(b) = (IF y < 0 THEN -y ELSE y)
    BY Sign
  <1>4. ((msb(a)) <=> x < 0) /\ ((msb(b)) <=> y < 0)
    BY Sign
  <1> DEFINE r == x * y
  <1>5. r \in Int /\ p = IF (x < 0) = (y < 0) THEN r ELSE -r
    <2>1. (-x) * (-y) = r /\ (-x) * y = -r /\ x * (-y) = -r /\ r \in Int
      BY <1>1
    <2> HIDE DEF x, y, r
    <2>2. QED
      BY <1>1, <1>3, <2>1
  <1>6. neg(word(-r)) = word(r)
    <2> DEFINE u == -r
    <2>1. u \in Int /\ -u = r
      BY <1>5
    <2> HIDE DEF u
    <2>2. neg(word(u)) = word(-u)
      BY <2>1, NegWord
    <2>3. QED
      BY <2>1, <2>2 DEF u
  <1> HIDE DEF x, y, p, r
  <1>7. CASE msb(a) # msb(b)
    <2>1. p = -r
      BY <1>4, <1>5, <1>7 DEF msb
    <2>2. QED
      BY <1>2, <1>6, <1>7, <2>1 DEF p, r
  <1>8. CASE msb(a) = msb(b)
    <2>1. p = r
      BY <1>4, <1>5, <1>8
    <2>2. QED
      BY <1>2, <1>8, <2>1 DEF p, r
  <1>9. QED
    BY <1>7, <1>8
----------------------------------------------------------------------------
\* One iteration of each algorithm.

\* Shift and add: what is added to the accumulator is taken from the product to come.
LEMMA MultiplyStep ==
    ASSUME NEW acc \in Words, NEW x \in Words, NEW y \in Words
    PROVE  /\ word(word(acc + (IF odd(y) THEN x ELSE 0)) + word(2 * x) * (y \div 2))
                  = word(acc + x * y)
           /\ y \div 2 \in Words
           /\ \A p \in Nat : y < 2 * p => y \div 2 < p
  <1> DEFINE z == y \div 2
             e == IF odd(y) THEN 1 ELSE 0
  <1>1. acc \in Nat /\ x \in Nat /\ y \in Nat
    BY WordTyped
  <1>2. z \in Nat /\ y = 2 * z + e /\ e \in Nat /\ z <= y
    BY <1>1 DEF odd
  <1>3. (IF odd(y) THEN x ELSE 0) = e * x
    BY <1>1
  <1> DEFINE u == acc + e * x
             v == 2 * x
  <1>4. u + v * z = acc + x * y
    <2>1. x * y = x * (2 * z + e) /\ x * (2 * z + e) = v * z + e * x
      <3> HIDE DEF z, e
      <3>1. QED
        BY <1>1, <1>2
    <2>2. e * x \in Nat /\ v * z \in Nat
      BY <1>1, <1>2
    <2> HIDE DEF z, e, v
    <2>3. QED
      BY <1>1, <2>1, <2>2
  <1>5. u \in Int /\ v \in Int
    BY <1>1, <1>2
  <1>6. z \in Words
    BY <1>1, <1>2, Sizes DEF Words
  <1>7. ASSUME NEW p \in Nat, y < 2 * p PROVE z < p
    BY <1>1, <1>2, <1>7
  <1>8. word(acc + (IF odd(y) THEN x ELSE 0)) = word(u)
    BY <1>3
  <1> HIDE DEF u, v, z, e
  <1>9. word(word(u) + word(v) * z) = word(u + v * z)
    BY <1>2, <1>5, WordSum
  <1>10. QED
    BY <1>4, <1>6, <1>7, <1>8, <1>9 DEF v, z

\* Restoring division: the next bit of the dividend a moves from the operand to the partial
\* remainder, and the trial subtraction fits exactly when its top bit is clear, provided
\* the divisor is at most pow2[W - 1].
LEMMA DivideStep ==
    ASSUME NEW a \in Words, NEW b \in 1..pow2[W - 1], NEW k \in 1..W,
           NEW quo \in Words, NEW acc \in Words, NEW x \in Words,
           quo * b + acc = a \div pow2[k], acc < b,
           x = (a % pow2[k]) * pow2[W - k],
           NEW s, s = word(2 * acc) + (IF msb(x) THEN 1 ELSE 0),
           NEW t, t = word(s - b),
           NEW acc2, acc2 = (IF ~msb(t) THEN t ELSE s),
           NEW quo2, quo2 = word(2 * quo) + (IF ~msb(t) THEN 1 ELSE 0)
    PROVE  /\ quo2 * b + acc2 = a \div pow2[k - 1] /\ acc2 < b
           /\ word(2 * x) = (a % pow2[k - 1]) * pow2[W - (k - 1)]
  <1> DEFINE M == pow2[W]
             Hf == pow2[W - 1]
             p == pow2[k - 1]
             c == pow2[W - k]
             Q == a \div pow2[k]
             R == a % pow2[k]
             e == IF R >= p THEN 1 ELSE 0
             R2 == R - e * p
  <1>1. /\ M \in Nat /\ Hf \in Nat /\ M = 2 * Hf /\ Hf > 0 /\ a \in Nat /\ a < M
        /\ b \in Nat /\ b >= 1 /\ b <= Hf /\ quo \in Nat /\ acc \in Nat /\ x \in Nat
    BY Sizes DEF Words
  <1>2. /\ k \in 0..W /\ k - 1 \in 0..W /\ W - k \in 0..W /\ W - (k - 1) \in 1..W
        /\ W - (k - 1) - 1 = W - k
    BY WAssumption
  <1>3. /\ p \in Nat /\ p > 0 /\ c \in Nat /\ c > 0
        /\ pow2[k] = 2 * p /\ pow2[W - (k - 1)] = 2 * c
        /\ c * (2 * p) = M
    BY <1>2, Pow, PowSum
  <1>4. c * p = Hf /\ c <= Hf
    <2> HIDE DEF c, p, M, Hf
    <2>1. c * (2 * p) = 2 * (c * p) /\ c * p = c * (p - 1) + c /\ c * (p - 1) >= 0 /\ c * p \in Nat
      BY <1>3
    <2> DEFINE w == c * p
               v == c * (p - 1)
    <2>2. v \in Int
      BY <1>3
    <2> HIDE DEF w, v
    <2>3. w = Hf /\ c <= Hf
      BY <1>1, <1>3, <2>1, <2>2 DEF w, v
    <2>4. QED
      BY <2>3 DEF w
  <1>5. /\ Q \in Nat /\ R \in Nat /\ R < 2 * p /\ a = (2 * p) * Q + R
    <2> DEFINE m == pow2[k]
    <2>1. m \in Nat /\ m > 0 /\ m = 2 * p
      BY <1>3
    <2>2. a \in Int /\ a >= 0
      BY <1>1
    <2> HIDE DEF m
    <2>3. a % m \in Nat /\ a % m < m /\ a = m * (a \div m) + (a % m) /\ a \div m \in Nat
      BY ONLY <2>1, <2>2, DivMod
    <2>4. QED
      BY <2>1, <2>3 DEF m
  <1> HIDE DEF M, Hf, p, c, Q, R
  <1>6. e \in Nat /\ R2 \in Nat /\ R2 < p /\ R = e * p + R2
    BY <1>3, <1>5
  <1>7. a = p * (2 * Q + e) + R2 /\ 2 * Q + e \in Nat
    <2>1. (2 * p) * Q = p * (2 * Q) /\ p * (2 * Q + e) = p * (2 * Q) + e * p
          /\ p * (2 * Q) \in Nat /\ e * p \in Nat
      BY <1>3, <1>5, <1>6
    <2> HIDE DEF e, R2
    <2>2. QED
      BY <1>3, <1>5, <1>6, <2>1
  <1>8. a % p = R2 /\ a \div p = 2 * Q + e
    <2> DEFINE n == 2 * Q + e
    <2>1. n \in Int /\ a = p * n + R2
      BY <1>7
    <2> HIDE DEF n, R2
    <2>2. a % p = R2 /\ a \div p = n
      BY <1>1, <1>3, <1>6, <2>1, DivModIs
    <2>3. QED
      BY <2>2 DEF n
  <1>9. x = R * c
    BY DEF R, c
  <1>10. x >= Hf <=> R >= p
    <2>1. R * c - Hf = (R - p) * c
      BY <1>3, <1>4, <1>5
    <2>2. R >= p => (R - p) * c >= 0
      BY <1>3, <1>5
    <2>3. R < p => (p - R) * c >= 1
      BY <1>3, <1>5
    <2>4. (R - p) * c = -((p - R) * c)
      BY <1>3, <1>5
    <2> DEFINE g == (R - p) * c
               h == (p - R) * c
    <2>5. g \in Int /\ h \in Int
      BY <1>3, <1>5
    <2> HIDE DEF g, h, e, R2
    <2>6. x - Hf = g /\ (R >= p => g >= 0) /\ (R < p => h >= 1) /\ g = -h
      BY <1>9, <2>1, <2>2, <2>3, <2>4 DEF g, h
    <2>7. QED
      BY <1>1, <1>3, <1>5, <2>5, <2>6
  <1>11. (IF msb(x) THEN 1 ELSE 0) = e
    BY <1>10 DEF msb, Hf
  <1>12. word(2 * x) = R2 * (2 * c)
    <2>1. /\ e = 1 => R2 * (2 * c) = 2 * (R * c) - M
          /\ e = 0 => R2 * (2 * c) = 2 * (R * c)
      <3>1. R2 * (2 * c) = 2 * (R * c) - e * (c * (2 * p))
        <4> HIDE DEF e
        <4>1. QED
          BY <1>3, <1>5, <1>6
      <3> HIDE DEF R2
      <3>2. R * c \in Nat
        BY <1>3, <1>5
      <3>3. QED
        BY <1>1, <1>3, <3>1, <3>2
    <2>2. e \in {0, 1} /\ (e = 1 <=> msb(x))
      BY <1>10 DEF msb, Hf
    <2>3. word(2 * x) = IF msb(x) THEN 2 * x - M ELSE 2 * x
      BY Double DEF M
    <2>4. QED
      BY <1>9, <2>1, <2>2, <2>3
  <1>13. word(2 * acc) = 2 * acc
    <2>1. ~(acc >= Hf)
      BY <1>1
    <2>2. QED
      BY <2>1, Double DEF msb, Hf
  <1>14. s = 2 * acc + e /\ s \in Nat /\ s < 2 * b
    <2>1. s = 2 * acc + e
      BY <1>11, <1>13
    <2>2. QED
      BY <1>1, <2>1
  <1>15. ~msb(t) <=> s >= b
    <2>1. CASE s >= b
      <3>1. s - b \in Nat /\ s - b < Hf /\ s - b \in 0..(M - 1)
        BY <1>1, <1>14, <2>1
      <3>2. s - b \in Words
        BY <3>1 DEF Words, M
      <3>3. t = s - b
        BY <3>2, WordTyped
      <3>4. ~(t >= Hf)
        BY <1>1, <3>1, <3>3
      <3>5. QED
        BY <2>1, <3>4 DEF msb, Hf
    <2>2. CASE ~(s >= b)
      <3> DEFINE d == s - b
                 u == d + M
                 n == -1
      <3>1. u \in 0..(M - 1) /\ u >= Hf /\ d = u + M * n /\ d \in Int /\ n \in Int /\ u \in Int
        BY <1>1, <1>14, <2>2
      <3>2. u \in Words
        BY <3>1 DEF Words, M
      <3> HIDE DEF d, u, n
      <3>3. word(d) = word(u)
        BY <3>1, SameWord DEF M
      <3>4. t = u
        BY <3>2, <3>3, WordTyped DEF d
      <3>5. QED
        BY <2>2, <3>1, <3>4 DEF msb, Hf
    <2>3. QED
      BY <2>1, <2>2
  <1>16. s >= b => t = s - b
    <2>1. SUFFICES ASSUME s >= b PROVE t = s - b
      OBVIOUS
    <2>2. s - b \in 0..(M - 1)
      BY <1>1, <1>14, <2>1
    <2>3. s - b \in Words
      BY <2>2 DEF Words, M
    <2>4. QED
      BY <2>3, WordTyped
  <1>17. Q < c
    <2>1. ~(Q >= c)
      <3>1. SUFFICES ASSUME Q >= c PROVE FALSE
        OBVIOUS
      <3>2. (2 * p) * Q = (2 * p) * (Q - c) + c * (2 * p) /\ (2 * p) * (Q - c) >= 0
        BY <1>3, <1>5, <3>1
      <3> DEFINE g == (2 * p) * Q
                 h == (2 * p) * (Q - c)
      <3>3. g \in Int /\ h \in Int /\ g = h + M /\ h >= 0 /\ a = g + R
        BY <1>3, <1>5, <3>2
      <3> HIDE DEF g, h, e, R2
      <3>4. QED
        BY <1>1, <1>5, <3>3
    <2>2. QED
      BY <1>3, <1>5, <2>1
  <1>18. quo * b + acc = Q
    BY DEF Q
  <1>19. quo <= Q
    <2>1. quo * b = quo + quo * (b - 1) /\ quo * (b - 1) >= 0
      BY <1>1
    <2> DEFINE g == quo * b
               h == quo * (b - 1)
    <2>2. g \in Int /\ h \in Int /\ g = quo + h /\ h >= 0 /\ g + acc = Q
      BY <1>1, <1>18, <2>1
    <2> HIDE DEF g, h, e, R2
    <2>3. QED
      BY <1>1, <1>5, <2>2
  <1>20. word(2 * quo) = 2 * quo
    <2>1. ~(quo >= Hf)
      BY <1>1, <1>3, <1>4, <1>5, <1>17, <1>19
    <2>2. QED
      BY <2>1, Double DEF msb, Hf
  <1> HIDE DEF e, R2
  <1>21. quo2 * b + acc2 = 2 * Q + e /\ acc2 < b
    <2> DEFINE g == quo * b
    <2>1. g \in Nat /\ g + acc = Q /\ (2 * quo) * b = 2 * g /\ (2 * quo + 1) * b = 2 * g + b
      BY <1>1, <1>18
    <2>2. CASE s >= b
      <3>1. quo2 = 2 * quo + 1 /\ acc2 = s - b
        BY <1>15, <1>16, <1>20, <2>2
      <3>2. quo2 * b = 2 * g + b
        BY <2>1, <3>1
      <3> DEFINE h == quo2 * b
      <3> HIDE DEF g, h
      <3>3. h = 2 * g + b
        BY <3>2 DEF h
      <3>4. h + acc2 = 2 * Q + e /\ acc2 < b
        BY <1>1, <1>5, <1>6, <1>14, <2>1, <3>1, <3>3
      <3>5. QED
        BY <3>4 DEF h
    <2>3. CASE ~(s >= b)
      <3>1. quo2 = 2 * quo + 0 /\ acc2 = s
        BY <1>15, <1>20, <2>3
      <3>2. quo2 * b = 2 * g
        BY <1>1, <2>1, <3>1
      <3> DEFINE h == quo2 * b
      <3> HIDE DEF g, h
      <3>3. h = 2 * g
        BY <3>2 DEF h
      <3>4. h + acc2 = 2 * Q + e /\ acc2 < b
        BY <1>1, <1>5, <1>6, <1>14, <2>1, <2>3, <3>1, <3>3
      <3>5. QED
        BY <3>4 DEF h
    <2>4. QED
      BY <2>2, <2>3
  <1>22. QED
    BY <1>3, <1>8, <1>12, <1>21 DEF p
----------------------------------------------------------------------------
\* Signed division.

\* Quotient and remainder of two words as signed numbers, from those of their absolute
\* values: what Finish makes of them is what the reference asks for.
LEMMA QuotientSign ==
    ASSUME NEW a \in Words, NEW b \in Words, b # 0,
           NEW q, q = abs(a) \div abs(b), NEW r, r = abs(a) % abs(b)
    PROVE  /\ abs(b) > 0
           /\ (IF msb(a) # msb(b) THEN neg(q) ELSE q)
                  = word(quotient(signed(a, W), signed(b, W)))
           /\ (IF msb(a) THEN neg(r) ELSE r) = word(remainder(signed(a, W), signed(b, W)))
           /\ quotient(signed(a, W), signed(b, W)) \in Int
           /\ remainder(signed(a, W), signed(b, W)) \in Int
  <1> DEFINE x == signed(a, W)
             y == signed(b, W)
             A == abs(a)
             B == abs(b)
             n == B * q
             t == trunc(x, y)
  <1>1. /\ x \in Int /\ y \in Int /\ (msb(a) <=> x < 0) /\ (msb(b) <=> y < 0)
        /\ A = (IF x < 0 THEN -x ELSE x) /\ B = (IF y < 0 THEN -y ELSE y)
        /\ A \in Words /\ B \in Words /\ word(y) = b
    BY Sign
  <1>2. A \in Nat /\ B \in Nat
    BY <1>1, WordTyped
  <1>3. y # 0
    <2>1. 0 \in Words
      BY Sizes DEF Words
    <2>2. word(0) = 0
      BY <2>1, WordTyped
    <2>3. QED
      BY <1>1, <2>2
  <1> HIDE DEF x, y
  <1>4. B > 0
    <2> HIDE DEF A, B
    <2>1. QED
      BY <1>1, <1>3
  <1>5. q \in Nat /\ r \in Nat /\ r < B /\ A = n + r
    <2>1. A \in Int /\ A >= 0 /\ B \in Nat
      BY <1>2
    <2> HIDE DEF A, B
    <2>2. A \div B \in Nat /\ A % B \in Nat /\ A % B < B /\ A = B * (A \div B) + (A % B)
      BY ONLY <1>4, <2>1, DivMod
    <2>3. QED
      BY <2>2 DEF A, B
  <1>6. n \in Nat /\ q <= A /\ r <= A
    <2>1. n = q + (B - 1) * q /\ (B - 1) * q >= 0 /\ n \in Nat
      <3> HIDE DEF B
      <3>1. QED
        BY <1>2, <1>4, <1>5
    <2> DEFINE h == (B - 1) * q
    <2>2. h \in Int /\ n = q + h /\ h >= 0
      <3> HIDE DEF B
      <3>1. QED
        BY <1>2, <1>5, <2>1
    <2> HIDE DEF h, n, A, B
    <2>3. QED
      BY <1>2, <1>5, <2>1, <2>2
  <1>7. q \in Words /\ r \in Words
    <2>1. A < pow2[W] /\ pow2[W] \in Nat
      BY <1>1, Sizes DEF Words
    <2> HIDE DEF A, n
    <2>2. QED
      BY <1>2, <1>5, <1>6, <2>1 DEF Words
  <1>8. t = IF (x < 0) # (y < 0) THEN -q ELSE q
    BY <1>1 DEF trunc
  <1>9. quotient(x, y) = t /\ remainder(x, y) = x - y * t
    BY <1>3 DEF quotient, remainder
  <1>10. x - y * t = IF x < 0 THEN -r ELSE r
    <2>1. /\ y * t = (IF x < 0 THEN -n ELSE n) /\ x = (IF x < 0 THEN -A ELSE A)
      <3>1. x = (IF x < 0 THEN -A ELSE A) /\ y = (IF y < 0 THEN -B ELSE B)
        <4> HIDE DEF A, B
        <4>1. QED
          BY <1>1
      <3>2. (-B) * q = -n /\ (-B) * (-q) = n /\ B * (-q) = -n
        <4> HIDE DEF B
        <4>1. QED
          BY <1>2, <1>5
      <3> HIDE DEF A, t
      <3>3. CASE x < 0 /\ y < 0
        BY <1>8, <3>1, <3>2, <3>3
      <3>4. CASE x < 0 /\ ~(y < 0)
        BY <1>8, <3>1, <3>2, <3>4
      <3>5. CASE ~(x < 0) /\ y < 0
        BY <1>8, <3>1, <3>2, <3>5
      <3>6. CASE ~(x < 0) /\ ~(y < 0)
        BY <1>8, <3>1, <3>6
      <3>7. QED
        BY <3>3, <3>4, <3>5, <3>6
    <2> DEFINE w == y * t
    <2> HIDE DEF A, n, w
    <2>2. x - w = IF x < 0 THEN -r ELSE r
      BY <1>1, <1>2, <1>5, <1>6, <2>1 DEF w
    <2>3. QED
      BY <2>2 DEF w
  <1>11. neg(q) = word(-q) /\ neg(r) = word(-r)
    <2>1. q \in Int /\ r \in Int /\ word(q) = q /\ word(r) = r
      BY <1>5, <1>7, WordTyped
    <2>2. QED
      BY <2>1, NegWord
  <1>12. word(q) = q /\ word(r) = r
    BY <1>7, WordTyped
  <1> DEFINE d == quotient(x, y)
             e == remainder(x, y)
  <1>13. /\ d = (IF (x < 0) # (y < 0) THEN -q ELSE q)
         /\ e = (IF x < 0 THEN -r ELSE r)
    BY <1>8, <1>9, <1>10
  <1> HIDE DEF d, e, t, n, A, B
  <1>14. d \in Int /\ e \in Int
    BY <1>5, <1>13
  <1>15. (IF msb(a) THEN neg(r) ELSE r) = word(e)
    BY <1>1, <1>11, <1>12, <1>13
  <1>16. (IF msb(a) # msb(b) THEN neg(q) ELSE q) = word(d)
    <2>1. (msb(a) # msb(b)) <=> ((x < 0) # (y < 0))
      BY <1>1 DEF msb
    <2>2. QED
      BY <1>11, <1>12, <1>13, <2>1
  <1>17. QED
    BY <1>4, <1>14, <1>15, <1>16 DEF d, e, x, y, B

\* Quotient and remainder of natural numbers.
LEMMA QuotientPlain ==
    ASSUME NEW a \in Nat, NEW b \in Nat, b > 0
    PROVE  /\ quotient(a, b) = a \div b /\ remainder(a, b) = a % b
           /\ a \div b \in Nat /\ a % b \in Nat /\ a \div b <= a /\ a % b <= a
  <1> DEFINE q == a \div b
             r == a % b
             n == b * q
  <1>1. q \in Nat /\ r \in Nat /\ a = n + r
    BY DivMod
  <1>2. trunc(a, b) = q
    BY DEF trunc
  <1> HIDE DEF q, r
  <1>3. quotient(a, b) = q /\ remainder(a, b) = a - n
    BY <1>2 DEF quotient, remainder
  <1>4. n = q + (b - 1) * q /\ (b - 1) * q >= 0 /\ n \in Nat
    BY <1>1
  <1> DEFINE h == (b - 1) * q
  <1>5. h \in Int /\ n = q + h /\ h >= 0
    BY <1>1, <1>4
  <1> HIDE DEF h, n
  <1>6. a - n = r /\ q <= a /\ r <= a
    BY <1>1, <1>4, <1>5
  <1>7. QED
    BY <1>1, <1>3, <1>6 DEF q, r
----------------------------------------------------------------------------
\* The inductive invariant.

\* The operands of the instruction in EX.
OperandA == operand(instr.op, instr.a)
OperandB == operand(instr.op, instr.b)
Signs == instr.op \in SignedOps

\* A busy unit has iterations left and holds what its start has decided.
Working ==
    md_busy =>
        /\ md_count >= 1 /\ (iter_is_mul <=> instr.op \in MulOps)
        /\ iter_is_mul => iter_sign_q = (msb(OperandA) # msb(OperandB))
        /\ ~iter_is_mul => /\ iter_divisor = OpB
                           /\ iter_sign_q = (Signs /\ msb(OperandA) # msb(OperandB))
                           /\ iter_sign_r = (Signs /\ msb(OperandA))

\* DivisionInvariant with the dividend's bits to come as a number instead of a word: those
\* below pow2[md_count], at the top of the register.
Dividing ==
    md_busy /\ ~iter_is_mul /\ OpB \in 1..pow2[W - 1] =>
        /\ iter_quo * OpB + iter_acc = OpA \div pow2[md_count]
        /\ iter_acc < OpB
        /\ iter_op_a = (OpA % pow2[md_count]) * pow2[W - md_count]

\* Quotient and remainder of the absolute values with the signs of the operands.
QuoFinal == IF Signs /\ msb(OperandA) # msb(OperandB) THEN neg(OpA \div OpB) ELSE OpA \div OpB
RemFinal == IF Signs /\ msb(OperandA) THEN neg(OpA % OpB) ELSE OpA % OpB

\* What the last iteration has left is the result of the instruction in EX.
Results ==
    md_result_ready =>
        /\ instr.op \in MulOps => iter_mul_final = word(OperandA * OperandB)
        /\ instr.op \notin MulOps /\ OpB \in 1..pow2[W - 1] =>
               iter_quo_final = QuoFinal /\ iter_rem_final = RemFinal

IInv == TypeOK /\ Working /\ ProductInvariant /\ Dividing /\ Results

\* The operand an instruction sees is a word.
LEMMA OperandTyped ==
    ASSUME NEW op, NEW x \in Words
    PROVE  operand(op, x) \in Words
  <1>1. x \in Int /\ x \in Nat
    BY WordTyped
  <1>2. sext(x) \in Words /\ low(x) \in Words
    BY <1>1, Sext, Low
  <1>3. QED
    BY <1>2 DEF operand

\* So are the numbers the unit works on.
LEMMA OpTyped ==
    ASSUME instr \in Instr
    PROVE  /\ OperandA \in Words /\ OperandB \in Words /\ OpA \in Words /\ OpB \in Words
           /\ OpA \in Nat /\ OpB \in Nat /\ OperandA \in Nat /\ OperandB \in Nat
  <1>1. instr.a \in Words /\ instr.b \in Words
    BY DEF Instr
  <1>2. OperandA \in Words /\ OperandB \in Words
    BY <1>1, OperandTyped DEF OperandA, OperandB
  <1>3. abs(OperandA) \in Words /\ abs(OperandB) \in Words
    BY <1>2, Sign
  <1>4. OpA \in Words /\ OpB \in Words
    BY <1>2, <1>3 DEF OpA, OpB, OperandA, OperandB
  <1>5. QED
    BY <1>2, <1>4, WordTyped

\* The start of an instruction.
LEMMA StartStep ==
    ASSUME TypeOK, NEW i \in Instr, Start(i)
    PROVE  IInv'
  <1> DEFINE a == operand(i.op, i.a)
             b == operand(i.op, i.b)
  <1>1. i.op \in Ops /\ i.a \in Words /\ i.b \in Words
    BY DEF Instr
  <1>2. a \in Words /\ b \in Words /\ abs(a) \in Words /\ abs(b) \in Words
    BY <1>1, OperandTyped, Sign
  <1>3. /\ instr' = i /\ OperandA' = a /\ OperandB' = b /\ (Signs' <=> i.op \in SignedOps)
        /\ md_busy' = TRUE /\ md_result_ready' = FALSE
        /\ UNCHANGED <<iter_mul_final, iter_quo_final, iter_rem_final>>
    BY DEF Start, OperandA, OperandB, Signs, finals, TypeOK
  <1>4. /\ OpA' = IF i.op \in MulOps \cup SignedOps THEN abs(a) ELSE a
        /\ OpB' = IF i.op \in MulOps \cup SignedOps THEN abs(b) ELSE b
    BY <1>3 DEF OpA, OpB
  <1>5. /\ W \in Nat /\ H \in 1..W /\ W \in 1..W /\ 0 \in Words
        /\ pow2[W] \in Nat /\ pow2[W] > 0
    BY Sizes, WAssumption DEF Words
  <1>6. CASE i.op \in MulOps
    <2>1. /\ iter_is_mul' = TRUE /\ iter_acc' = 0 /\ iter_op_a' = abs(a) /\ iter_op_b' = abs(b)
          /\ iter_sign_q' = (msb(a) # msb(b)) /\ md_count' = (IF i.op = "mulw" THEN H ELSE W)
          /\ UNCHANGED <<iter_quo, iter_divisor, iter_sign_r>>
      BY <1>6 DEF Start, MulStart, divVars
    <2>2. OpA' = abs(a) /\ OpB' = abs(b)
      BY <1>4, <1>6
    <2> HIDE DEF a, b
    <2>3. TypeOK'
      <3>1. iter_sign_q' \in BOOLEAN
        BY <2>1 DEF msb
      <3>2. {iter_acc', iter_quo', iter_divisor', iter_op_a', iter_op_b',
             iter_mul_final', iter_quo_final', iter_rem_final'} \subseteq Words
        BY <1>2, <1>3, <1>5, <2>1 DEF TypeOK
      <3>3. md_count' \in 0..W /\ md_count' >= 1
        BY <1>5, <2>1
      <3>4. iter_is_mul' \in BOOLEAN /\ iter_sign_r' \in BOOLEAN /\ md_busy' \in BOOLEAN
            /\ md_result_ready' \in BOOLEAN /\ instr' \in Instr
        BY <1>3, <2>1 DEF TypeOK
      <3>5. QED
        BY <3>1, <3>2, <3>3, <3>4 DEF TypeOK
    <2>4. Working'
      <3>1. md_count' >= 1
        BY <1>5, <2>1
      <3>2. (iter_is_mul' <=> instr'.op \in MulOps)
        BY <1>3, <1>6, <2>1
      <3>3. iter_sign_q' = (msb(OperandA') # msb(OperandB'))
        BY <1>3, <2>1
      <3>4. QED
        BY <2>1, <3>1, <3>2, <3>3 DEF Working
    <2>5. ProductInvariant'
      <3>1. iter_acc' + iter_op_a' * iter_op_b' = OpA' * OpB'
        <4>1. abs(a) \in Nat /\ abs(b) \in Nat
          BY <1>2, WordTyped
        <4>2. 0 + abs(a) * abs(b) = abs(a) * abs(b)
          BY <4>1
        <4>3. QED
          BY <2>1, <2>2, <4>2
      <3>2. iter_op_b' < pow2[md_count']
        <4>1. CASE i.op = "mulw"
          <5>1. b = sext(i.b) /\ i.b \in Int
            BY <1>1, <4>1, WordTyped DEF b, operand
          <5>2. abs(b) < pow2[H]
            BY <5>1, Sext
          <5>3. QED
            BY <2>1, <4>1, <5>2
        <4>2. CASE i.op # "mulw"
          <5>1. abs(b) < pow2[W]
            BY <1>2, <1>5 DEF Words
          <5>2. QED
            BY <2>1, <4>2, <5>1
        <4>3. QED
          BY <4>1, <4>2
      <3>3. QED
        BY <3>1, <3>2 DEF ProductInvariant
    <2>6. Dividing' /\ Results'
      BY <1>3, <2>1 DEF Dividing, Results
    <2>7. QED
      BY <2>3, <2>4, <2>5, <2>6 DEF IInv
  <1>7. CASE i.op \notin MulOps
    <2>1. /\ iter_is_mul' = FALSE /\ iter_acc' = 0 /\ iter_quo' = 0
          /\ iter_op_a' = (IF i.op \in SignedOps THEN abs(a) ELSE a)
          /\ iter_divisor' = (IF i.op \in SignedOps THEN abs(b) ELSE b)
          /\ iter_sign_q' = (i.op \in SignedOps /\ msb(a) # msb(b))
          /\ iter_sign_r' = (i.op \in SignedOps /\ msb(a))
          /\ md_count' = W /\ UNCHANGED iter_op_b
      BY <1>7 DEF Start, DivStart
    <2>2. iter_op_a' = OpA' /\ iter_divisor' = OpB'
      BY <1>4, <1>7, <2>1
    <2> HIDE DEF a, b
    <2>3. TypeOK'
      <3>1. iter_sign_q' \in BOOLEAN /\ iter_sign_r' \in BOOLEAN
        BY <2>1 DEF msb
      <3>2. {iter_acc', iter_quo', iter_divisor', iter_op_a', iter_op_b',
             iter_mul_final', iter_quo_final', iter_rem_final'} \subseteq Words
        BY <1>2, <1>3, <1>5, <2>1 DEF TypeOK
      <3>3. md_count' \in 0..W
        BY <1>5, <2>1
      <3>4. iter_is_mul' \in BOOLEAN /\ md_busy' \in BOOLEAN
            /\ md_result_ready' \in BOOLEAN /\ instr' \in Instr
        BY <1>3, <2>1 DEF TypeOK
      <3>5. QED
        BY <3>1, <3>2, <3>3, <3>4 DEF TypeOK
    <2>4. Working'
      <3>1. md_count' >= 1
        BY <1>5, <2>1
      <3>2. (iter_is_mul' <=> instr'.op \in MulOps) /\ iter_is_mul' = FALSE
        <4>1. instr'.op = i.op /\ ~(i.op \in MulOps) /\ iter_is_mul' = FALSE
          BY <1>3, <1>7, <2>1
        <4>2. QED
          BY ONLY <4>1
      <3>3. /\ iter_sign_q' = (Signs' /\ msb(OperandA') # msb(OperandB'))
            /\ iter_sign_r' = (Signs' /\ msb(OperandA'))
        BY <1>3, <2>1 DEF Signs
      <3>4. QED
        BY <2>2, <3>1, <3>2, <3>3 DEF Working
    <2>5. Dividing'
      <3> DEFINE x == OpA'
                 d == OpB'
                 M == pow2[W]
      <3>1. x \in Words /\ x \in Nat /\ x < M /\ M \in Nat /\ M > 0
        BY <1>2, <1>4, <1>5, WordTyped DEF Words
      <3>2. pow2[W - W] = 1
        BY <1>5, Pow
      <3>3. \A n \in Nat : n \in 1..pow2[W - 1] => 0 * n + 0 = 0 /\ 0 < n
        BY Sizes
      <3>4. /\ iter_quo' = 0 /\ iter_acc' = 0 /\ md_count' = W /\ iter_op_a' = x
        BY <2>1, <2>2
      <3> HIDE DEF x, d, M
      <3>5. x % M = x /\ x \div M = 0
        <4>1. x \in Int /\ x \in Nat /\ M \in Nat /\ M > 0 /\ x < M /\ x = M * 0 + x /\ 0 \in Int
          BY <3>1
        <4>2. QED
          BY ONLY <4>1, DivModIs
      <3>6. x = (x % M) * 1
        BY <3>1, <3>5
      <3>7. d \in 1..pow2[W - 1] =>
               /\ 0 * d + 0 = x \div M /\ 0 < d /\ x = (x % M) * pow2[W - W]
        <4>1. d \in Nat
          BY <1>2, <1>4, WordTyped DEF d
        <4>2. QED
          BY <3>2, <3>3, <3>5, <3>6, <4>1
      <3>8. QED
        BY <3>4, <3>7 DEF Dividing, x, d, M
    <2>6. ProductInvariant' /\ Results'
      BY <1>3, <2>1 DEF ProductInvariant, Results
    <2>7. QED
      BY <2>3, <2>4, <2>5, <2>6 DEF IInv
  <1>8. QED
    BY <1>6, <1>7
\* One iteration.  The instruction holds still, so its operands do.
LEMMA IterateStep ==
    ASSUME IInv, Iterate
    PROVE  IInv'
  <1> DEFINE k == md_count
             A == OpA
             B == OpB
  <1>1. /\ TypeOK /\ Working /\ ProductInvariant /\ Dividing /\ Results /\ md_busy
        /\ k \in 1..W /\ instr \in Instr
    BY DEF IInv, Iterate, TypeOK, Working
  <1>2. /\ UNCHANGED <<iter_is_mul, iter_sign_q, instr>> /\ md_count' = k - 1
        /\ md_busy' = (k # 1) /\ md_result_ready' = (k = 1 \/ md_result_ready)
    BY DEF Iterate
  <1>3. /\ OperandA' = OperandA /\ OperandB' = OperandB /\ A' = A /\ B' = B
        /\ Signs' = Signs /\ QuoFinal' = QuoFinal /\ RemFinal' = RemFinal
    BY <1>2 DEF OperandA, OperandB, OpA, OpB, Signs, QuoFinal, RemFinal
  <1>4. /\ OperandA \in Words /\ OperandB \in Words /\ A \in Words /\ B \in Words
        /\ A \in Nat /\ B \in Nat
    BY <1>1, OpTyped
  <1>5. /\ iter_acc \in Words /\ iter_quo \in Words /\ iter_divisor \in Words
        /\ iter_op_a \in Words /\ iter_op_b \in Words
        /\ iter_mul_final \in Words /\ iter_quo_final \in Words /\ iter_rem_final \in Words
    BY <1>1 DEF TypeOK
  <1>6. (iter_is_mul <=> instr.op \in MulOps) /\ iter_is_mul \in BOOLEAN
    BY <1>1 DEF Working, TypeOK
  <1>7. W \in Nat /\ k - 1 \in 0..W /\ (k # 1 => k - 1 >= 1)
    BY <1>1, WAssumption
  <1>8. /\ iter_is_mul' \in BOOLEAN /\ iter_sign_q' \in BOOLEAN /\ md_busy' \in BOOLEAN
        /\ md_result_ready' \in BOOLEAN /\ instr' \in Instr /\ md_count' \in 0..W
    <2>1. (k # 1) \in BOOLEAN /\ (k = 1 \/ md_result_ready) \in BOOLEAN
      OBVIOUS
    <2>2. QED
      BY <1>1, <1>2, <1>7, <2>1 DEF TypeOK
  <1>9. CASE iter_is_mul
    <2>1. /\ iter_acc' = word(iter_acc + (IF odd(iter_op_b) THEN iter_op_a ELSE 0))
          /\ iter_op_a' = word(2 * iter_op_a) /\ iter_op_b' = iter_op_b \div 2
          /\ UNCHANGED <<iter_quo, iter_divisor, iter_sign_r>>
          /\ k = 1 => iter_mul_final' = IF iter_sign_q THEN neg(iter_acc') ELSE iter_acc'
          /\ UNCHANGED <<iter_quo_final, iter_rem_final>>
          /\ k # 1 => iter_mul_final' = iter_mul_final
      BY <1>9 DEF Iterate, MulStep, Finish, divVars, finals
    <2>2. /\ word(iter_acc + iter_op_a * iter_op_b) = word(A * B)
          /\ iter_op_b < pow2[k]
      BY <1>1, <1>9 DEF ProductInvariant
    <2>3. /\ iter_acc' \in Words /\ iter_op_a' \in Words
      <3>1. iter_acc + (IF odd(iter_op_b) THEN iter_op_a ELSE 0) \in Int /\ 2 * iter_op_a \in Int
        BY <1>5, WordTyped
      <3>2. QED
        BY <2>1, <3>1, WordTyped
    <2>4. /\ word(iter_acc' + iter_op_a' * iter_op_b') = word(A * B) /\ iter_op_b' \in Words
          /\ iter_op_b' < pow2[k - 1]
      <3>1. pow2[k - 1] \in Nat /\ pow2[k] = 2 * pow2[k - 1]
        BY <1>1, <1>7, Pow
      <3>2. /\ word(word(iter_acc + (IF odd(iter_op_b) THEN iter_op_a ELSE 0))
                    + word(2 * iter_op_a) * (iter_op_b \div 2))
                   = word(iter_acc + iter_op_a * iter_op_b)
            /\ iter_op_b \div 2 \in Words
            /\ \A p \in Nat : iter_op_b < 2 * p => iter_op_b \div 2 < p
        BY <1>5, MultiplyStep
      <3> DEFINE p == pow2[k - 1]
      <3> HIDE DEF p
      <3>3. p \in Nat /\ iter_op_b < 2 * p
        BY <2>2, <3>1 DEF p
      <3>4. iter_op_b \div 2 < p
        BY <3>2, <3>3
      <3>5. QED
        BY <2>1, <2>2, <3>2, <3>4 DEF p
    <2>5. ProductInvariant' /\ Dividing'
      BY <1>2, <1>3, <1>9, <2>4 DEF ProductInvariant, Dividing
    <2>6. Working'
      BY <1>1, <1>2, <1>3, <1>7, <1>9 DEF Working
    <2>7. k = 1 => iter_acc' = word(A * B)
      <3>1. SUFFICES ASSUME k = 1 PROVE iter_acc' = word(A * B)
        OBVIOUS
      <3>2. iter_op_b' = 0
        <4>1. iter_op_b' < 1 /\ iter_op_b' \in Nat
          BY <2>4, <3>1, Pow, WordTyped
        <4>2. QED
          BY <4>1
      <3>3. iter_acc' + iter_op_a' * 0 = iter_acc'
        BY <2>3, WordTyped
      <3>4. word(iter_acc') = word(A * B)
        BY <2>4, <3>2, <3>3
      <3>5. QED
        BY <2>3, <3>4, WordTyped
    <2>8. k = 1 => iter_mul_final' = word(OperandA * OperandB)
      <3>1. SUFFICES ASSUME k = 1 PROVE iter_mul_final' = word(OperandA * OperandB)
        OBVIOUS
      <3>2. instr.op \in MulOps /\ iter_sign_q = (msb(OperandA) # msb(OperandB))
        BY <1>1, <1>6, <1>9 DEF Working
      <3>3. A = abs(OperandA) /\ B = abs(OperandB)
        BY <3>2 DEF OpA, OpB, OperandA, OperandB
      <3>4. word(OperandA * OperandB) = IF msb(OperandA) # msb(OperandB)
                                         THEN neg(word(abs(OperandA) * abs(OperandB)))
                                         ELSE word(abs(OperandA) * abs(OperandB))
        BY <1>4, ProductSign
      <3>5. iter_mul_final' = IF iter_sign_q THEN neg(word(A * B)) ELSE word(A * B)
        BY <2>1, <2>7, <3>1
      <3> HIDE DEF A, B
      <3>6. QED
        BY <3>2, <3>3, <3>4, <3>5
    <2>9. Results'
      <3>1. instr'.op \in MulOps
        BY <1>2, <1>6, <1>9
      <3>2. CASE k = 1
        BY <1>3, <2>8, <3>1, <3>2 DEF Results
      <3>3. CASE k # 1
        BY <1>1, <1>2, <1>3, <2>1, <3>1, <3>3 DEF Results
      <3>4. QED
        BY <3>2, <3>3
    <2>10. iter_mul_final' \in Words
      <3>1. neg(iter_acc') \in Words
        <4>1. pow2[W] - iter_acc' \in Int
          BY <2>3, Sizes, WordTyped
        <4>2. QED
          BY <4>1, WordTyped DEF neg
      <3>2. QED
        BY <1>5, <2>1, <2>3, <3>1
    <2>11. TypeOK'
      <3>1. {iter_acc', iter_quo', iter_divisor', iter_op_a', iter_op_b',
             iter_mul_final', iter_quo_final', iter_rem_final'} \subseteq Words
        BY <1>5, <2>1, <2>3, <2>4, <2>10
      <3>2. iter_sign_r' \in BOOLEAN
        BY <1>1, <2>1 DEF TypeOK
      <3>3. QED
        BY <1>8, <3>1, <3>2 DEF TypeOK
    <2>12. QED
      BY <2>5, <2>6, <2>9, <2>11 DEF IInv
  <1>10. CASE ~iter_is_mul
    <2> DEFINE s == div_shifted
               t == div_trial
    <2>1. /\ iter_acc' = (IF ~msb(t) THEN t ELSE s)
          /\ iter_quo' = word(2 * iter_quo) + (IF ~msb(t) THEN 1 ELSE 0)
          /\ iter_op_a' = word(2 * iter_op_a)
          /\ UNCHANGED <<iter_op_b, iter_divisor, iter_sign_r>>
      BY <1>10 DEF Iterate, DivStep, div_fits
    <2>2. /\ UNCHANGED iter_mul_final
          /\ k # 1 => UNCHANGED <<iter_quo_final, iter_rem_final>>
          /\ k = 1 => LET rem == IF msb(iter_acc') THEN word(iter_acc' + iter_divisor)
                                 ELSE iter_acc'
                      IN  /\ iter_quo_final' = IF iter_sign_q THEN neg(iter_quo') ELSE iter_quo'
                          /\ iter_rem_final' = IF iter_sign_r THEN neg(rem) ELSE rem
      BY <1>10 DEF Iterate, Finish, finals
    <2>3. /\ instr.op \notin MulOps /\ iter_divisor = B
          /\ iter_sign_q = (Signs /\ msb(OperandA) # msb(OperandB))
          /\ iter_sign_r = (Signs /\ msb(OperandA))
      BY <1>1, <1>6, <1>10 DEF Working
    <2>4. /\ s = word(2 * iter_acc) + (IF msb(iter_op_a) THEN 1 ELSE 0)
          /\ t = word(s - B)
      BY <2>3 DEF div_shifted, div_trial
    <2>5. /\ iter_acc' \in Words /\ iter_quo' \in Words /\ iter_op_a' \in Words
      <3>1. /\ word(2 * iter_acc) \in Words /\ word(2 * iter_acc) + 1 \in Words
            /\ word(2 * iter_quo) \in Words /\ word(2 * iter_quo) + 1 \in Words
            /\ word(2 * iter_op_a) \in Words
        BY <1>5, Double
      <3>2. \A x \in Words : x + 0 = x
        BY WordTyped
      <3>3. s \in Words
        BY <2>4, <3>1, <3>2
      <3>4. s - B \in Int
        BY <1>4, <3>3, WordTyped
      <3>5. t \in Words
        BY <2>4, <3>4, WordTyped
      <3> HIDE DEF s, t
      <3>6. QED
        BY <2>1, <3>1, <3>2, <3>3, <3>5
    <2>6. B \in 1..pow2[W - 1] =>
             /\ iter_quo' * B + iter_acc' = A \div pow2[k - 1] /\ iter_acc' < B
             /\ iter_op_a' = (A % pow2[k - 1]) * pow2[W - (k - 1)]
      <3>1. SUFFICES ASSUME B \in 1..pow2[W - 1]
                     PROVE  /\ iter_quo' * B + iter_acc' = A \div pow2[k - 1] /\ iter_acc' < B
                            /\ iter_op_a' = (A % pow2[k - 1]) * pow2[W - (k - 1)]
        OBVIOUS
      <3>2. /\ iter_quo * B + iter_acc = A \div pow2[k] /\ iter_acc < B
            /\ iter_op_a = (A % pow2[k]) * pow2[W - k]
        BY <1>1, <1>10, <3>1 DEF Dividing
      <3> HIDE DEF s, t, A, B, k
      <3>3. QED
        BY <1>1, <1>4, <1>5, <2>1, <2>4, <3>1, <3>2, DivideStep
    <2>7. ProductInvariant' /\ Dividing'
      <3> HIDE DEF s, t
      <3>1. QED
        BY <1>2, <1>3, <1>10, <2>6 DEF ProductInvariant, Dividing
    <2>8. Working'
      BY <1>1, <1>2, <1>3, <1>7, <1>10, <2>1 DEF Working
    <2>9. k = 1 /\ B \in 1..pow2[W - 1] => iter_quo_final' = QuoFinal /\ iter_rem_final' = RemFinal
      <3>1. SUFFICES ASSUME k = 1, B \in 1..pow2[W - 1]
                     PROVE  iter_quo_final' = QuoFinal /\ iter_rem_final' = RemFinal
        OBVIOUS
      <3>2. pow2[k - 1] = 1
        BY <3>1, Pow
      <3>3. iter_quo' * B + iter_acc' = A /\ iter_acc' < B
        <4>1. A \div 1 = A
          BY <1>4
        <4>2. QED
          BY <2>6, <3>1, <3>2, <4>1
      <3> DEFINE q == iter_quo'
                 r == iter_acc'
      <3>4. q \in Nat /\ r \in Nat
        BY <2>5, WordTyped
      <3> HIDE DEF s, t, k, A, B, q, r
      <3>5. A = B * q + r /\ r < B /\ B > 0
        <4>1. q * B + r = A /\ r < B
          BY <3>3 DEF q, r
        <4>2. B \in Nat /\ B > 0
          BY <3>1, Sizes
        <4>3. q * B = B * q
          BY <3>4, <4>2
        <4>4. QED
          BY <4>1, <4>2, <4>3
      <3>6. A \div B = q /\ A % B = r
        <4>1. A \in Int /\ B \in Nat /\ q \in Int
          BY <1>4, <3>4
        <4>2. QED
          BY ONLY <3>4, <3>5, <4>1, DivModIs
      <3>7. ~msb(r)
        <4>1. ~(r >= pow2[W - 1])
          BY <1>4, <3>1, <3>4, <3>5, Sizes
        <4>2. QED
          BY <4>1 DEF msb
      <3>8. /\ iter_quo_final' = IF iter_sign_q THEN neg(q) ELSE q
            /\ iter_rem_final' = IF iter_sign_r THEN neg(r) ELSE r
        BY <2>2, <3>1, <3>7 DEF q, r
      <3>9. QED
        BY <2>3, <3>6, <3>8 DEF QuoFinal, RemFinal, A, B
    <2>10. Results'
      <3>1. instr'.op \notin MulOps
        BY <1>2, <2>3
      <3>2. CASE k = 1
        BY <1>3, <2>9, <3>1, <3>2 DEF Results
      <3>3. CASE k # 1
        BY <1>1, <1>2, <1>3, <2>2, <3>1, <3>3 DEF Results
      <3>4. QED
        BY <3>2, <3>3
    <2>11. iter_quo_final' \in Words /\ iter_rem_final' \in Words
      <3>1. ASSUME NEW x \in Words PROVE neg(x) \in Words
        <4>1. pow2[W] - x \in Int
          BY Sizes, WordTyped
        <4>2. QED
          BY <4>1, WordTyped DEF neg
      <3>2. word(iter_acc' + iter_divisor) \in Words
        <4>1. iter_acc' + iter_divisor \in Int
          BY <1>5, <2>5, WordTyped
        <4>2. QED
          BY <4>1, WordTyped
      <3> HIDE DEF s, t
      <3>3. QED
        BY <1>5, <2>2, <2>5, <3>1, <3>2
    <2>12. TypeOK'
      <3>1. {iter_acc', iter_quo', iter_divisor', iter_op_a', iter_op_b',
             iter_mul_final', iter_quo_final', iter_rem_final'} \subseteq Words
        <4> HIDE DEF s, t
        <4>1. QED
          BY <1>5, <2>1, <2>2, <2>5, <2>11
      <3>2. iter_sign_r' \in BOOLEAN
        BY <1>1, <2>1 DEF TypeOK
      <3>3. QED
        BY <1>8, <3>1, <3>2 DEF TypeOK
    <2>13. QED
      BY <2>7, <2>8, <2>10, <2>12 DEF IInv
  <1>11. QED
    BY <1>9, <1>10
----------------------------------------------------------------------------
\* What the instruction takes is what the ISA asks for.

\* The half word of a product is that of the product of the half words.
LEMMA LowProduct ==
    ASSUME NEW x \in Int, NEW y \in Int, NEW u \in Int, NEW v \in Int,
           low(x) = low(u), low(y) = low(v)
    PROVE  low(x * y) = low(u * v)
  <1> DEFINE L == pow2[H]
  <1>1. L \in Nat /\ L > 0
    BY Sizes
  <1> HIDE DEF L
  <1>2. ASSUME NEW a \in Int, NEW b \in Int PROVE (a * b) % L = ((a % L) * (b % L)) % L
    <2> DEFINE p == a \div L
               r == a % L
               q == b \div L
               s == b % L
    <2>1. p \in Int /\ r \in Nat /\ q \in Int /\ s \in Nat /\ a = L * p + r /\ b = L * q + s
      BY <1>1, DivMod
    <2> HIDE DEF p, r, q, s
    <2>2. a * b = r * s + L * (p * b + r * q)
      <3>1. (L * p + r) * b = L * (p * b) + r * b /\ r * (L * q + s) = L * (r * q) + r * s
            /\ L * (p * b + r * q) = L * (p * b) + L * (r * q)
        BY <1>1, <2>1
      <3>2. L * (p * b) \in Int /\ L * (r * q) \in Int /\ r * s \in Int /\ r * b \in Int
        BY <1>1, <2>1
      <3>3. a * b = L * (p * b) + r * b /\ r * b = L * (r * q) + r * s
        BY <2>1, <3>1
      <3>4. QED
        BY <3>1, <3>2, <3>3
    <2> DEFINE n == p * b + r * q
               z == r * s
    <2>3. n \in Int /\ z \in Int /\ a * b = z + L * n
      BY <2>1, <2>2
    <2> HIDE DEF n, z
    <2>4. (z + L * n) % L = z % L
      BY <1>1, <2>3, ModShift
    <2>5. QED
      BY <2>3, <2>4 DEF z, r, s
  <1>3. x % L = u % L /\ y % L = v % L
    BY DEF low, L
  <1>4. (x * y) % L = (u * v) % L
    BY <1>2, <1>3
  <1>5. QED
    BY <1>4 DEF low, L

\* The all-ones words and half words are minus one.
LEMMA MinusOne ==
    /\ word(-1) = pow2[W] - 1
    /\ low(-1) = low(pow2[H] - 1)
    /\ signed(pow2[W] - 1, W) = -1 /\ signed(pow2[H] - 1, H) = -1
    /\ signed(pow2[W - 1], W) = -pow2[W - 1] /\ signed(pow2[H - 1], H) = -pow2[H - 1]
    /\ signed(0, W) = 0 /\ signed(0, H) = 0 /\ low(0) = 0
    /\ word(pow2[W - 1]) = pow2[W - 1] /\ word(0) = 0
  <1> DEFINE M == pow2[W]
             Hf == pow2[W - 1]
             L == pow2[H]
             Lh == pow2[H - 1]
  <1>1. /\ M \in Nat /\ Hf \in Nat /\ M = 2 * Hf /\ Hf > 0 /\ L \in Nat /\ Lh \in Nat /\ Lh > 0
        /\ L = 2 * Lh
    BY Sizes
  <1>2. /\ \A x : signed(x, W) = IF x >= Hf THEN x - M ELSE x
        /\ \A x : signed(x, H) = IF x >= Lh THEN x - L ELSE x
        /\ \A x : word(x) = x % M
        /\ \A x : low(x) = x % L
    BY DEF signed, word, low
  <1> HIDE DEF M, Hf, L, Lh
  <1>3. /\ signed(M - 1, W) = -1 /\ signed(L - 1, H) = -1
        /\ signed(Hf, W) = -Hf /\ signed(Lh, H) = -Lh /\ signed(0, W) = 0 /\ signed(0, H) = 0
    <2>1. /\ M - 1 >= Hf /\ (M - 1) - M = -1 /\ L - 1 >= Lh /\ (L - 1) - L = -1
          /\ Hf >= Hf /\ Hf - M = -Hf /\ Lh >= Lh /\ Lh - L = -Lh /\ ~(0 >= Hf) /\ ~(0 >= Lh)
      BY <1>1
    <2>2. QED
      BY <1>2, <2>1
  <1>4. ASSUME NEW m \in Nat, m > 0 PROVE (-1) % m = m - 1 /\ (m - 1) % m = m - 1 /\ 0 % m = 0
    <2> DEFINE x == -1
               r == m - 1
    <2>1. x \in Int /\ r \in Nat /\ r < m /\ x = m * x + r /\ m \in Nat /\ m > 0 /\ 0 \in Nat
      BY <1>4
    <2> HIDE DEF x, r
    <2>2. x % m = r
      BY ONLY <2>1, DivModIs
    <2>3. r % m = r /\ 0 % m = 0
      BY ONLY <2>1, ModSmall
    <2>4. QED
      BY <2>2, <2>3 DEF x, r
  <1>5. word(-1) = M - 1 /\ low(-1) = L - 1 /\ low(L - 1) = L - 1 /\ low(0) = 0 /\ word(0) = 0
    BY <1>1, <1>2, <1>4
  <1>6. word(Hf) = Hf
    <2>1. Hf \in 0..(M - 1)
      BY <1>1
    <2>2. QED
      BY <2>1, WordTyped DEF Words, M
  <1>7. QED
    BY <1>3, <1>5, <1>6 DEF M, Hf, L, Lh

\* The signed overflow.
LEMMA Overflow ==
    ASSUME NEW n \in Nat, n > 0
    PROVE  quotient(-n, -1) = n /\ remainder(-n, -1) = 0
  <1>1. n \div 1 = n
    OBVIOUS
  <1>2. -n < 0 /\ -1 < 0 /\ -(-n) = n /\ -1 # 0
    OBVIOUS

  <1>3. (-1) * n = -n /\ -n - (-n) = 0
    OBVIOUS
  <1>4. -(-1) = 1
    <2> DEFINE x == 1
    <2>1. x \in Int
      OBVIOUS
    <2> HIDE DEF x
    <2>2. -(-x) = x
      BY <2>1
    <2>3. QED
      BY <2>2 DEF x
  <1>5. trunc(-n, -1) = n
    BY <1>1, <1>2, <1>4 DEF trunc
  <1>6. QED
    BY <1>2, <1>3, <1>5 DEF quotient, remainder

\* The final registers of a signed and of an unsigned division, in the terms of the ISA.
LEMMA SignedResult ==
    ASSUME TypeOK, Results, md_result_ready, instr.op \in SignedOps, OperandB # 0
    PROVE  /\ iter_quo_final = word(quotient(signed(OperandA, W), signed(OperandB, W)))
           /\ iter_rem_final = word(remainder(signed(OperandA, W), signed(OperandB, W)))
           /\ quotient(signed(OperandA, W), signed(OperandB, W)) \in Int
           /\ remainder(signed(OperandA, W), signed(OperandB, W)) \in Int
  <1>1. OperandA \in Words /\ OperandB \in Words
    BY OpTyped DEF TypeOK
  <1>2. OpA = abs(OperandA) /\ OpB = abs(OperandB)
    BY DEF OpA, OpB, OperandA, OperandB
  <1>3. instr.op \notin MulOps
    BY DEF SignedOps, MulOps
  <1> DEFINE q == OpA \div OpB
             r == OpA % OpB
  <1>4. q = abs(OperandA) \div abs(OperandB) /\ r = abs(OperandA) % abs(OperandB)
    BY <1>2
  <1> HIDE DEF q, r
  <1>5. /\ abs(OperandB) > 0
        /\ (IF msb(OperandA) # msb(OperandB) THEN neg(q) ELSE q)
               = word(quotient(signed(OperandA, W), signed(OperandB, W)))
        /\ (IF msb(OperandA) THEN neg(r) ELSE r)
               = word(remainder(signed(OperandA, W), signed(OperandB, W)))
        /\ quotient(signed(OperandA, W), signed(OperandB, W)) \in Int
        /\ remainder(signed(OperandA, W), signed(OperandB, W)) \in Int
    BY <1>1, <1>4, QuotientSign
  <1>6. OpB \in 1..pow2[W - 1]
    <2>1. abs(OperandB) \in Nat /\ abs(OperandB) <= pow2[W - 1] /\ pow2[W - 1] \in Nat
      BY <1>1, Sign, WordTyped, Sizes
    <2>2. QED
      BY <1>2, <1>5, <2>1
  <1>7. iter_quo_final = QuoFinal /\ iter_rem_final = RemFinal
    BY <1>3, <1>6 DEF Results
  <1>8. /\ QuoFinal = (IF msb(OperandA) # msb(OperandB) THEN neg(q) ELSE q)
        /\ RemFinal = (IF msb(OperandA) THEN neg(r) ELSE r)
    BY DEF QuoFinal, RemFinal, Signs, q, r
  <1>9. QED
    BY <1>5, <1>7, <1>8

\* For an unsigned one the divisor must leave the top bit to the trial subtraction.
LEMMA UnsignedResult ==
    ASSUME TypeOK, Results, md_result_ready, instr.op \in {"divu", "remu", "divuw", "remuw"},
           OperandB # 0, OperandB <= pow2[W - 1]
    PROVE  /\ iter_quo_final = quotient(OperandA, OperandB)
           /\ iter_rem_final = remainder(OperandA, OperandB)
           /\ iter_quo_final \in Words /\ iter_rem_final \in Words
  <1>1. OperandA \in Nat /\ OperandB \in Nat
    BY OpTyped DEF TypeOK
  <1>2. instr.op \notin MulOps /\ instr.op \notin SignedOps
    BY DEF SignedOps, MulOps
  <1>3. OpA = OperandA /\ OpB = OperandB
    BY <1>2 DEF OpA, OpB, OperandA, OperandB
  <1>4. OperandB > 0 /\ OpB \in 1..pow2[W - 1]
    BY <1>1, <1>3, Sizes
  <1>5. iter_quo_final = QuoFinal /\ iter_rem_final = RemFinal
    BY <1>2, <1>4 DEF Results
  <1>6. QuoFinal = OperandA \div OperandB /\ RemFinal = OperandA % OperandB
    BY <1>2, <1>3 DEF QuoFinal, RemFinal, Signs
  <1>7. /\ quotient(OperandA, OperandB) = OperandA \div OperandB
        /\ remainder(OperandA, OperandB) = OperandA % OperandB
    BY <1>1, <1>4, QuotientPlain
  <1>8. QED
    BY <1>5, <1>6, <1>7 DEF TypeOK
\* The cases: multiplications, ...
LEMMA MulRight ==
    ASSUME TypeOK, Results, md_result_ready, instr.op \in MulOps
    PROVE  alu_result(instr.op, instr.a, instr.b) = Reference(instr.op, instr.a, instr.b)
  <1> DEFINE a == instr.a
             b == instr.b
  <1>1. a \in Words /\ b \in Words /\ a \in Int /\ b \in Int
    BY WordTyped DEF TypeOK, Instr
  <1>2. iter_mul_final = word(OperandA * OperandB)
    BY DEF Results
  <1>3. CASE instr.op = "mul"
    <2>1. OperandA = a /\ OperandB = b
      BY <1>3 DEF OperandA, OperandB, operand
    <2>2. alu_result("mul", a, b) = iter_mul_final /\ Reference("mul", a, b) = word(a * b)
      BY DEF alu_result, Reference
    <2>3. QED
      BY <1>2, <1>3, <2>1, <2>2
  <1>4. CASE instr.op = "mulw"
    <2>1. OperandA = sext(a) /\ OperandB = sext(b)
      BY <1>4 DEF OperandA, OperandB, operand
    <2>2. sext(a) \in Int /\ sext(b) \in Int /\ low(sext(a)) = low(a) /\ low(sext(b)) = low(b)
      BY <1>1, Sext, WordTyped
    <2>3. low(sext(a) * sext(b)) = low(a * b)
      <3> DEFINE u == sext(a)
                 v == sext(b)
      <3>1. u \in Int /\ v \in Int /\ low(u) = low(a) /\ low(v) = low(b)
        BY <2>2
      <3> HIDE DEF u, v, a, b
      <3>2. low(u * v) = low(a * b)
        BY <1>1, <3>1, LowProduct
      <3>3. QED
        BY <3>2 DEF u, v
    <2> DEFINE z == sext(a) * sext(b)
    <2>4. z \in Int
      BY <2>2
    <2>5. iter_mul_final = word(z)
      BY <1>2, <2>1
    <2> HIDE DEF z
    <2>6. low(iter_mul_final) = low(z)
      BY <2>4, <2>5, Low
    <2>7. sext(iter_mul_final) = sext(a * b)
      BY <2>3, <2>6, SextSame DEF z
    <2>8. alu_result("mulw", a, b) = sext(iter_mul_final) /\ Reference("mulw", a, b) = sext(a * b)
      BY DEF alu_result, Reference
    <2>9. QED
      BY <1>4, <2>7, <2>8
  <1>5. QED
    BY <1>3, <1>4 DEF MulOps

\* ... signed divisions of words, ...
LEMMA DivRight ==
    ASSUME TypeOK, Results, md_result_ready, instr.op \in {"div", "rem"}
    PROVE  alu_result(instr.op, instr.a, instr.b) = Reference(instr.op, instr.a, instr.b)
  <1> DEFINE a == instr.a
             b == instr.b
             x == signed(a, W)
             y == signed(b, W)
             M == pow2[W]
             Hf == pow2[W - 1]
  <1>1. a \in Words /\ b \in Words /\ x \in Int
    BY Sign DEF TypeOK, Instr
  <1>2. OperandA = a /\ OperandB = b
    BY DEF OperandA, OperandB, operand
  <1>3. /\ alu_result("div", a, b) = (IF b = 0 THEN M - 1 ELSE IF a = Hf /\ b = M - 1 THEN a
                                     ELSE iter_quo_final)
        /\ Reference("div", a, b) = word(quotient(x, y))
        /\ alu_result("rem", a, b) = (IF b = 0 THEN a ELSE IF a = Hf /\ b = M - 1 THEN 0
                                     ELSE iter_rem_final)
        /\ Reference("rem", a, b) = word(remainder(x, y))
    BY DEF alu_result, Reference
  <1>4. CASE b = 0
    <2>1. y = 0
      BY <1>4, MinusOne
    <2>2. quotient(x, y) = -1 /\ remainder(x, y) = x
      BY <2>1 DEF quotient, remainder
    <2>3. word(-1) = M - 1 /\ word(x) = a
      BY <1>1, MinusOne, Sign
    <2> HIDE DEF x, y, M, Hf
    <2>4. QED
      BY <1>3, <1>4, <2>2, <2>3
  <1>5. CASE b # 0 /\ a = Hf /\ b = M - 1
    <2>1. x = -Hf /\ y = -1
      BY <1>5, MinusOne
    <2>2. Hf \in Nat /\ Hf > 0
      BY Sizes
    <2>3. word(Hf) = Hf /\ word(0) = 0
      BY MinusOne
    <2> HIDE DEF x, y, M, Hf
    <2>4. quotient(x, y) = Hf /\ remainder(x, y) = 0
      BY <2>1, <2>2, Overflow
    <2>5. QED
      BY <1>3, <1>5, <2>3, <2>4
  <1>6. CASE b # 0 /\ ~(a = Hf /\ b = M - 1)
    <2>1. iter_quo_final = word(quotient(x, y)) /\ iter_rem_final = word(remainder(x, y))
      <3>1. instr.op \in SignedOps /\ OperandB # 0
        BY <1>2, <1>6 DEF SignedOps
      <3>2. QED
        BY <1>2, <3>1, SignedResult
    <2> HIDE DEF x, y, M, Hf
    <2>2. QED
      BY <1>3, <1>6, <2>1
  <1>7. QED
    BY <1>4, <1>5, <1>6

\* ... and of half words, ...
LEMMA DivwRight ==
    ASSUME TypeOK, Results, md_result_ready, instr.op \in {"divw", "remw"}
    PROVE  alu_result(instr.op, instr.a, instr.b) = Reference(instr.op, instr.a, instr.b)
  <1> DEFINE a == instr.a
             b == instr.b
             x == signed(low(a), H)
             y == signed(low(b), H)
             L == pow2[H]
             Lh == pow2[H - 1]
  <1>1. a \in Words /\ b \in Words /\ a \in Int /\ b \in Int
    BY WordTyped DEF TypeOK, Instr
  <1>2. OperandA = sext(a) /\ OperandB = sext(b)
    BY DEF OperandA, OperandB, operand
  <1>3. /\ x \in Int /\ signed(OperandA, W) = x /\ signed(OperandB, W) = y
        /\ low(x) = low(a) /\ low(OperandB) = low(b)
    BY <1>1, <1>2, Sext
  <1>4. /\ alu_result("divw", a, b) = sext(IF low(b) = 0 THEN L - 1
                                           ELSE IF low(a) = Lh /\ low(b) = L - 1 THEN Lh
                                           ELSE iter_quo_final)
        /\ Reference("divw", a, b) = sext(quotient(x, y))
        /\ alu_result("remw", a, b) = sext(IF low(b) = 0 THEN a
                                           ELSE IF low(a) = Lh /\ low(b) = L - 1 THEN 0
                                           ELSE iter_rem_final)
        /\ Reference("remw", a, b) = sext(remainder(x, y))
    BY DEF alu_result, Reference
  <1>5. CASE low(b) = 0
    <2>1. y = 0
      BY <1>5, MinusOne
    <2>2. quotient(x, y) = -1 /\ remainder(x, y) = x
      BY <2>1 DEF quotient, remainder
    <2>3. sext(-1) = sext(L - 1) /\ sext(x) = sext(a)
      BY <1>3, MinusOne, SextSame
    <2> HIDE DEF x, y, L, Lh
    <2>4. QED
      BY <1>4, <1>5, <2>2, <2>3
  <1>6. CASE low(b) # 0 /\ low(a) = Lh /\ low(b) = L - 1
    <2>1. x = -Lh /\ y = -1
      BY <1>6, MinusOne
    <2>2. Lh \in Nat /\ Lh > 0
      BY Sizes
    <2> HIDE DEF x, y, L, Lh
    <2>3. quotient(x, y) = Lh /\ remainder(x, y) = 0
      BY <2>1, <2>2, Overflow
    <2>4. QED
      BY <1>4, <1>6, <2>3
  <1>7. CASE low(b) # 0 /\ ~(low(a) = Lh /\ low(b) = L - 1)
    <2>1. OperandB # 0
      BY <1>3, <1>7, MinusOne
    <2> HIDE DEF x, y, L, Lh
    <2>2. /\ iter_quo_final = word(quotient(x, y)) /\ iter_rem_final = word(remainder(x, y))
          /\ quotient(x, y) \in Int /\ remainder(x, y) \in Int
      <3>1. instr.op \in SignedOps
        BY DEF SignedOps
      <3>2. QED
        BY <1>3, <2>1, <3>1, SignedResult
    <2>3. low(iter_quo_final) = low(quotient(x, y)) /\ low(iter_rem_final) = low(remainder(x, y))
      BY <2>2, Low
    <2>4. sext(iter_quo_final) = sext(quotient(x, y))
          /\ sext(iter_rem_final) = sext(remainder(x, y))
      BY <2>3, SextSame
    <2>5. QED
      BY <1>4, <1>7, <2>4
  <1>8. QED
    BY <1>5, <1>6, <1>7

\* ... unsigned divisions of words, ...
LEMMA DivuRight ==
    ASSUME TypeOK, Results, md_result_ready, instr.op \in {"divu", "remu"},
           ~(instr.b > pow2[W - 1])
    PROVE  alu_result(instr.op, instr.a, instr.b) = Reference(instr.op, instr.a, instr.b)
  <1> DEFINE a == instr.a
             b == instr.b
             M == pow2[W]
  <1>1. a \in Words /\ b \in Words /\ b \in Nat /\ pow2[W - 1] \in Nat
    BY WordTyped, Sizes DEF TypeOK, Instr
  <1>2. OperandA = a /\ OperandB = b
    BY DEF OperandA, OperandB, operand
  <1>3. /\ alu_result("divu", a, b) = (IF b = 0 THEN M - 1 ELSE iter_quo_final)
        /\ Reference("divu", a, b) = word(quotient(a, b))
        /\ alu_result("remu", a, b) = (IF b = 0 THEN a ELSE iter_rem_final)
        /\ Reference("remu", a, b) = word(remainder(a, b))
    BY DEF alu_result, Reference
  <1>4. CASE b = 0
    <2>1. quotient(a, b) = -1 /\ remainder(a, b) = a
      BY <1>4 DEF quotient, remainder
    <2>2. word(-1) = M - 1 /\ word(a) = a
      BY <1>1, MinusOne, WordTyped
    <2> HIDE DEF M
    <2>3. QED
      BY <1>3, <1>4, <2>1, <2>2
  <1>5. CASE b # 0
    <2>1. OperandB # 0 /\ OperandB <= pow2[W - 1]
      BY <1>1, <1>2, <1>5
    <2>2. /\ iter_quo_final = quotient(a, b) /\ iter_rem_final = remainder(a, b)
          /\ iter_quo_final \in Words /\ iter_rem_final \in Words
      <3>1. instr.op \in {"divu", "remu", "divuw", "remuw"}
        OBVIOUS
      <3>2. QED
        BY <1>2, <2>1, <3>1, UnsignedResult
    <2>3. word(iter_quo_final) = iter_quo_final /\ word(iter_rem_final) = iter_rem_final
      BY <2>2, WordTyped
    <2>4. QED
      BY <1>3, <1>5, <2>2, <2>3
  <1>6. QED
    BY <1>4, <1>5

\* ... and of half words, which always leave it.
LEMMA DivuwRight ==
    ASSUME TypeOK, Results, md_result_ready, instr.op \in {"divuw", "remuw"}
    PROVE  alu_result(instr.op, instr.a, instr.b) = Reference(instr.op, instr.a, instr.b)
  <1> DEFINE a == instr.a
             b == instr.b
             L == pow2[H]
  <1>1. /\ a \in Words /\ b \in Words /\ low(a) \in Nat /\ low(b) \in Nat /\ low(b) < L
        /\ low(a) < L /\ L \in Nat /\ pow2[W - 1] \in Nat /\ L <= pow2[W - 1]
    BY WordTyped, Low, Sizes DEF TypeOK, Instr
  <1>2. OperandA = low(a) /\ OperandB = low(b)
    BY DEF OperandA, OperandB, operand
  <1>3. /\ alu_result("divuw", a, b) = sext(IF low(b) = 0 THEN L - 1 ELSE iter_quo_final)
        /\ Reference("divuw", a, b) = sext(quotient(low(a), low(b)))
        /\ alu_result("remuw", a, b) = sext(IF low(b) = 0 THEN a ELSE iter_rem_final)
        /\ Reference("remuw", a, b) = sext(remainder(low(a), low(b)))
    BY DEF alu_result, Reference
  <1>4. CASE low(b) = 0
    <2>1. quotient(low(a), low(b)) = -1 /\ remainder(low(a), low(b)) = low(a)
      BY <1>4 DEF quotient, remainder
    <2>2. low(low(a)) = low(a)
      BY <1>1, Low
    <2>3. sext(-1) = sext(L - 1) /\ sext(low(a)) = sext(a)
      BY <2>2, MinusOne, SextSame
    <2> HIDE DEF L
    <2>4. QED
      BY <1>3, <1>4, <2>1, <2>3
  <1>5. CASE low(b) # 0
    <2>1. OperandB # 0 /\ OperandB <= pow2[W - 1]
      <3> HIDE DEF L
      <3>1. QED
        BY <1>1, <1>2, <1>5
    <2>2. /\ iter_quo_final = quotient(low(a), low(b))
          /\ iter_rem_final = remainder(low(a), low(b))
      <3>1. instr.op \in {"divu", "remu", "divuw", "remuw"}
        OBVIOUS
      <3>2. QED
        BY <1>2, <2>1, <3>1, UnsignedResult
    <2>3. QED
      BY <1>3, <1>5, <2>2
  <1>6. QED
    BY <1>4, <1>5

----------------------------------------------------------------------------
\* The theorems.

\* The invariant holds in every state of every behaviour.
LEMMA Invariance == Spec => []IInv
  <1>1. Init => IInv
    <2>1. SUFFICES ASSUME Init PROVE IInv
      OBVIOUS
    <2>2. 0 \in Words /\ 0 \in 0..W
      BY Sizes, WAssumption DEF Words
    <2>3. instr \in Instr
      BY <2>1, <2>2 DEF Init, Instr, Ops
    <2>4. TypeOK
      BY <2>1, <2>2, <2>3 DEF Init, TypeOK
    <2>5. QED
      BY <2>1, <2>4 DEF Init, IInv, Working, ProductInvariant, Dividing, Results
  <1>2. IInv /\ [Next]_mdVars => IInv'
    <2>1. SUFFICES ASSUME IInv, [Next]_mdVars PROVE IInv'
      OBVIOUS
    <2>2. ASSUME NEW i \in (IF starts = 0 THEN Instr ELSE Probes), Start(i) PROVE IInv'
      <3>1. i \in Instr
        BY ProbesAssumption
      <3>2. QED
        BY <2>1, <2>2, <3>1, StartStep DEF IInv
    <2>3. CASE Iterate
      BY <2>1, <2>3, IterateStep
    <2>4. CASE Take
      <3>1. /\ UNCHANGED <<md_busy, md_count, iter_is_mul, iter_acc, iter_quo, iter_divisor,
                           iter_sign_r, iter_op_a, iter_op_b, iter_sign_q, iter_mul_final,
                           iter_quo_final, iter_rem_final, instr>>
            /\ md_result_ready' = FALSE
        BY <2>4 DEF Take, divVars, finals
      <3>2. TypeOK'
        BY <2>1, <3>1 DEF IInv, TypeOK
      <3>3. Working' /\ ProductInvariant' /\ Dividing' /\ Results'
        BY <2>1, <3>1 DEF IInv, Working, ProductInvariant, Dividing, Results, OpA, OpB, OperandA,
                          OperandB, Signs
      <3>4. QED
        BY <3>2, <3>3 DEF IInv
    <2>5. CASE UNCHANGED mdVars
      <3>1. UNCHANGED <<md_busy, md_result_ready, md_count, iter_is_mul, iter_acc, iter_quo,
                        iter_divisor, iter_sign_r, iter_op_a, iter_op_b, iter_sign_q,
                        iter_mul_final, iter_quo_final, iter_rem_final, instr>>
        BY <2>5 DEF mdVars, divVars, finals
      <3>2. TypeOK'
        BY <2>1, <3>1 DEF IInv, TypeOK
      <3>3. Working' /\ ProductInvariant' /\ Dividing'
        BY <2>1, <3>1 DEF IInv, Working, ProductInvariant, Dividing, OpA, OpB, OperandA,
                          OperandB, Signs
      <3>4. Results'
        BY <2>1, <3>1 DEF IInv, Results, QuoFinal, RemFinal, OpA, OpB, OperandA, OperandB, Signs
      <3>5. QED
        BY <3>2, <3>3, <3>4 DEF IInv
    <2>6. QED
      BY <2>1, <2>2, <2>3, <2>4, <2>5 DEF Next
  <1>3. QED
    BY <1>1, <1>2, PTL DEF Spec

\* execute.sv:207-281: every register of the unit holds a word, and the counter never
\* passes below zero.
THEOREM UnitTyped == Spec => []TypeOK
  <1>1. IInv => TypeOK
    BY DEF IInv
  <1>2. QED
    BY <1>1, Invariance, PTL

\* execute.sv:261: shift and add computes the product of the operands, for every width.
THEOREM Multiplies == Spec => []ProductInvariant
  <1>1. IInv => ProductInvariant
    BY DEF IInv
  <1>2. QED
    BY <1>1, Invariance, PTL

\* execute.sv:263-268: restoring division accounts for every bit of the dividend it has
\* consumed, for every width and every divisor up to pow2[W - 1].
THEOREM Divides == Spec => []DivisionInvariant
  <1>1. IInv => DivisionInvariant
    <2>1. SUFFICES ASSUME IInv, md_busy, ~iter_is_mul, OpB \in 1..pow2[W - 1]
                   PROVE  /\ iter_quo * OpB + iter_acc = OpA \div pow2[md_count]
                          /\ iter_acc < OpB
                          /\ iter_op_a = word(OpA * pow2[W - md_count])
      BY DEF DivisionInvariant
    <2>2. /\ iter_quo * OpB + iter_acc = OpA \div pow2[md_count] /\ iter_acc < OpB
          /\ iter_op_a = (OpA % pow2[md_count]) * pow2[W - md_count]
      BY <2>1 DEF IInv, Dividing
    <2> DEFINE p == pow2[md_count]
               c == pow2[W - md_count]
               M == pow2[W]
               Q == OpA \div p
               R == OpA % p
    <2>3. md_count \in 0..W /\ W - md_count \in 0..W /\ OpA \in Nat /\ iter_op_a \in Words
      BY <2>1, OpTyped, WAssumption DEF IInv, TypeOK
    <2>4. p \in Nat /\ p > 0 /\ c \in Nat /\ c * p = M /\ M \in Nat
      BY <2>3, Pow, PowSum, Sizes
    <2>5. Q \in Int /\ R \in Nat /\ OpA = p * Q + R
      <3>1. OpA \in Int
        BY <2>3
      <3> HIDE DEF p
      <3>2. QED
        BY <2>4, <3>1, DivMod
    <2> DEFINE u == OpA * c
               v == R * c
    <2> HIDE DEF p, c, M, Q, R
    <2>6. u = v + M * Q
      <3>1. (p * Q + R) * c = R * c + (c * p) * Q
        BY <2>4, <2>5
      <3>2. QED
        BY <2>4, <2>5, <3>1
    <2>7. u \in Int /\ v \in Int
      BY <2>3, <2>4, <2>5
    <2> HIDE DEF u, v
    <2>8. word(u) = word(v)
      BY <2>5, <2>6, <2>7, SameWord DEF M
    <2>9. v = iter_op_a /\ word(v) = v
      BY <2>2, <2>3, WordTyped DEF v, R, p, c
    <2>10. QED
      BY <2>2, <2>8, <2>9 DEF u, c, p
  <1>2. QED
    BY <1>1, Invariance, PTL

\* execute.sv:125-134, README 8.3: every instruction takes the result the ISA defines, for
\* every even width, all operands and whatever the unit did before, except an unsigned
\* division by a divisor above pow2[W - 1] (finding muldiv_unsigned).
THEOREM RightResult == Spec => []ResultRight
  <1>1. IInv => ResultRight
    <2>1. SUFFICES ASSUME IInv, md_result_ready,
                          ~(instr.op \in {"divu", "remu"} /\ instr.b > pow2[W - 1])
                   PROVE  alu_result(instr.op, instr.a, instr.b)
                             = Reference(instr.op, instr.a, instr.b)
      BY DEF ResultRight
    <2>2. TypeOK /\ Results
      BY <2>1 DEF IInv
    <2>3. instr.op \in Ops
      BY <2>2 DEF TypeOK, Instr
    <2>4. CASE instr.op \in MulOps
      BY <2>1, <2>2, <2>4, MulRight
    <2>5. CASE instr.op \in {"div", "rem"}
      BY <2>1, <2>2, <2>5, DivRight
    <2>6. CASE instr.op \in {"divw", "remw"}
      BY <2>1, <2>2, <2>6, DivwRight
    <2>7. CASE instr.op \in {"divu", "remu"}
      BY <2>1, <2>2, <2>7, DivuRight
    <2>8. CASE instr.op \in {"divuw", "remuw"}
      BY <2>1, <2>2, <2>8, DivuwRight
    <2>9. QED
      BY <2>3, <2>4, <2>5, <2>6, <2>7, <2>8 DEF Ops, MulOps
  <1>2. QED
    BY <1>1, Invariance, PTL
=============================================================================
