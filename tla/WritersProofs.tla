---------------------------- MODULE WritersProofs ---------------------------
(***************************************************************************)
(* Theorems about Writers.tla.                                             *)
(***************************************************************************)
EXTENDS Writers, DataLemmas, FiniteSetTheorems

-----------------------------------------------------------------------------
(* Remainders.                                                             *)

LEMMA Product == ASSUME NEW a \in Nat, NEW b \in Nat PROVE a * b \in Nat
OBVIOUS

LEMMA Division ==
    ASSUME NEW m \in Nat \ {0}, NEW a \in Nat
    PROVE  \E q \in Nat, r \in 0 .. m - 1 : a = m * q + r /\ a % m = r /\ a \div m = q
<1>1. a \div m \in Nat /\ a % m \in 0 .. m - 1
  OBVIOUS
<1>2. a % m = a - m * (a \div m)
  OBVIOUS
<1>3. PICK q \in Nat, r \in 0 .. m - 1 : q = a \div m /\ r = a % m
  BY <1>1
<1>4. m * q \in Nat /\ r = a - m * q
  BY <1>2, <1>3
<1>5. a = m * q + r
  BY <1>4
<1> QED
  BY <1>3, <1>5

LEMMA Quotient ==
    ASSUME NEW m \in Nat \ {0}, NEW a \in Nat, NEW q \in Nat, NEW r \in 0 .. m - 1, a = m * q + r
    PROVE  a % m = r /\ a \div m = q
OBVIOUS

LEMMA ModShift ==
    ASSUME NEW m \in Nat \ {0}, NEW a \in Nat, NEW k \in Nat
    PROVE  (m * k + a) % m = a % m
<1>1. PICK q \in Nat, r \in 0 .. m - 1 : a = m * q + r /\ a % m = r
  BY Division
<1>2. k + q \in Nat /\ m * k \in Nat /\ m * q \in Nat /\ m * (k + q) = m * k + m * q
  OBVIOUS
<1>3. m * k + a = m * (k + q) + r /\ m * k + a \in Nat
  BY <1>1, <1>2
<1>4. (m * k + a) % m = r
  BY <1>2, <1>3, Quotient
<1> QED
  BY <1>1, <1>4

(* A remainder may be taken before a product and a sum. *)
Linear(m, a, b, c) == ((a % m) * b + c) % m = (a * b + c) % m

LEMMA ModLinear ==
    ASSUME NEW m \in Nat \ {0}, NEW a \in Nat, NEW b \in Nat, NEW c \in Nat
    PROVE  Linear(m, a, b, c)
<1>1. PICK q \in Nat, r \in 0 .. m - 1 : a = m * q + r /\ a % m = r
  BY Division
<1>2. PICK k \in Nat : k = q * b
  OBVIOUS
<1>3. PICK p \in Nat : p = r * b
  OBVIOUS
<1>4. a * b = m * k + p
  BY <1>1, <1>2, <1>3
<1>5. m * k \in Nat /\ p + c \in Nat
  OBVIOUS
<1>6. a * b + c = m * k + (p + c)
  BY <1>4, <1>5
<1>7. (m * k + (p + c)) % m = (p + c) % m
  BY <1>5, ModShift
<1> QED
  BY <1>1, <1>3, <1>6, <1>7 DEF Linear

LEMMA ModSum ==
    ASSUME NEW m \in Nat \ {0}, NEW a \in Nat, NEW c \in Nat
    PROVE  (c + (a % m)) % m = (c + a) % m
<1>1. PICK q \in Nat, r \in 0 .. m - 1 : a = m * q + r /\ a % m = r
  BY Division
<1>2. m * q \in Nat /\ c + r \in Nat /\ c + a = m * q + (c + r)
  BY <1>1
<1>3. (m * q + (c + r)) % m = (c + r) % m
  BY <1>2, ModShift
<1> QED
  BY <1>1, <1>2, <1>3
-----------------------------------------------------------------------------
(* Checksums.                                                              *)

Residues == 0 .. CrcMod - 1

LEMMA SumsDefined ==
    ASSUME NEW from \in Nat, NEW n \in Nat
    PROVE  /\ Sums(from, n)[0] = 0
           /\ \A k \in 1 .. n : Sums(from, n)[k] = (Sums(from, n)[k - 1] * CrcBase + from + k) % CrcMod
           /\ \A k \in 0 .. n : Sums(from, n)[k] \in Residues
<1> DEFINE step == [p \in (1 .. n) \X Residues |-> (p[2] * CrcBase + from + p[1]) % CrcMod]
           Solves(f) == f = [k \in 0 .. n |-> IF k = 0 THEN 0 ELSE (f[k - 1] * CrcBase + from + k) % CrcMod]
<1>1. CrcBase \in Nat /\ CrcMod \in Nat \ {0} /\ 0 \in Residues
  BY ChecksumAssumption DEF Residues
<1>2. ASSUME NEW r \in Nat, NEW k \in 1 .. n
      PROVE  (r * CrcBase + from + k) % CrcMod \in Residues
  <2>1. PICK p \in Nat : p = r * CrcBase
    BY <1>1, Product
  <2>2. p + from + k \in Nat
    OBVIOUS
  <2> QED
    BY <1>1, <2>1, <2>2, Division DEF Residues
<1>3. step \in Steps(n, Residues)
  <2>1. \A r \in Residues : r \in Nat
    BY <1>1 DEF Residues
  <2> QED
    BY <1>2, <2>1 DEF Steps
<1>4. PICK f \in [0 .. n -> Residues] : f[0] = 0 /\ \A k \in 1 .. n : f[k] = step[<<k, f[k - 1]>>]
  <2> HIDE DEF step
  <2> QED
    BY <1>1, <1>3, Recursion
<1>5. Solves(f)
  <2>1. ASSUME NEW k \in 1 .. n
        PROVE  step[<<k, f[k - 1]>>] = (f[k - 1] * CrcBase + from + k) % CrcMod
    <3>1. k - 1 \in 0 .. n
      OBVIOUS
    <3>2. f[k - 1] \in Residues
      BY <3>1
    <3> QED
      BY <3>1, <3>2
  <2>2. ASSUME NEW k \in 0 .. n
        PROVE  f[k] = IF k = 0 THEN 0 ELSE (f[k - 1] * CrcBase + from + k) % CrcMod
    <3>1. CASE k = 0
      BY <1>4, <3>1
    <3>2. CASE k # 0
      <4>1. k \in 1 .. n
        BY <3>2
      <4> HIDE DEF step
      <4> QED
        BY <1>4, <2>1, <3>2, <4>1
    <3> QED
      BY <3>1, <3>2
  <2> QED
    BY <2>2
<1>6. Solves(Sums(from, n))
  BY <1>5 DEF Sums
<1> DEFINE g == Sums(from, n)
<1> HIDE DEF g
<1>7. g[0] = 0 /\ \A k \in 1 .. n : g[k] = (g[k - 1] * CrcBase + from + k) % CrcMod
  BY <1>6 DEF g
<1> DEFINE T == {k \in 0 .. n : g[k] \in Residues}
<1>8. 0 \in T
  BY <1>1, <1>7
<1>9. ASSUME NEW k \in 1 .. n, k - 1 \in T PROVE k \in T
  <2>1. g[k - 1] \in Nat
    BY <1>1, <1>9 DEF Residues
  <2> QED
    BY <1>2, <1>7, <2>1
<1>10. \A k \in 0 .. n : k \in T
  <2> HIDE DEF T
  <2> QED
    BY <1>8, <1>9, IntervalInduction
<1> QED
  BY <1>7, <1>10 DEF g

LEMMA PowersDefined ==
    ASSUME NEW n \in Nat
    PROVE  /\ Powers(n)[0] = 1
           /\ \A k \in 1 .. n : Powers(n)[k] = (CrcBase * Powers(n)[k - 1]) % CrcMod
           /\ \A k \in 0 .. n : Powers(n)[k] \in Nat
<1> DEFINE V == Nat
           step == [p \in (1 .. n) \X Nat |-> (CrcBase * p[2]) % CrcMod]
           Solves(f) == f = [k \in 0 .. n |-> IF k = 0 THEN 1 ELSE (CrcBase * f[k - 1]) % CrcMod]
<1>1. CrcBase \in Nat /\ CrcMod \in Nat \ {0}
  BY ChecksumAssumption
<1>2. \A r \in Nat : (CrcBase * r) % CrcMod \in Nat
  <2> SUFFICES ASSUME NEW r \in Nat PROVE (CrcBase * r) % CrcMod \in Nat
    OBVIOUS
  <2>1. CrcBase * r \in Nat
    BY <1>1, Product
  <2> QED
    BY <1>1, <2>1, Division
<1>3. step \in Steps(n, V) /\ 1 \in V
  BY <1>2 DEF Steps
<1>4. PICK f \in [0 .. n -> V] : f[0] = 1 /\ \A k \in 1 .. n : f[k] = step[<<k, f[k - 1]>>]
  <2> HIDE DEF step, V
  <2> QED
    BY <1>3, Recursion
<1>5. Solves(f)
  <2>1. ASSUME NEW k \in 1 .. n
        PROVE  step[<<k, f[k - 1]>>] = (CrcBase * f[k - 1]) % CrcMod
    <3>1. k - 1 \in 0 .. n
      OBVIOUS
    <3> QED
      BY <3>1
  <2>2. ASSUME NEW k \in 0 .. n
        PROVE  f[k] = IF k = 0 THEN 1 ELSE (CrcBase * f[k - 1]) % CrcMod
    <3>1. CASE k = 0
      BY <1>4, <3>1
    <3>2. CASE k # 0
      <4>1. k \in 1 .. n
        BY <3>2
      <4> HIDE DEF step
      <4> QED
        BY <1>4, <2>1, <3>2, <4>1
    <3> QED
      BY <3>1, <3>2
  <2> QED
    BY <2>2
<1>6. Solves(Powers(n))
  BY <1>5 DEF Powers
<1> DEFINE g == Powers(n)
<1> HIDE DEF g
<1>7. g[0] = 1 /\ \A k \in 1 .. n : g[k] = (CrcBase * g[k - 1]) % CrcMod
  BY <1>6 DEF g
<1> DEFINE T == {k \in 0 .. n : g[k] \in Nat}
<1>8. 0 \in T
  BY <1>7
<1>9. ASSUME NEW k \in 1 .. n, k - 1 \in T PROVE k \in T
  <2>1. g[k - 1] \in Nat /\ g[k] = (CrcBase * g[k - 1]) % CrcMod
    BY <1>7, <1>9
  <2>2. g[k] \in Nat
    BY <1>2, <2>1
  <2> QED
    BY <2>2
<1>10. \A k \in 0 .. n : k \in T
  <2> HIDE DEF T
  <2> QED
    BY <1>8, <1>9, IntervalInduction
<1> QED
  BY <1>7, <1>10 DEF g

(* Fewer checksums of the same stretch are the first of more. *)
LEMMA ChecksumGrows ==
    ASSUME NEW from \in Nat, NEW n \in Nat
    PROVE  /\ Checksum(from, from) = 0
           /\ Checksum(from, from + n) \in Residues
           /\ Checksum(from, from + n + 1) = (Checksum(from, from + n) * CrcBase + from + n + 1) % CrcMod
<1> DEFINE f == Sums(from, n)
           g == Sums(from, n + 1)
           T == {k \in 0 .. n : f[k] = g[k]}
<1>1. n + 1 \in Nat
  OBVIOUS
<1>2. /\ f[0] = 0 /\ g[0] = 0 /\ f[n] \in Residues
      /\ \A k \in 1 .. n : f[k] = (f[k - 1] * CrcBase + from + k) % CrcMod
      /\ \A k \in 1 .. n + 1 : g[k] = (g[k - 1] * CrcBase + from + k) % CrcMod
  BY <1>1, SumsDefined
<1> HIDE DEF f, g
<1>3. 0 \in T
  BY <1>2
<1>4. ASSUME NEW k \in 1 .. n, k - 1 \in T PROVE k \in T
  <2>1. k \in 1 .. n + 1 /\ f[k - 1] = g[k - 1] /\ k \in 0 .. n
    BY <1>4
  <2>2. f[k] = g[k]
    BY <1>2, <2>1
  <2> QED
    BY <2>1, <2>2
<1>5. \A k \in 0 .. n : k \in T
  <2> HIDE DEF T
  <2> QED
    BY <1>3, <1>4, IntervalInduction
<1>6. f[n] = g[n] /\ g[n + 1] = (g[n] * CrcBase + from + (n + 1)) % CrcMod
  <2>1. n \in T
    <3> HIDE DEF T
    <3> QED
      BY <1>5
  <2>2. n + 1 \in 1 .. n + 1 /\ n + 1 - 1 = n
    OBVIOUS
  <2> QED
    BY <1>2, <2>1, <2>2
<1>7. Checksum(from, from + n) = f[n]
  <2>1. from + n - from = n
    OBVIOUS
  <2> QED
    BY <2>1 DEF Checksum, f
<1>8. Checksum(from, from + n + 1) = g[n + 1]
  <2>1. from + n + 1 - from = n + 1
    OBVIOUS
  <2> QED
    BY <2>1 DEF Checksum, g
<1>9. Checksum(from, from) = 0
  <2>1. from - from = 0 /\ 0 \in Nat
    OBVIOUS
  <2>2. Sums(from, 0)[0] = 0
    BY SumsDefined
  <2> QED
    BY <2>1, <2>2 DEF Checksum
<1>10. Checksum(from, from + n + 1) = (Checksum(from, from + n) * CrcBase + from + (n + 1)) % CrcMod
  BY <1>6, <1>7, <1>8
<1>11. PICK p \in Nat : p = Checksum(from, from + n) * CrcBase
  <2>1. Checksum(from, from + n) \in Nat /\ CrcBase \in Nat
    BY <1>2, <1>7, ChecksumAssumption DEF Residues
  <2> QED
    BY <2>1, Product
<1>12. p + from + (n + 1) = p + from + n + 1
  OBVIOUS
<1> QED
  BY <1>2, <1>7, <1>9, <1>10, <1>11, <1>12

LEMMA WholeGrows ==
    ASSUME NEW n \in Nat
    PROVE  /\ Checksum(0, n) \in Residues
           /\ Checksum(0, n + 1) = (Checksum(0, n) * CrcBase + n + 1) % CrcMod
<1>1. 0 \in Nat /\ 0 + n = n /\ 0 + n + 1 = n + 1
  OBVIOUS
<1>2. /\ Checksum(0, n) \in Residues
      /\ Checksum(0, n + 1) = (Checksum(0, n) * CrcBase + 0 + n + 1) % CrcMod
  BY <1>1, ChecksumGrows
<1>3. PICK p \in Nat : p = Checksum(0, n) * CrcBase
  BY <1>2, ChecksumAssumption, Product DEF Residues
<1>4. p + 0 + n + 1 = p + n + 1
  OBVIOUS
<1> QED
  BY <1>2, <1>3, <1>4

Power(n) == Powers(n)[n]

LEMMA PowerGrows ==
    ASSUME NEW n \in Nat
    PROVE  Power(0) = 1 /\ Power(n) \in Nat /\ Power(n + 1) = (CrcBase * Power(n)) % CrcMod
<1> DEFINE f == Powers(n)
           g == Powers(n + 1)
           T == {k \in 0 .. n : f[k] = g[k]}
<1>1. n + 1 \in Nat
  OBVIOUS
<1>2. /\ f[0] = 1 /\ g[0] = 1 /\ f[n] \in Nat
      /\ \A k \in 1 .. n : f[k] = (CrcBase * f[k - 1]) % CrcMod
      /\ \A k \in 1 .. n + 1 : g[k] = (CrcBase * g[k - 1]) % CrcMod
  BY <1>1, PowersDefined
<1> HIDE DEF f, g
<1>3. 0 \in T
  BY <1>2
<1>4. ASSUME NEW k \in 1 .. n, k - 1 \in T PROVE k \in T
  <2>1. k \in 1 .. n + 1 /\ f[k - 1] = g[k - 1] /\ k \in 0 .. n
    BY <1>4
  <2>2. f[k] = g[k]
    BY <1>2, <2>1
  <2> QED
    BY <2>1, <2>2
<1>5. \A k \in 0 .. n : k \in T
  <2> HIDE DEF T
  <2> QED
    BY <1>3, <1>4, IntervalInduction
<1>6. f[n] = g[n] /\ g[n + 1] = (CrcBase * g[n]) % CrcMod
  <2>1. n \in T
    <3> HIDE DEF T
    <3> QED
      BY <1>5
  <2>2. n + 1 \in 1 .. n + 1 /\ n + 1 - 1 = n
    OBVIOUS
  <2> QED
    BY <1>2, <2>1, <2>2
<1>7. Power(0) = 1
  BY PowersDefined DEF Power
<1> QED
  BY <1>2, <1>6, <1>7 DEF Power, f, g

LEMMA Rearranged ==
    ASSUME NEW B \in Nat, NEW C \in Nat, NEW P \in Nat, NEW D \in Nat, NEW c \in Nat
    PROVE  (C * P + D) * B + c = (B * P) * C + (D * B + c)
<1>1. PICK x \in Nat : x = C * P
  BY Product
<1>2. PICK y \in Nat : y = x * B
  BY Product
<1>3. PICK z \in Nat : z = D * B
  BY Product
<1>4. y = (B * P) * C
  BY <1>1, <1>2
<1>5. (x + D) * B = y + z
  BY <1>2, <1>3
<1>6. y + z + c = y + (z + c)
  OBVIOUS
<1> QED
  BY <1>1, <1>3, <1>4, <1>5, <1>6

Grows(M, B, C, P, D, c) ==
    (((C * P + D) % M) * B + c) % M = (C * ((B * P) % M) + ((D * B + c) % M)) % M

LEMMA CombineGrows ==
    ASSUME NEW M \in Nat \ {0}, NEW B \in Nat, NEW C \in Nat, NEW P \in Nat, NEW D \in Nat, NEW c \in Nat
    PROVE  Grows(M, B, C, P, D, c)
<1>1. PICK u \in Nat : u = C * P + D
  BY Product
<1>2. PICK v \in Nat : v = B * P
  BY Product
<1>3. PICK w \in Nat : w = D * B + c
  BY Product
<1>4. PICK r \in Nat : r = v % M
  BY Division
<1>5. PICK z \in Nat : z = C * r
  BY Product
<1>6. PICK y \in Nat : y = v * C
  BY Product
<1>7. ((u % M) * B + c) % M = (u * B + c) % M
  <2>1. Linear(M, u, B, c)
    BY ModLinear
  <2> QED
    BY <2>1 DEF Linear
<1>8. (z + (w % M)) % M = (z + w) % M
  BY ModSum
<1>9. ((v % M) * C + w) % M = (v * C + w) % M
  <2>1. Linear(M, v, C, w)
    BY ModLinear
  <2> QED
    BY <2>1 DEF Linear
<1>10. u * B + c = v * C + w
  BY <1>1, <1>2, <1>3, Rearranged
<1>11. (v % M) * C + w = z + w
  BY <1>4, <1>5
<1>12. ((u % M) * B + c) % M = (C * (v % M) + (w % M)) % M
  BY <1>4, <1>5, <1>7, <1>8, <1>9, <1>10, <1>11, Zenon
<1> QED
  BY <1>1, <1>2, <1>3, <1>12, Zenon DEF Grows

(* zlib's crc32_combine: the checksum of a whole is that of its parts.     *)
LEMMA Concatenation ==
    ASSUME NEW a \in Nat, NEW n \in Nat
    PROVE  Checksum(0, a + n) = Combine(Checksum(0, a), Checksum(a, a + n), n)
<1> DEFINE B == CrcBase
           M == CrcMod
           C == Checksum(0, a)
           X(k) == Checksum(0, a + k)
           D(k) == Checksum(a, a + k)
           T == {k \in 0 .. n : X(k) = (C * Power(k) + D(k)) % M}
<1>1. B \in Nat /\ M \in Nat \ {0}
  BY ChecksumAssumption
<1>2. C \in Residues /\ C \in Nat
  <2>2. C \in Residues
    BY WholeGrows
  <2> QED
    BY <1>1, <2>2 DEF Residues
<1>3. 0 \in T
  <2>1. X(0) = C /\ D(0) = 0 /\ Power(0) = 1
    <3>1. a + 0 = a /\ 0 \in Nat
      OBVIOUS
    <3> QED
      BY <3>1, ChecksumGrows, PowerGrows
  <2>2. (C * 1 + 0) % M = C
    <3>1. C * 1 + 0 = C
      BY <1>2
    <3>2. C % M = C
      <4> HIDE DEF B, M, C
      <4> QED
        BY <1>1, <1>2 DEF Residues, M
    <3> QED
      BY <3>1, <3>2
  <2> QED
    BY <2>1, <2>2
<1>4. ASSUME NEW k \in 1 .. n, k - 1 \in T PROVE k \in T
  <2>1. PICK j \in Nat : k = j + 1 /\ j = k - 1
    OBVIOUS
  <2> DEFINE c == a + j + 1
             P == Power(j)
             d == D(j)
  <2>2. /\ a + j \in Nat /\ c \in Nat /\ (a + j) + 1 = c /\ a + k = c
    BY <2>1
  <2>3. X(k) = (X(j) * B + (a + j) + 1) % M
    <3>1. Checksum(0, (a + j) + 1) = (Checksum(0, a + j) * CrcBase + (a + j) + 1) % CrcMod
      BY <2>2, WholeGrows
    <3> QED
      BY <2>2, <3>1
  <2>4. D(k) = (d * B + a + j + 1) % M /\ d \in Residues
    BY <2>1, <2>2, ChecksumGrows
  <2>5. Power(k) = (B * P) % M /\ P \in Nat
    BY <2>1, PowerGrows
  <2>6. X(j) = (C * P + d) % M
    BY <1>4, <2>1
  <2>7. d \in Nat
    BY <1>1, <2>4 DEF Residues
  <2> HIDE DEF B, M, C, X, D, P, d, c
  <2>8. PICK x \in Nat : x = X(j)
    <3>1. C * P \in Nat
      BY <1>2, <2>5, Product
    <3> QED
      BY <1>1, <2>6, <2>7, <3>1, Division
  <2>9. X(k) = (X(j) * B + c) % M
    <3>1. PICK y \in Nat : y = x * B
      BY <1>1, Product
    <3>2. y + (a + j) + 1 = y + c
      BY <2>2 DEF c
    <3> QED
      BY <2>3, <2>8, <3>1, <3>2
  <2>10. D(k) = (d * B + c) % M
    <3>1. PICK y \in Nat : y = d * B
      BY <1>1, <2>7, Product
    <3>2. y + a + j + 1 = y + c
      BY <2>2 DEF c
    <3> QED
      BY <2>4, <3>1, <3>2
  <2>17. X(k) = (C * Power(k) + D(k)) % M
    <3>1. Grows(M, B, C, P, d, c)
      BY <1>1, <1>2, <2>2, <2>5, <2>7, CombineGrows
    <3> QED
      <4>1. X(k) = (((C * P + d) % M) * B + c) % M
        BY <2>6, <2>9
      <4>2. C * Power(k) + D(k) = C * ((B * P) % M) + ((d * B + c) % M)
        BY <2>5, <2>10
      <4>3. (((C * P + d) % M) * B + c) % M = (C * ((B * P) % M) + ((d * B + c) % M)) % M
        BY <3>1 DEF Grows
      <4> QED
        BY <4>1, <4>2, <4>3, Zenon
  <2>18. k \in 0 .. n
    OBVIOUS
  <2> QED
    BY <2>17, <2>18
<1>5. n \in T
  <2> HIDE DEF T
  <2>1. \A k \in 0 .. n : k \in T
    BY <1>3, <1>4, IntervalInduction
  <2> QED
    BY <2>1
<1> QED
  BY <1>5 DEF Combine, Power

-----------------------------------------------------------------------------
(* The split of a file into blocks.                                        *)

Least(a, b) == IF a <= b THEN a ELSE b

SplitTyped == total \in Totals /\ block_bytes \in 1 .. W64 - 1

LEMMA Remainder ==
    ASSUME NEW m \in Nat \ {0}, NEW a \in Int
    PROVE  a % m \in 0 .. m - 1
OBVIOUS

LEMMA Unwrapped ==
    ASSUME NEW m \in Nat \ {0}, NEW a \in 0 .. m - 1
    PROVE  a % m = a
OBVIOUS

(* Nothing wraps below BlockCount, if the file fits.                       *)
LEMMA BlocksCover ==
    ASSUME SplitTyped, Fits
    PROVE  /\ BlockCount \in Nat \ {0}
           /\ total <= BlockCount * block_bytes
           /\ total > 0 => (BlockCount - 1) * block_bytes < total
           /\ total = 0 => BlockCount = 1
<1>1. total \in 0 .. W64 - 1 /\ block_bytes \in 1 .. W64 - 1 /\ W64 \in Nat \ {0} /\ W32 \in Nat \ {0}
  BY InputAssumption, WidthAssumption DEF SplitTyped
<1>2. CASE total = 0
  <2>1. BlockCount = 1
    BY <1>2 DEF BlockCount
  <2> QED
    BY <1>1, <1>2, <2>1
<1>3. CASE total > 0
  <2>1. PICK a \in Nat : a = total + block_bytes - 1 /\ a < W64
    BY <1>1 DEF Fits
  <2>2. block_bytes \in Nat \ {0}
    BY <1>1
  <2>3. PICK q \in Nat, r \in 0 .. block_bytes - 1 : a = block_bytes * q + r /\ a \div block_bytes = q
    BY <2>2, Division
  <2>4. a % W64 = a
    <3>1. a \in 0 .. W64 - 1
      BY <1>1, <2>1
    <3> QED
      BY <1>1, <3>1, Unwrapped
  <2>5. q < W32
    BY <2>1, <2>3 DEF Fits
  <2>6. q % W32 = q
    <3>1. q \in 0 .. W32 - 1
      BY <1>1, <2>5
    <3> QED
      BY <1>1, <3>1, Unwrapped
  <2>7. BlockCount = q
    BY <1>3, <2>1, <2>3, <2>4, <2>6 DEF BlockCount
  <2>8. PICK p \in Nat : p = block_bytes * q /\ p = q * block_bytes
    BY <2>2, Product
  <2>9. total <= p /\ p - block_bytes < total
    BY <1>1, <2>1, <2>3, <2>8
  <2>10. q # 0
    <3> SUFFICES ASSUME q = 0 PROVE FALSE
      OBVIOUS
    <3>1. p = 0
      BY <2>2, <2>8
    <3> QED
      BY <1>1, <1>3, <2>9, <3>1
  <2>11. (q - 1) * block_bytes = p - block_bytes
    BY <2>2, <2>8, <2>10
  <2> QED
    BY <1>3, <2>7, <2>8, <2>9, <2>10, <2>11
<1> QED
  BY <1>1, <1>2, <1>3

LEMMA BlockIsStretch ==
    ASSUME SplitTyped, Fits, NEW idx \in Nat, idx < BlockCount
    PROVE  /\ Offset(idx) = idx * block_bytes /\ Offset(idx) \in 0 .. total
           /\ Bytes(idx) \in 0 .. block_bytes /\ Bytes(idx) % W32 = Bytes(idx)
           /\ Offset(idx) + Bytes(idx) = Least((idx + 1) * block_bytes, total)
           /\ Offset(idx) = 0 => idx = 0
<1>1. /\ total \in 0 .. W64 - 1 /\ block_bytes \in 1 .. W64 - 1
      /\ block_bytes \in Nat \ {0} /\ W64 \in Nat \ {0} /\ W32 \in Nat \ {0}
  BY InputAssumption, WidthAssumption DEF SplitTyped
<1>2. PICK o \in Nat : o = idx * block_bytes
  BY <1>1, Product
<1>3. o <= total
  <2>1. CASE total = 0
    <3>1. idx = 0
      BY <2>1, BlocksCover
    <3> QED
      BY <1>1, <1>2, <2>1, <3>1
  <2>2. CASE total > 0
    <3>1. PICK k \in Nat : k = BlockCount - 1
      BY BlocksCover
    <3>2. PICK d \in Nat : k = idx + d
      BY <3>1, BlocksCover
    <3>3. PICK e \in Nat : e = d * block_bytes
      BY <1>1, Product
    <3>4. k * block_bytes = o + e
      BY <1>1, <1>2, <3>2, <3>3
    <3>5. k * block_bytes < total
      BY <2>2, <3>1, BlocksCover
    <3> QED
      BY <1>1, <3>4, <3>5
  <2> QED
    BY <1>1, <2>1, <2>2
<1>4. Offset(idx) = o
  <2>1. o % W64 = o
    <3>1. o \in 0 .. W64 - 1
      BY <1>1, <1>3
    <3> QED
      BY <1>1, <3>1, Unwrapped
  <2> QED
    BY <1>2, <2>1 DEF Offset
<1>5. (total - o) % W64 = total - o
  <2>1. total - o \in 0 .. W64 - 1
    BY <1>1, <1>3
  <2> QED
    BY <1>1, <2>1, Unwrapped
<1>6. Bytes(idx) = Least(total - o, block_bytes)
  BY <1>1, <1>3, <1>4, <1>5 DEF Bytes, Least
<1>7. Bytes(idx) \in 0 .. block_bytes /\ o + Bytes(idx) = Least(o + block_bytes, total) /\ Bytes(idx) \in 0 .. total
  BY <1>1, <1>3, <1>6 DEF Least
<1>8. Bytes(idx) < W32
  BY <1>1, <1>7 DEF Fits
<1>9. Bytes(idx) % W32 = Bytes(idx)
  <2>1. Bytes(idx) \in 0 .. W32 - 1
    BY <1>1, <1>7, <1>8
  <2> QED
    BY <1>1, <2>1, Unwrapped
<1>10. (idx + 1) * block_bytes = o + block_bytes
  BY <1>1, <1>2
<1>11. o = 0 => idx = 0
  BY <1>1, <1>2
<1> QED
  BY <1>2, <1>3, <1>4, <1>7, <1>9, <1>10, <1>11

-----------------------------------------------------------------------------
(* The payload.                                                            *)

Stretches == [from : 0 .. W64 - 1, upto : Nat, bytes : Nat, final : {TRUE}]

(* The compressed blocks are typed whatever the sizes.                     *)
PayloadTyped ==
    /\ SplitTyped
    /\ payload \in Seq(Stretches)
    /\ \A k \in 1 .. Len(payload) : payload[k].upto \in payload[k].from .. payload[k].from + W64 - 1
    /\ crc \in Residues
    /\ uncompressed \in 0 .. W64 - 1
    /\ compressed \in 0 .. W64 - 1

(* What has been read and summed is the start of the file, cut at each     *)
(* block's size.                                                           *)
PayloadCovers ==
    Fits =>
        /\ Len(payload) <= BlockCount
        /\ \A k \in 1 .. Len(payload) :
              payload[k].from = (k - 1) * block_bytes /\ payload[k].upto = Least(k * block_bytes, total)
        /\ uncompressed = Least(Len(payload) * block_bytes, total)
        /\ crc = Checksum(0, uncompressed)

PayloadInv == PayloadTyped /\ PayloadCovers

LEMMA WidthsAre ==
    W32 \in Nat \ {0} /\ W64 \in Nat \ {0} /\ CrcMod \in Nat \ {0} /\ CrcBase \in Nat
BY WidthAssumption, ChecksumAssumption

LEMMA PayloadInitInv == PayloadInit => PayloadInv
<1> SUFFICES ASSUME PayloadInit PROVE PayloadInv
  OBVIOUS
<1>1. SplitTyped
  BY WidthAssumption, InputAssumption DEF PayloadInit, SplitTyped
<1>2. Len(payload) = 0 /\ payload \in Seq(Stretches)
  BY DEF PayloadInit
<1>3. PayloadTyped
  BY <1>1, <1>2, WidthsAre DEF PayloadTyped, PayloadInit, Residues
<1>4. PayloadCovers
  <2> SUFFICES ASSUME Fits PROVE PayloadCovers
    BY DEF PayloadCovers
  <2>1. 0 <= BlockCount
    BY <1>1, BlocksCover
  <2>2. total \in Nat /\ 0 * block_bytes = 0
    BY <1>1, InputAssumption, WidthsAre DEF SplitTyped
  <2>3. Least(0 * block_bytes, total) = 0
    BY <2>2 DEF Least
  <2>4. Checksum(0, 0) = 0
    <3>1. 0 \in Nat
      OBVIOUS
    <3> QED
      BY <3>1, ChecksumGrows
  <2>5. 1 .. Len(payload) = {}
    BY <1>2
  <2> QED
    BY <1>2, <2>1, <2>3, <2>4, <2>5 DEF PayloadCovers, PayloadInit
<1> QED
  BY <1>3, <1>4 DEF PayloadInv

LEMMA ChecksumTyped ==
    ASSUME NEW from \in Nat, NEW size \in Nat
    PROVE  Checksum(from, from + size) \in Residues
BY ChecksumGrows

LEMMA CombineTyped ==
    ASSUME NEW a \in Nat, NEW b \in Nat, NEW n \in Nat
    PROVE  Combine(a, b, n) \in Residues
<1>1. PICK p \in Nat : p = Powers(n)[n]
  BY PowersDefined
<1>2. PICK q \in Nat : q = a * p
  BY Product
<1>3. (q + b) % CrcMod \in 0 .. CrcMod - 1
  BY WidthsAre, Remainder
<1> QED
  BY <1>1, <1>2, <1>3 DEF Combine, Residues

LEMMA AddTyped ==
    ASSUME PayloadTyped, AddBlock
    PROVE  PayloadTyped'
<1> DEFINE idx == Len(payload)
           size == Bytes(idx)
           from == Offset(idx)
           s == Deflated(from, size)
<1>1. payload \in Seq(Stretches) /\ idx \in Nat
  BY LenProperties DEF PayloadTyped
<1>2. /\ total \in Nat /\ block_bytes \in 1 .. W64 - 1
      /\ W64 \in Nat \ {0} /\ W32 \in Nat \ {0}
  BY InputAssumption, WidthsAre DEF PayloadTyped, SplitTyped
<1>3. from \in 0 .. W64 - 1
  <2>1. PICK o \in Nat : o = idx * block_bytes
    BY <1>1, <1>2, Product
  <2> QED
    BY <1>2, <2>1, Remainder DEF Offset
<1>4. size \in 0 .. W64 - 1
  <2>1. total - from \in Int
    BY <1>2, <1>3
  <2> HIDE DEF from
  <2>2. PICK rest \in 0 .. W64 - 1 : rest = (total - from) % W64
    BY <1>2, <2>1, Remainder
  <2>3. size = IF rest < block_bytes THEN rest ELSE block_bytes
    BY <2>2 DEF Bytes, from
  <2> HIDE DEF size
  <2> QED
    BY <1>2, <2>2, <2>3
<1> HIDE DEF idx, from, size
<1>5. PICK n \in Nat : n = size % W32 /\ n <= size
  <2>1. size % W32 \in Nat
    BY <1>2, <1>4, Remainder
  <2>2. PICK q \in Nat, r \in 0 .. W32 - 1 : size = W32 * q + r /\ size % W32 = r
    BY <1>2, <1>4, Division
  <2>3. W32 * q \in Nat
    BY <1>2, Product
  <2> QED
    BY <2>2, <2>3
<1>6. s = [from |-> from, upto |-> from + n, bytes |-> n + 2, final |-> TRUE]
  BY <1>5 DEF Deflated
<1>7. s \in Stretches /\ s.upto \in s.from .. s.from + W64 - 1
  BY <1>2, <1>3, <1>4, <1>5, <1>6 DEF Stretches
<1>8. /\ payload' = Append(payload, s)
      /\ crc' = IF uncompressed = 0 THEN Checksum(from, from + size)
                ELSE Combine(crc, Checksum(from, from + size), size)
      /\ uncompressed' = (uncompressed + size) % W64
      /\ compressed' = (compressed + s.bytes) % W64
      /\ UNCHANGED <<total, block_bytes>>
  BY DEF AddBlock, idx, from, size
<1> HIDE DEF s
<1>9. /\ payload' \in Seq(Stretches) /\ Len(payload') = idx + 1 /\ payload'[idx + 1] = s
      /\ \A k \in 1 .. idx : payload'[k] = payload[k]
  BY <1>1, <1>7, <1>8, AppendProperties DEF idx
<1>10. \A k \in 1 .. Len(payload') : payload'[k].upto \in payload'[k].from .. payload'[k].from + W64 - 1
  <2>1. ASSUME NEW k \in 1 .. Len(payload')
        PROVE  payload'[k].upto \in payload'[k].from .. payload'[k].from + W64 - 1
    <3>1. CASE k = idx + 1
      BY <1>7, <1>9, <3>1
    <3>2. CASE k # idx + 1
      <4>1. k \in 1 .. idx
        BY <1>1, <1>9, <3>2
      <4>2. payload[k].upto \in payload[k].from .. payload[k].from + W64 - 1
        BY <4>1 DEF PayloadTyped, idx
      <4> QED
        BY <1>9, <4>1, <4>2
    <3> QED
      BY <3>1, <3>2
  <2> QED
    BY <2>1
<1>11. crc' \in Residues
  <2>1. PICK c \in Residues : c = Checksum(from, from + size)
    BY <1>2, <1>3, <1>4, ChecksumTyped
  <2>2. c \in Nat /\ crc \in Nat /\ size \in Nat
    BY <1>4, WidthsAre DEF Residues, PayloadTyped
  <2>3. Combine(crc, c, size) \in Residues
    BY <2>2, CombineTyped
  <2> QED
    BY <1>8, <2>1, <2>3
<1>12. uncompressed' \in 0 .. W64 - 1
  <2>1. uncompressed + size \in Int
    BY <1>2, <1>4 DEF PayloadTyped
  <2> QED
    BY <1>2, <1>8, <2>1, Remainder
<1>13. compressed' \in 0 .. W64 - 1
  <2>1. PICK b \in Nat : b = s.bytes
    BY <1>7 DEF Stretches
  <2>2. compressed + b \in Int
    BY <1>2 DEF PayloadTyped
  <2> QED
    BY <1>2, <1>8, <2>1, <2>2, Remainder
<1>14. SplitTyped'
  BY <1>8 DEF PayloadTyped, SplitTyped
<1> QED
  BY <1>9, <1>10, <1>11, <1>12, <1>13, <1>14 DEF PayloadTyped, Residues

LEMMA AddCovers ==
    ASSUME PayloadInv, AddBlock
    PROVE  PayloadCovers'
<1> SUFFICES ASSUME Fits' PROVE PayloadCovers'
  BY DEF PayloadCovers
<1>1. SplitTyped /\ Fits /\ BlockCount' = BlockCount
  BY DEF PayloadInv, PayloadTyped, AddBlock, Fits, BlockCount
<1> DEFINE idx == Len(payload)
           size == Bytes(idx)
           from == Offset(idx)
           s == Deflated(from, size)
<1>2. payload \in Seq(Stretches) /\ idx \in Nat /\ idx < BlockCount /\ BlockCount \in Nat
  BY <1>1, LenProperties, BlocksCover DEF PayloadInv, PayloadTyped, AddBlock
<1>3. /\ total \in Nat /\ block_bytes \in Nat \ {0} /\ total < W64
      /\ W64 \in Nat \ {0} /\ W32 \in Nat \ {0}
  BY <1>1, InputAssumption, WidthsAre DEF SplitTyped
<1>4. /\ from = idx * block_bytes /\ from \in 0 .. total
      /\ size \in 0 .. block_bytes /\ size % W32 = size
      /\ from + size = Least((idx + 1) * block_bytes, total)
      /\ from = 0 => idx = 0
  BY <1>1, <1>2, BlockIsStretch
<1>5. /\ payload' = Append(payload, s)
      /\ crc' = IF uncompressed = 0 THEN Checksum(from, from + size)
                ELSE Combine(crc, Checksum(from, from + size), size)
      /\ uncompressed' = (uncompressed + size) % W64
      /\ UNCHANGED <<total, block_bytes>>
  BY DEF AddBlock
<1>6. s = [from |-> from, upto |-> from + size, bytes |-> size + 2, final |-> TRUE]
  <2> HIDE DEF from, size
  <2> QED
    BY <1>4 DEF Deflated
<1> HIDE DEF idx, from, size
<1>7. uncompressed = from /\ crc = Checksum(0, from)
  <2>1. uncompressed = Least(from, total) /\ crc = Checksum(0, uncompressed)
    BY <1>1, <1>4 DEF PayloadInv, PayloadCovers, idx
  <2>2. Least(from, total) = from
    BY <1>3, <1>4 DEF Least
  <2> QED
    BY <2>1, <2>2
<1>8. PICK end \in 0 .. total : end = from + size /\ end = Least((idx + 1) * block_bytes, total)
  <2>1. PICK p \in Nat : p = (idx + 1) * block_bytes
    <3>1. idx + 1 \in Nat
      BY <1>2
    <3> QED
      BY <1>3, <3>1, Product
  <2>2. Least(p, total) <= total
    BY <1>3, <2>1 DEF Least
  <2>3. from + size \in Nat
    BY <1>3, <1>4
  <2> QED
    BY <1>3, <1>4, <2>1, <2>2, <2>3
<1>9. uncompressed' = end
  <2>1. end \in 0 .. W64 - 1
    BY <1>3
  <2> QED
    BY <1>3, <1>5, <1>7, <1>8, <2>1, Unwrapped
<1>10. crc' = Checksum(0, end)
  <2>1. CASE from = 0
    BY <1>5, <1>7, <1>8, <2>1
  <2>2. CASE from # 0
    <3>1. from \in Nat /\ size \in Nat
      BY <1>3, <1>4
    <3>2. Checksum(0, from + size) = Combine(Checksum(0, from), Checksum(from, from + size), size)
      BY <3>1, Concatenation
    <3> QED
      BY <1>5, <1>7, <1>8, <2>2, <3>2
  <2> QED
    BY <2>1, <2>2
<1>11. s \in Stretches
  <2>1. from \in 0 .. W64 - 1 /\ from \in Nat /\ size \in Nat
    BY <1>3, <1>4
  <2>2. from + size \in Nat /\ size + 2 \in Nat
    BY <2>1
  <2> HIDE DEF s
  <2> QED
    BY <1>6, <2>1, <2>2 DEF Stretches
<1>12. s.from = from /\ s.upto = end
  BY <1>6, <1>8
<1> HIDE DEF s
<1>13. /\ Len(payload') = idx + 1 /\ payload'[idx + 1] = s
       /\ \A k \in 1 .. idx : payload'[k] = payload[k]
  <2>1. payload \in Seq(Stretches)
    BY <1>1 DEF PayloadInv, PayloadTyped
  <2>2. PICK w : w = Append(payload, s)
    OBVIOUS
  <2>3. Len(w) = Len(payload) + 1
    BY <1>11, <2>1, <2>2, AppendProperties
  <2>4. (\A k \in 1 .. Len(payload) : w[k] = payload[k]) /\ w[Len(payload) + 1] = s
    BY <1>11, <2>1, <2>2, AppendProperties
  <2>5. payload' = w
    BY <1>5, <2>2
  <2> QED
    BY <2>3, <2>4, <2>5 DEF idx
<1>14. ASSUME NEW k \in 1 .. Len(payload')
       PROVE  payload'[k].from = (k - 1) * block_bytes /\ payload'[k].upto = Least(k * block_bytes, total)
  <2>1. CASE k = idx + 1
    <3>1. k - 1 = idx
      BY <1>2, <2>1
    <3> QED
      BY <1>4, <1>8, <1>12, <1>13, <2>1, <3>1
  <2>2. CASE k # idx + 1
    <3>1. k \in 1 .. idx
      BY <1>2, <1>13, <2>2
    <3>2. payload[k].from = (k - 1) * block_bytes /\ payload[k].upto = Least(k * block_bytes, total)
      BY <1>1, <3>1 DEF PayloadInv, PayloadCovers, idx
    <3> QED
      BY <1>13, <3>1, <3>2
  <2> QED
    BY <2>1, <2>2
<1>15. Len(payload') <= BlockCount'
  BY <1>1, <1>2, <1>13
<1>16. uncompressed' = Least(Len(payload') * block_bytes, total)
  BY <1>8, <1>9, <1>13
<1>17. total' = total /\ block_bytes' = block_bytes /\ crc' = Checksum(0, uncompressed')
  BY <1>5, <1>9, <1>10
<1>18. \A k \in 1 .. Len(payload') :
          payload'[k].from = (k - 1) * block_bytes' /\ payload'[k].upto = Least(k * block_bytes', total')
  BY <1>14, <1>17
<1>19. uncompressed' = Least(Len(payload') * block_bytes', total')
  BY <1>16, <1>17
<1> QED
  BY <1>15, <1>17, <1>18, <1>19 DEF PayloadCovers

LEMMA PayloadRight == PayloadInv => PayloadIsFile
<1> SUFFICES ASSUME PayloadInv, Assembled, Fits PROVE PayloadIsFile
  BY DEF PayloadIsFile
<1> DEFINE n == Len(payload)
<1>1. /\ SplitTyped /\ payload \in Seq(Stretches) /\ n = BlockCount
      /\ \A k \in 1 .. n : payload[k].from = (k - 1) * block_bytes /\ payload[k].upto = Least(k * block_bytes, total)
      /\ uncompressed = Least(n * block_bytes, total) /\ crc = Checksum(0, uncompressed)
  BY DEF PayloadInv, PayloadTyped, PayloadCovers, Assembled
<1>2. total \in Nat /\ block_bytes \in Nat \ {0}
  BY <1>1, InputAssumption, WidthsAre DEF SplitTyped
<1>3. n \in Nat \ {0} /\ total <= n * block_bytes
  BY <1>1, BlocksCover
<1> HIDE DEF n
<1>4. Least(n * block_bytes, total) = total
  <2>1. PICK p \in Nat : p = n * block_bytes
    BY <1>2, <1>3, Product
  <2> QED
    BY <1>2, <1>3, <2>1 DEF Least
<1>5. DOMAIN payload = 1 .. n
  BY <1>1, LenProperties DEF n
<1>6. payload # <<>> /\ payload[1].from = 0
  <2>1. 1 \in 1 .. n /\ (1 - 1) * block_bytes = 0
    BY <1>2, <1>3
  <2>2. payload # <<>>
    BY <1>3 DEF n
  <2> QED
    BY <1>1, <2>1, <2>2
<1>7. Last(payload).upto = total
  <2>1. n \in 1 .. n
    BY <1>3
  <2> QED
    BY <1>1, <1>4, <2>1 DEF Last, n
<1>8. ASSUME NEW k \in 1 .. n
      PROVE  /\ k < n => payload[k].upto = payload[k + 1].from
             /\ payload[k].upto - payload[k].from <= block_bytes
  <2>1. PICK j \in Nat : j = k - 1 /\ j < BlockCount
    BY <1>1, <1>3
  <2>2. PICK o \in Nat, p \in Nat : o = j * block_bytes /\ p = k * block_bytes
    BY <1>2, Product
  <2>3. p = o + block_bytes
    BY <1>2, <2>1, <2>2
  <2>4. payload[k].from = o /\ payload[k].upto = Least(p, total)
    BY <1>1, <2>1, <2>2
  <2>5. payload[k].upto - payload[k].from <= block_bytes
    BY <1>2, <2>3, <2>4 DEF Least
  <2>6. ASSUME k < n PROVE payload[k].upto = payload[k + 1].from
    <3>1. k \in Nat /\ k < BlockCount
      BY <1>1, <2>6
    <3>2. Offset(k) = p /\ Offset(k) \in 0 .. total
      BY <1>1, <2>2, <3>1, BlockIsStretch
    <3>3. k + 1 \in 1 .. n /\ (k + 1) - 1 = k
      BY <1>3, <2>6
    <3>4. payload[k + 1].from = p
      BY <1>1, <2>2, <3>3
    <3> QED
      BY <1>2, <2>4, <3>2, <3>4 DEF Least
  <2> QED
    BY <2>5, <2>6
<1>9. \A i \in 1 .. Len(payload) - 1 : payload[i].upto = payload[i + 1].from
  BY <1>3, <1>8 DEF n
<1>10. \A s \in ToSet(payload) : s.upto - s.from <= block_bytes
  BY <1>5, <1>8 DEF ToSet
<1> QED
  BY <1>1, <1>4, <1>6, <1>7, <1>9, <1>10 DEF PayloadIsFile

-----------------------------------------------------------------------------
(* The gzip writer.                                                        *)

(* The pieces of an output.                                                *)
Pieces == {[kind |-> "header"]}
            \cup [kind : {"deflated"}, data : Stretches]
            \cup [kind : {"trailer"}, crc : Residues, isize : 0 .. W32 - 1]

MemberShape ==
    /\ Member \in Seq(Pieces)
    /\ Len(Member) = Len(payload) + 2 /\ DOMAIN Member = 1 .. Len(payload) + 2
    /\ Member[1] = [kind |-> "header"]
    /\ \A k \in 1 .. Len(payload) : Member[k + 1] = [kind |-> "deflated", data |-> payload[k]]
    /\ Member[Len(payload) + 2] = [kind |-> "trailer", crc |-> crc, isize |-> uncompressed % W32]

LEMMA MemberIs ==
    ASSUME PayloadTyped
    PROVE  MemberShape
<1> DEFINE n == Len(payload)
           h == [kind |-> "header"]
           t == [kind |-> "trailer", crc |-> crc, isize |-> uncompressed % W32]
           b == [k \in DOMAIN payload |-> [kind |-> "deflated", data |-> payload[k]]]
           S == Pieces
<1>0. payload \in Seq(Stretches) /\ crc \in Residues /\ uncompressed \in Nat
  BY WidthsAre DEF PayloadTyped
<1>1. n \in Nat /\ DOMAIN payload = 1 .. n /\ \A k \in 1 .. n : payload[k] \in Stretches
  BY <1>0, LenProperties, ElementOfSeq
<1>2. b \in [1 .. n -> S]
  BY <1>1 DEF Pieces
<1>3. \A k \in 1 .. n : b[k] = [kind |-> "deflated", data |-> payload[k]]
  BY <1>1
<1>4. h \in S /\ t \in S
  <2>1. uncompressed % W32 \in 0 .. W32 - 1
    BY <1>0, WidthsAre
  <2> QED
    BY <1>0, <2>1 DEF Pieces
<1>5. Member = <<h>> \o b \o <<t>>
  BY DEF Member, Header, Blocks, Trailer
<1> HIDE DEF h, t, b, S, n
<1>6. b \in Seq(S) /\ Len(b) = n
  <2>1. b \in Seq(S)
    BY <1>1, <1>2, SeqDef
  <2>2. DOMAIN b = 1 .. n /\ DOMAIN b = 1 .. Len(b) /\ Len(b) \in Nat
    BY <1>2, <2>1, LenProperties
  <2> QED
    BY <1>1, <2>1, <2>2
<1> DEFINE H == <<h>>
           T == <<t>>
<1>7. H \in Seq(S)
  BY <1>4
<1>70. T \in Seq(S)
  BY <1>4
<1>71. Len(H) = 1 /\ Len(T) = 1
  OBVIOUS
<1>72. H[1] = h /\ T[1] = t
  OBVIOUS
<1> DEFINE m == H \o b
           w == m \o T
<1>10. Member = w
  BY <1>5
<1> HIDE DEF H, T, m, w
<1>8. m \in Seq(S) /\ Joined(m, H, b)
  BY <1>6, <1>7, Concatenated DEF m
<1>9. w \in Seq(S) /\ Joined(w, m, T)
  BY <1>8, <1>70, Concatenated DEF w
<1>80. Len(m) = n + 1 /\ m[1] = H[1] /\ \A k \in 1 .. n : m[1 + k] = b[k]
  BY <1>1, <1>6, <1>71, <1>8 DEF Joined
<1>90. /\ Len(w) = n + 2 /\ DOMAIN w = 1 .. n + 2
       /\ \A k \in 1 .. n + 1 : w[k] = m[k]
       /\ w[(n + 1) + 1] = T[1]
  BY <1>1, <1>71, <1>80, <1>9 DEF Joined
<1>12. w[1] = h
  BY <1>1, <1>72, <1>80, <1>90
<1>13. ASSUME NEW k \in 1 .. n PROVE w[k + 1] = b[k]
  BY <1>1, <1>80, <1>90
<1>14. w[n + 2] = t
  BY <1>1, <1>72, <1>90
<1> QED
  BY <1>3, <1>9, <1>10, <1>90, <1>12, <1>13, <1>14 DEF MemberShape, n, h, t, S

(* What is in the output, by how far the job is: nothing, the member of    *)
(* the file, or what a write that fell short left of it.                   *)
GzipSteps ==
    /\ pc \in {"new", "open", "failed", "finished"}
    /\ wrote_one \in BOOLEAN /\ given \in 0 .. 2
    /\ stream \in Seq(Pieces)
    /\ ~wrote_one => given = 0 /\ stream = <<>>
    /\ wrote_one => given > 0 /\ Assembled
    /\ wrote_one /\ (pc # "failed" \/ given = 2) => stream = Member
    /\ pc = "new" => ~wrote_one
    /\ pc = "open" => given < 2
    /\ pc = "finished" => given = 1

GzipInv == PayloadInv /\ GzipSteps

LEMMA PayloadKept ==
    ASSUME PayloadInv, UNCHANGED payloadVars
    PROVE  PayloadInv' /\ Member' = Member /\ Assembled' = Assembled
<1>1. /\ total' = total /\ block_bytes' = block_bytes /\ payload' = payload
      /\ crc' = crc /\ uncompressed' = uncompressed /\ compressed' = compressed
  BY DEF payloadVars
<1>2. PayloadTyped'
  BY <1>1 DEF PayloadInv, PayloadTyped, SplitTyped
<1>3. BlockCount' = BlockCount /\ Fits' = Fits
  BY <1>1 DEF BlockCount, Fits
<1>4. PayloadCovers'
  BY <1>1, <1>3 DEF PayloadInv, PayloadCovers
<1>5. Member' = Member
  BY <1>1 DEF Member, Header, Blocks, Trailer
<1> QED
  BY <1>1, <1>2, <1>3, <1>4, <1>5 DEF PayloadInv, Assembled

(* A write that falls short leaves pieces of the member.                   *)
LEMMA ShortWrite ==
    ASSUME PayloadTyped, NEW n \in 0 .. Len(Member) - 1
    PROVE  SubSeq(Member, 1, n) \in Seq(Pieces)
<1>1. Member \in Seq(Pieces) /\ Len(Member) \in Nat
  BY MemberIs, LenProperties DEF MemberShape
<1>2. \A i \in 1 .. n : Member[i] \in Pieces
  BY <1>1, ElementOfSeq
<1>3. n \in Int /\ 1 \in Int
  BY <1>1
<1> HIDE DEF Member
<1> QED
  BY <1>2, <1>3, SubSeqProperties

LEMMA GzipInitInv == PayloadInit /\ GzipInit /\ WriterInit => GzipInv
<1> SUFFICES ASSUME PayloadInit, GzipInit, WriterInit PROVE GzipInv
  OBVIOUS
<1>1. stream = <<>> /\ stream \in Seq(Pieces)
  BY DEF WriterInit
<1>2. pc = "new" /\ wrote_one = FALSE /\ given = 0
  BY DEF GzipInit, WriterInit
<1>3. 0 \in 0 .. 2 /\ FALSE \in BOOLEAN /\ ~(0 > 0) /\ 0 < 2
  OBVIOUS
<1>4. wrote_one \in BOOLEAN /\ given \in 0 .. 2 /\ pc # "open" /\ pc # "finished"
  BY <1>2, <1>3
<1>5. GzipSteps
  BY <1>1, <1>2, <1>4, Zenon DEF GzipSteps
<1> QED
  BY <1>5, PayloadInitInv DEF GzipInv

LEMMA GzipNextInv ==
    ASSUME GzipInv, GzipNext
    PROVE  GzipInv'
<1>1. PayloadInv /\ GzipSteps /\ PayloadTyped
  BY DEF GzipInv, PayloadInv
<1>2. CASE GzipBegin \/ GzipBeginFails
  BY <1>1, <1>2, PayloadKept
     DEF GzipBegin, GzipBeginFails, Opens, OpenFails, Fails, gzipVars, GzipInv, GzipSteps
<1>3. CASE Prepare
  <2>1. PayloadInv'
    BY <1>1, <1>3, AddTyped, AddCovers DEF PayloadInv, Prepare
  <2>2. ~Assembled
    <3>1. Len(payload) < BlockCount
      BY <1>3 DEF Prepare, AddBlock
    <3>2. Len(payload) \in Nat
      BY <1>1, LenProperties DEF PayloadTyped
    <3>3. BlockCount # Len(payload)
      <4>1. \A k \in Nat : ~(k < k)
        OBVIOUS
      <4> QED
        BY <3>1, <3>2, <4>1
    <3> QED
      BY <3>3 DEF Assembled
  <2>3. ~wrote_one
    BY <1>1, <2>2 DEF GzipSteps
  <2> QED
    BY <1>1, <1>3, <2>1, <2>3 DEF Prepare, writerVars, gzipVars, GzipInv, GzipSteps
<1>4. CASE PrepareFails
  <2>1. ~wrote_one
    BY <1>1, <1>4 DEF PrepareFails, Stuck, GzipSteps
  <2> QED
    BY <1>1, <1>4, <2>1, PayloadKept DEF PrepareFails, Fails, GzipInv, GzipSteps
<1>5. CASE GzipWriteFile
  <2>1. stream = <<>> /\ given = 0
    BY <1>1, <1>5 DEF GzipWriteFile, GzipSteps
  <2>2. Member \in Seq(Pieces)
    BY <1>1, MemberIs DEF MemberShape
  <2>3. <<>> \o Member = Member
    BY <2>2, ConcatEmptySeq
  <2>4. stream' = Member
    BY <1>5, <2>1, <2>3 DEF GzipWriteFile
  <2> QED
    BY <1>1, <1>5, <2>1, <2>2, <2>4, PayloadKept DEF GzipWriteFile, Given, GzipInv, GzipSteps
<1>6. CASE Refuse
  <2>1. stream = Member
    BY <1>1, <1>6 DEF Refuse, Given, GzipSteps
  <2>2. given = 1
    BY <1>1, <1>6 DEF Refuse, Given, GzipSteps
  <2> QED
    BY <1>1, <1>6, <2>1, <2>2, PayloadKept DEF Refuse, Given, Fails, GzipInv, GzipSteps
<1>7. CASE GzipWriteFails
  <2>1. given = 0
    BY <1>1, <1>7 DEF GzipWriteFails, GzipSteps
  <2>2. stream' \in Seq(Pieces)
    BY <1>1, <1>7, ShortWrite DEF GzipWriteFails
  <2> QED
    BY <1>1, <1>7, <2>1, <2>2, PayloadKept DEF GzipWriteFails, Given, Fails, GzipInv, GzipSteps
<1>8. CASE GzipFinish
  BY <1>1, <1>8, PayloadKept DEF GzipFinish, GzipInv, GzipSteps
<1> QED
  BY <1>2, <1>3, <1>4, <1>5, <1>6, <1>7, <1>8 DEF GzipNext

LEMMA GzipKeptInv ==
    ASSUME GzipInv, UNCHANGED <<writerVars, gzipVars, payloadVars>>
    PROVE  GzipInv'
BY PayloadKept DEF writerVars, gzipVars, GzipInv, GzipSteps

LEMMA GzipTyped == GzipInv => GzipTypeOK /\ PayloadTypeOK
<1> SUFFICES ASSUME GzipInv PROVE GzipTypeOK /\ PayloadTypeOK
  OBVIOUS
<1>1. stream \in Seq(Pieces) /\ payload \in Seq(Stretches)
  BY DEF GzipInv, GzipSteps, PayloadInv, PayloadTyped
<1>2. ASSUME NEW p \in ToSet(stream)
      PROVE  /\ p.kind \in {"header", "deflated", "trailer"}
             /\ p.kind = "trailer" => p.crc \in 0 .. CrcMod - 1 /\ p.isize \in 0 .. W32 - 1
  <2>1. p \in Pieces
    BY <1>1, <1>2, ElementOfSeq, LenProperties DEF ToSet
  <2> QED
    BY <2>1 DEF Pieces, Residues
<1>3. GzipTypeOK
  BY <1>2 DEF GzipTypeOK, GzipInv, GzipSteps
<1>4. ASSUME NEW s \in ToSet(payload)
      PROVE  s.from \in 0 .. W64 - 1 /\ s.upto \in s.from .. s.from + W64 - 1
  <2>1. PICK k \in 1 .. Len(payload) : s = payload[k]
    BY <1>1, LenProperties DEF ToSet
  <2>2. payload[k] \in Stretches
    BY <1>1, <2>1, ElementOfSeq
  <2> QED
    BY <2>1, <2>2 DEF Stretches, GzipInv, PayloadInv, PayloadTyped
<1>5. PayloadTypeOK
  BY <1>4 DEF PayloadTypeOK, GzipInv, PayloadInv, PayloadTyped, SplitTyped, Residues
<1> QED
  BY <1>3, <1>5

(* The member of a file of one block is a header, one deflate stream and   *)
(* the trailer: the reader stops where the data does.                      *)
LEMMA OneBlockRead ==
    ASSUME PayloadInv, Assembled, Fits, Len(payload) = 1, stream = Member
    PROVE  GunzipsToFile
<1>1. PayloadTyped /\ MemberShape
  BY MemberIs DEF PayloadInv
<1>2. payload[1] \in Stretches
  <2>1. payload \in Seq(Stretches)
    BY <1>1 DEF PayloadTyped
  <2>2. 1 \in 1 .. Len(payload)
    OBVIOUS
  <2> QED
    BY <2>1, <2>2, ElementOfSeq
<1>3. /\ Len(stream) = 3 /\ DOMAIN stream = 1 .. 3
      /\ stream[1] = [kind |-> "header"]
      /\ stream[2] = [kind |-> "deflated", data |-> payload[1]]
      /\ stream[3] = [kind |-> "trailer", crc |-> crc, isize |-> uncompressed % W32]
  <2>1. /\ Len(Member) = 3 /\ DOMAIN Member = 1 .. 3
        /\ Member[1] = [kind |-> "header"]
        /\ Member[3] = [kind |-> "trailer", crc |-> crc, isize |-> uncompressed % W32]
    <3>1. Len(payload) + 2 = 3
      OBVIOUS
    <3> QED
      BY <1>1, <3>1, Zenon DEF MemberShape
  <2>2. Member[2] = [kind |-> "deflated", data |-> payload[1]]
    <3>1. 1 \in 1 .. Len(payload) /\ 1 + 1 = 2
      OBVIOUS
    <3>2. Member[1 + 1] = [kind |-> "deflated", data |-> payload[1]]
      BY <1>1, <3>1, Zenon DEF MemberShape
    <3> QED
      BY <3>1, <3>2
  <2> QED
    BY <2>1, <2>2, Zenon
<1>30. stream[1].kind = "header" /\ stream[2].kind = "deflated" /\ stream[3].kind = "trailer"
  BY <1>3
<1>31. \A i : i \in 1 .. 3 <=> i = 1 \/ i = 2 \/ i = 3
  OBVIOUS
<1>4. Deflates = {2}
  <2>1. DOMAIN stream = 1 .. 3
    BY <1>3
  <2> QED
    BY <2>1, <1>30, <1>31 DEF Deflates
<1>5. stream[2].data.final = TRUE
  <2>1. payload[1].final = TRUE
    BY <1>2 DEF Stretches
  <2>2. stream[2].data = payload[1]
    BY <1>3
  <2> QED
    BY <2>1, <2>2
<1>6. StreamEnd = 2
  <2> DEFINE ends == {i \in Deflates : stream[i].data.final}
  <2>1. ends = {2}
    BY <1>4, <1>5
  <2>2. StreamEnd = CHOOSE i \in ends : \A j \in ends : i <= j
    BY DEF StreamEnd
  <2> HIDE DEF ends
  <2>3. 2 \in ends /\ \A j \in ends : 2 <= j
    BY <2>1
  <2>4. StreamEnd \in ends
    BY <2>2, <2>3
  <2> QED
    BY <2>1, <2>4
<1>7. /\ payload[1].from = 0 /\ Last(payload).upto = total
      /\ crc = Checksum(0, total) /\ uncompressed = total
  BY PayloadRight DEF PayloadIsFile
<1>8. payload[1].upto = total
  BY <1>7 DEF Last
<1>9. Inflated = 0 .. total - 1
  <2>1. stream[2].data.from .. stream[2].data.upto - 1 = 0 .. total - 1
    BY <1>3, <1>7, <1>8
  <2>2. 2 .. StreamEnd = {2}
    BY <1>6
  <2> QED
    BY <2>1, <2>2 DEF Inflated
<1>10. stream[StreamEnd + 1] = stream[3] /\ StreamEnd < Len(stream) /\ 2 .. StreamEnd = {2}
  BY <1>3, <1>6
<1>11. stream[3].kind = "trailer" /\ stream[3].crc = crc /\ stream[3].isize = uncompressed % W32
  BY <1>3
<1>12. stream[1].kind = "header"
  BY <1>3
<1> QED
  BY <1>4, <1>7, <1>9, <1>10, <1>11, <1>12 DEF GunzipsToFile

-----------------------------------------------------------------------------
(* The ZIP writer: how its records lie in the output.                      *)

(* Records at offsets from one on, each behind the one before it and, but  *)
(* for a payload, not empty; and a payload is behind a local header.       *)
Placed(s, from) ==
    \A i \in 1 .. Len(s) : s[i].at \in Nat /\ s[i].size \in Nat /\ from <= s[i].at
Solid(s) == \A i \in 1 .. Len(s) : s[i].kind # "payload" => s[i].size > 0
Ordered(s) ==
    \A i \in 1 .. Len(s), j \in 1 .. Len(s) : i < j => s[i].at + s[i].size <= s[j].at
Headed(s) == \A i \in 1 .. Len(s) : s[i].kind = "payload" => i > 1 /\ s[i - 1].kind = "local"

Laid(s, from) == s \in Seq(ToSet(s)) /\ Placed(s, from) /\ Solid(s) /\ Ordered(s) /\ Headed(s)
Within(s, upto) == \A i \in 1 .. Len(s) : s[i].at + s[i].size <= upto

LEMMA LaidEnds ==
    ASSUME NEW t, NEW e \in Nat, Laid(t, e)
    PROVE  End(t, e) \in Nat /\ e <= End(t, e) /\ Within(t, End(t, e))
<1>1. PICK n \in Nat : n = Len(t)
  BY LenProperties DEF Laid
<1>2. CASE t = <<>>
  <2>1. 1 .. Len(t) = {}
    BY <1>2
  <2>2. End(t, e) = e
    BY <1>2 DEF End
  <2> QED
    BY <2>1, <2>2 DEF Within
<1>3. CASE t # <<>>
  <2>1. n \in 1 .. n
    <3>1. n # 0
      BY <1>1, <1>3, EmptySeq DEF Laid
    <3> QED
      BY <1>1, <3>1
  <2>2. End(t, e) = t[n].at + t[n].size
    BY <1>1, <1>3 DEF End, Last
  <2>3. t[n].at \in Nat /\ t[n].size \in Nat /\ e <= t[n].at
    BY <1>1, <2>1 DEF Laid, Placed
  <2>4. ASSUME NEW i \in 1 .. n PROVE t[i].at + t[i].size <= t[n].at + t[n].size
    <3>1. CASE i = n
      BY <2>3, <3>1
    <3>2. CASE i < n
      <4>1. t[i].at + t[i].size <= t[n].at
        BY <1>1, <2>1, <3>2 DEF Laid, Ordered
      <4>2. t[i].at \in Nat /\ t[i].size \in Nat
        BY <1>1 DEF Laid, Placed
      <4> QED
        BY <2>3, <4>1, <4>2
    <3> QED
      BY <1>1, <3>1, <3>2
  <2> QED
    BY <1>1, <2>2, <2>3, <2>4 DEF Within
<1> QED
  BY <1>2, <1>3

(* Any sequence is one of its own elements.                                *)
LEMMA Concatenates ==
    ASSUME NEW s, NEW t, s \in Seq(ToSet(s)), t \in Seq(ToSet(t))
    PROVE  s \o t \in Seq(ToSet(s \o t)) /\ Joined(s \o t, s, t)
<1> DEFINE S == ToSet(s) \cup ToSet(t)
           w == s \o t
<1>1. s \in Seq(S) /\ t \in Seq(S)
  <2>1. ToSet(s) \subseteq S /\ ToSet(t) \subseteq S
    OBVIOUS
  <2> HIDE DEF S
  <2>2. \A A, B, q : A \subseteq B /\ q \in Seq(A) => q \in Seq(B)
    OBVIOUS
  <2> QED
    BY <2>1, <2>2
<1> HIDE DEF S
<1>2. w \in Seq(S) /\ Joined(w, s, t)
  BY <1>1, Concatenated
<1> HIDE DEF w
<1>3. Len(w) \in Nat /\ w \in [1 .. Len(w) -> S] /\ DOMAIN w = 1 .. Len(w)
  BY <1>2, LenProperties
<1>4. w \in [1 .. Len(w) -> ToSet(w)]
  BY <1>3 DEF ToSet
<1>5. w \in Seq(ToSet(w))
  BY <1>3, <1>4, SeqDef
<1> QED
  BY <1>2, <1>5 DEF w

LEMMA Extended ==
    ASSUME NEW s, NEW t, NEW a \in Nat, NEW e \in Nat, a <= e,
           Laid(s, a), Within(s, e), Laid(t, e)
    PROVE  /\ Laid(s \o t, a) /\ Within(s \o t, End(t, e))
           /\ End(t, e) \in Nat /\ Joined(s \o t, s, t)
<1> DEFINE w == s \o t
<1>1. w \in Seq(ToSet(w)) /\ Joined(w, s, t)
  BY Concatenates DEF Laid
<1> HIDE DEF w
<1>2. PICK m \in Nat, n \in Nat : m = Len(s) /\ n = Len(t)
  BY LenProperties DEF Laid
<1>3. /\ Len(w) = m + n
      /\ \A i \in 1 .. m : w[i] = s[i]
      /\ \A k \in 1 .. n : w[m + k] = t[k]
  BY <1>1, <1>2 DEF Joined
<1>4. ASSUME NEW i \in 1 .. m + n, ~(i \in 1 .. m)
      PROVE  \E k \in 1 .. n : i = m + k /\ w[i] = t[k]
  <2>1. PICK k \in 1 .. n : i = m + k
    <3>1. i - m \in 1 .. n /\ i = m + (i - m)
      BY <1>4
    <3> QED
      BY <3>1
  <2> QED
    BY <1>3, <2>1
<1>5. \A i \in 1 .. m : /\ s[i].at \in Nat /\ s[i].size \in Nat /\ a <= s[i].at
                        /\ s[i].at + s[i].size <= e
  BY <1>2 DEF Laid, Placed, Within
<1>6. \A k \in 1 .. n : t[k].at \in Nat /\ t[k].size \in Nat /\ e <= t[k].at
  BY <1>2 DEF Laid, Placed
<1>7. Placed(w, a)
  <2> SUFFICES ASSUME NEW i \in 1 .. m + n
               PROVE  w[i].at \in Nat /\ w[i].size \in Nat /\ a <= w[i].at
    BY <1>3 DEF Placed
  <2>1. CASE i \in 1 .. m
    BY <1>3, <1>5, <2>1
  <2>2. CASE ~(i \in 1 .. m)
    BY <1>4, <1>6, <2>2
  <2> QED
    BY <2>1, <2>2
<1>8. Solid(w)
  <2> SUFFICES ASSUME NEW i \in 1 .. m + n, w[i].kind # "payload"
               PROVE  w[i].size > 0
    BY <1>3 DEF Solid
  <2>1. CASE i \in 1 .. m
    BY <1>2, <1>3, <2>1 DEF Laid, Solid
  <2>2. CASE ~(i \in 1 .. m)
    <3>1. PICK k \in 1 .. n : w[i] = t[k]
      BY <1>4, <2>2
    <3> QED
      BY <1>2, <3>1 DEF Laid, Solid
  <2> QED
    BY <2>1, <2>2
<1>9. Ordered(w)
  <2> SUFFICES ASSUME NEW i \in 1 .. m + n, NEW j \in 1 .. m + n, i < j
               PROVE  w[i].at + w[i].size <= w[j].at
    BY <1>3 DEF Ordered
  <2>1. CASE j \in 1 .. m
    <3>1. i \in 1 .. m
      BY <2>1
    <3>2. s[i].at + s[i].size <= s[j].at
      BY <1>2, <2>1, <3>1 DEF Laid, Ordered
    <3> QED
      BY <1>3, <2>1, <3>1, <3>2
  <2>2. CASE ~(j \in 1 .. m)
    <3>1. PICK k \in 1 .. n : j = m + k /\ w[j] = t[k]
      BY <1>4, <2>2
    <3>2. CASE i \in 1 .. m
      BY <1>3, <1>5, <1>6, <3>1, <3>2
    <3>3. CASE ~(i \in 1 .. m)
      <4>1. PICK l \in 1 .. n : i = m + l /\ w[i] = t[l]
        BY <1>4, <3>3
      <4>2. l < k
        BY <3>1, <4>1
      <4> QED
        BY <1>2, <3>1, <4>1, <4>2 DEF Laid, Ordered
    <3> QED
      BY <3>2, <3>3
  <2> QED
    BY <2>1, <2>2
<1>10. Headed(w)
  <2> SUFFICES ASSUME NEW i \in 1 .. m + n, w[i].kind = "payload"
               PROVE  i > 1 /\ w[i - 1].kind = "local"
    BY <1>3 DEF Headed
  <2>1. CASE i \in 1 .. m
    <3>1. i > 1 /\ s[i - 1].kind = "local"
      BY <1>2, <1>3, <2>1 DEF Laid, Headed
    <3>2. i - 1 \in 1 .. m
      BY <2>1, <3>1
    <3> QED
      BY <1>3, <3>1, <3>2
  <2>2. CASE ~(i \in 1 .. m)
    <3>1. PICK k \in 1 .. n : i = m + k /\ w[i] = t[k]
      BY <1>4, <2>2
    <3>2. k > 1 /\ t[k - 1].kind = "local"
      BY <1>2, <3>1 DEF Laid, Headed
    <3>3. PICK l \in 1 .. n : l = k - 1
      BY <3>2
    <3>4. i - 1 = m + l /\ i > 1
      BY <3>1, <3>2, <3>3
    <3> QED
      BY <1>3, <3>2, <3>3, <3>4
  <2> QED
    BY <2>1, <2>2
<1>11. End(t, e) \in Nat /\ e <= End(t, e) /\ Within(t, End(t, e))
  BY LaidEnds
<1>12. Within(w, End(t, e))
  <2>1. PICK f \in Nat : f = End(t, e)
    BY <1>11
  <2> SUFFICES ASSUME NEW i \in 1 .. m + n PROVE w[i].at + w[i].size <= f
    BY <1>3, <2>1 DEF Within
  <2>2. CASE i \in 1 .. m
    BY <1>3, <1>5, <1>11, <2>1, <2>2
  <2>3. CASE ~(i \in 1 .. m)
    BY <1>2, <1>4, <1>11, <2>1, <2>3 DEF Within
  <2> QED
    BY <2>2, <2>3
<1> QED
  BY <1>1, <1>7, <1>8, <1>9, <1>10, <1>11, <1>12 DEF Laid, w

(* What a write that fell short put down is laid out as well.              *)
LEMMA ShortLaid ==
    ASSUME NEW t, NEW e \in Nat, Laid(t, e), NEW n \in 0 .. Len(t) - 1
    PROVE  Laid(SubSeq(t, 1, n), e)
<1> DEFINE w == SubSeq(t, 1, n)
<1>1. PICK m \in Nat : m = Len(t) /\ n \in 0 .. m
  BY LenProperties DEF Laid
<1>2. \A i \in 1 .. n : t[i] \in ToSet(t)
  BY <1>1, ElementOfSeq DEF Laid
<1>3. n \in Int /\ 1 \in Int /\ (n - 1 + 1) = n
  BY <1>1
<1>4. w \in Seq(ToSet(t))
  BY <1>2, <1>3, SubSeqProperties
<1>5. Len(w) = IF 1 <= n THEN n - 1 + 1 ELSE 0
  BY <1>2, <1>3, SubSeqProperties
<1>6. \A i \in 1 .. n - 1 + 1 : w[i] = t[1 + i - 1]
  BY <1>2, <1>3, SubSeqProperties
<1> HIDE DEF w
<1>7. Len(w) = n
  BY <1>1, <1>5
<1>8. \A i \in 1 .. n : w[i] = t[i]
  <2> TAKE i \in 1 .. n
  <2>1. i \in 1 .. n - 1 + 1 /\ 1 + i - 1 = i
    BY <1>3
  <2> QED
    BY <1>6, <2>1
<1>9. DOMAIN w = 1 .. n
  BY <1>4, <1>7, LenProperties
<1>10. w \in Seq(ToSet(w))
  <2>1. w \in [1 .. n -> ToSet(w)]
    <3>1. w \in [1 .. Len(w) -> ToSet(t)]
      BY <1>4, LenProperties
    <3> QED
      BY <1>7, <1>9, <3>1 DEF ToSet
  <2> QED
    BY <1>1, <2>1, SeqDef
<1>11. \A i \in 1 .. n : i \in 1 .. Len(t) /\ (i > 1 => i - 1 \in 1 .. n)
  BY <1>1
<1>12. Placed(w, e) /\ Solid(w)
  BY <1>7, <1>8, <1>11 DEF Laid, Placed, Solid
<1>13. Ordered(w)
  BY <1>7, <1>8, <1>11 DEF Laid, Ordered
<1>14. Headed(w)
  BY <1>7, <1>8, <1>11 DEF Laid, Headed
<1> QED
  BY <1>10, <1>12, <1>13, <1>14 DEF Laid, w

(* A record that is not a payload is the only one of its kind where it is, *)
(* and so is a payload, for the local header in front of it.               *)
LEMMA OnlyRecord ==
    ASSUME Laid(stream, 0), NEW i \in 1 .. Len(stream)
    PROVE  /\ IsAt(stream[i].at, stream[i].kind)
           /\ RecordAt(stream[i].at, stream[i].kind) = stream[i]
<1> DEFINE A == At(stream[i].at, stream[i].kind)
<1>1. PICK n \in Nat : n = Len(stream) /\ DOMAIN stream = 1 .. n
  BY LenProperties DEF Laid
<1>2. i \in A
  BY <1>1 DEF At
<1>3. \A j \in 1 .. n : stream[j].at \in Nat /\ stream[j].size \in Nat
  BY <1>1 DEF Laid, Placed
<1>4. \A j \in 1 .. n, k \in 1 .. n : j < k => stream[j].at + stream[j].size <= stream[k].at
  BY <1>1 DEF Laid, Ordered
<1>5. ASSUME NEW j \in 1 .. n, NEW k \in 1 .. n, j < k, stream[j].at = stream[k].at
      PROVE  stream[j].size = 0
  <2>1. PICK a \in Nat, z \in Nat : a = stream[j].at /\ z = stream[j].size
    BY <1>3
  <2>2. stream[j].at + stream[j].size <= stream[k].at
    BY <1>4, <1>5
  <2>3. a + z <= a
    BY <1>5, <2>1, <2>2
  <2> QED
    BY <2>1, <2>3
<1>6. ASSUME NEW j \in 1 .. n, NEW k \in 1 .. n, j < k,
             stream[j].at = stream[k].at, stream[j].kind = stream[k].kind
      PROVE  FALSE
  <2>1. stream[j].kind = "payload"
    BY <1>1, <1>3, <1>5, <1>6 DEF Laid, Solid
  <2>2. PICK l \in 1 .. n : l = k - 1 /\ stream[l].kind = "local"
    <3>1. stream[k].kind = "payload" /\ Headed(stream)
      BY <1>6, <2>1 DEF Laid
    <3>2. k > 1 /\ stream[k - 1].kind = "local"
      BY <1>1, <3>1 DEF Headed
    <3>3. k - 1 \in 1 .. n
      BY <3>2
    <3> QED
      BY <3>2, <3>3
  <2>3. stream[l].size > 0 /\ l < k
    BY <1>1, <2>2 DEF Laid, Solid
  <2>4. j < l
    <3>1. j # l
      BY <2>1, <2>2
    <3> QED
      BY <1>6, <2>2, <3>1
  <2>5. stream[j].at + stream[j].size <= stream[l].at /\ stream[l].at + stream[l].size <= stream[k].at
    BY <1>4, <2>3, <2>4
  <2>6. PICK a \in Nat, y \in Nat, b \in Nat, z \in Nat :
          a = stream[j].at /\ y = stream[j].size /\ b = stream[l].at /\ z = stream[l].size
    BY <1>3
  <2>7. a + y <= b /\ b + z <= a /\ z > 0
    BY <1>6, <2>3, <2>5, <2>6
  <2> QED
    BY <2>7
<1>7. ASSUME NEW j \in A PROVE j = i
  <2>1. j \in 1 .. n /\ stream[j].at = stream[i].at /\ stream[j].kind = stream[i].kind
    BY <1>1 DEF At
  <2>2. ~(i < j) /\ ~(j < i)
    BY <1>1, <1>6, <2>1
  <2> QED
    BY <1>1, <2>1, <2>2
<1> HIDE DEF A
<1>8. A = {i}
  BY <1>2, <1>7
<1> QED
  BY <1>8 DEF IsAt, RecordAt, A

-----------------------------------------------------------------------------
(* The fields of a header, masked or not.                                  *)

LEMMA NoneMasked ==
    ASSUME NEW n \in Nat, NEW fields, DOMAIN fields = 1 .. n, NEW extra,
           \A j \in 1 .. n : fields[j] # U32_MAX
    PROVE  Values(fields, extra) = [j \in 1 .. n |-> {fields[j]}]
BY Zenon DEF Values

LEMMA AllMasked ==
    ASSUME NEW n \in Nat, NEW fields, DOMAIN fields = 1 .. n, NEW extra, DOMAIN extra = 1 .. n,
           \A j \in 1 .. n : fields[j] = U32_MAX
    PROVE  Values(fields, extra) = [j \in 1 .. n |-> {extra[j]}]
<1> DEFINE Count(j) == Cardinality({i \in 1 .. j : fields[i] = U32_MAX})
<1>1. ASSUME NEW j \in 1 .. n PROVE {extra[i] : i \in {Count(j)} \cap DOMAIN extra} = {extra[j]}
  <2>1. {i \in 1 .. j : fields[i] = U32_MAX} = 1 .. j
    OBVIOUS
  <2>2. Cardinality(1 .. j) = j
    <3>1. 1 \in Int /\ j \in Int /\ ~(1 > j) /\ j - 1 + 1 = j
      OBVIOUS
    <3> QED
      BY <3>1, FS_Interval
  <2>3. Count(j) = j
    BY <2>1, <2>2
  <2> HIDE DEF Count
  <2> QED
    BY <2>3
<1>2. Values(fields, extra) =
        [j \in DOMAIN fields |-> IF fields[j] # U32_MAX THEN {fields[j]}
                                 ELSE {extra[i] : i \in {Count(j)} \cap DOMAIN extra}]
  BY DEF Values
<1> HIDE DEF Count
<1> QED
  BY <1>1, <1>2, Zenon

(* Values that fit 32 bits are stored as they are.                         *)
LEMMA Plain ==
    ASSUME NEW v \in Nat, v < U32_MAX
    PROVE  Field32(FALSE, v) = v /\ v # U32_MAX
<1>1. v % (U32_MAX + 1) = v
  BY LimitAssumption
<1> QED
  BY <1>1, LimitAssumption DEF Field32

Entries == [file : Files, lfh_offset : Nat]

LEMMA EntryTyped ==
    ASSUME NEW e \in Entries
    PROVE  /\ e.file \in Files /\ e.lfh_offset \in Nat
           /\ e.file.len \in Nat /\ e.file.csize \in Nat /\ e.file.usize \in Nat
BY FilesAssumption DEF Entries

(* A local header gives the sizes of its file.                             *)
LEMMA LocalRead ==
    ASSUME NEW e \in Entries, NEW at \in Nat
    PROVE  /\ LocalHeader(e, at).kind = "local" /\ LocalHeader(e, at).at = at
           /\ LocalHeader(e, at).size \in Nat /\ LocalHeader(e, at).size >= 30
           /\ LocalHeader(e, at).name = e.file.name
           /\ LocalValues(LocalHeader(e, at)) = <<{e.file.usize}, {e.file.csize}>>
<1> DEFINE h == LocalHeader(e, at)
           u == e.file.usize
           c == e.file.csize
<1>0. e.file.len \in Nat /\ c \in Nat /\ u \in Nat /\ U32_MAX \in Nat
  BY EntryTyped, LimitAssumption
<1>1. h.kind = "local" /\ h.at = at /\ h.name = e.file.name
  BY DEF LocalHeader
<1>2. h.size = 30 + e.file.len + IF NeedsZip64(e) THEN 20 ELSE 0
  BY DEF LocalHeader
<1>3. h.size \in Nat /\ h.size >= 30
  <2> HIDE DEF h
  <2> QED
    BY <1>0, <1>2
<1>4. CASE NeedsZip64(e)
  <2>1. h.usize = U32_MAX /\ h.csize = U32_MAX /\ h.extra = <<u, c>>
    BY <1>4 DEF LocalHeader, Field32
  <2> DEFINE fields == <<U32_MAX, U32_MAX>>
             extra == <<u, c>>
  <2>2. DOMAIN fields = 1 .. 2 /\ DOMAIN extra = 1 .. 2 /\ \A j \in 1 .. 2 : fields[j] = U32_MAX
    OBVIOUS
  <2>3. [j \in 1 .. 2 |-> {extra[j]}] = <<{u}, {c}>>
    OBVIOUS
  <2>4. LocalValues(h) = Values(fields, extra)
    BY <2>1 DEF LocalValues
  <2> HIDE DEF fields, extra
  <2>5. Values(fields, extra) = [j \in 1 .. 2 |-> {extra[j]}]
    <3>1. PICK n \in Nat : n = 2
      OBVIOUS
    <3>2. DOMAIN fields = 1 .. n
      BY <2>2, <3>1
    <3>3. DOMAIN extra = 1 .. n
      BY <2>2, <3>1
    <3>4. \A j \in 1 .. n : fields[j] = U32_MAX
      BY <2>2, <3>1
    <3>5. Values(fields, extra) = [j \in 1 .. n |-> {extra[j]}]
      BY <3>2, <3>3, <3>4, AllMasked
    <3> QED
      BY <3>1, <3>5
  <2>6. LocalValues(h) = <<{u}, {c}>>
    BY <2>3, <2>4, <2>5
  <2> QED
    BY <1>1, <1>3, <2>6
<1>5. CASE ~NeedsZip64(e)
  <2>1. u < U32_MAX /\ c < U32_MAX
    BY <1>0, <1>5 DEF NeedsZip64
  <2>2. h.usize = u /\ h.csize = c /\ u # U32_MAX /\ c # U32_MAX
    <3>1. h.usize = Field32(FALSE, u) /\ h.csize = Field32(FALSE, c)
      BY <1>5 DEF LocalHeader, Field32
    <3> HIDE DEF h
    <3> QED
      BY <1>0, <2>1, <3>1, Plain
  <2> DEFINE fields == <<u, c>>
  <2>3. DOMAIN fields = 1 .. 2 /\ \A j \in 1 .. 2 : fields[j] # U32_MAX
    BY <2>2
  <2>4. [j \in 1 .. 2 |-> {fields[j]}] = <<{u}, {c}>>
    OBVIOUS
  <2>5. LocalValues(h) = Values(fields, h.extra)
    BY <2>2 DEF LocalValues
  <2> HIDE DEF fields
  <2>6. Values(fields, h.extra) = [j \in 1 .. 2 |-> {fields[j]}]
    <3>1. 2 \in Nat
      OBVIOUS
    <3> QED
      BY <2>3, <3>1, NoneMasked
  <2>7. LocalValues(h) = <<{u}, {c}>>
    BY <2>4, <2>5, <2>6
  <2> QED
    BY <1>1, <1>3, <2>7
<1> QED
  BY <1>4, <1>5

LEMMA OverflowIs ==
    ASSUME NEW v \in Nat
    PROVE  /\ Overflow(v) \in Seq(Nat)
           /\ v >= U32_MAX => Overflow(v) = <<v>>
           /\ v < U32_MAX => Overflow(v) = <<>>
BY LimitAssumption DEF Overflow

(* What the extra field of a central entry holds. *)
Extra(e) == Overflow(e.file.usize) \o Overflow(e.file.csize) \o Overflow(e.lfh_offset)

LEMMA ExtraTyped ==
    ASSUME NEW e \in Entries
    PROVE  Len(Extra(e)) \in Nat
<1> DEFINE a == Overflow(e.file.usize)
           b == Overflow(e.file.csize)
           c == Overflow(e.lfh_offset)
<1>1. a \in Seq(Nat) /\ b \in Seq(Nat) /\ c \in Seq(Nat)
  BY EntryTyped, OverflowIs
<1>2. Extra(e) = (a \o b) \o c
  BY DEF Extra
<1> HIDE DEF a, b, c
<1>3. a \o b \in Seq(Nat)
  BY <1>1, ConcatProperties
<1>4. (a \o b) \o c \in Seq(Nat)
  BY <1>1, <1>3, ConcatProperties
<1> QED
  BY <1>2, <1>4, LenProperties

LEMMA CentralShape ==
    ASSUME NEW e \in Entries, NEW at \in Nat
    PROVE  /\ CentralHeader(e, at).kind = "central" /\ CentralHeader(e, at).at = at
           /\ CentralHeader(e, at).size \in Nat /\ CentralHeader(e, at).size >= 46
           /\ CentralHeader(e, at).name = e.file.name
<1> DEFINE h == CentralHeader(e, at)
<1>1. h.kind = "central" /\ h.at = at /\ h.name = e.file.name
  BY DEF CentralHeader
<1>2. h.size = 46 + e.file.len + IF NeedsZip64(e) THEN 4 + 8 * Len(Extra(e)) ELSE 0
  BY DEF CentralHeader, Extra
<1>3. PICK l \in Nat : l = Len(Extra(e))
  BY ExtraTyped
<1>4. PICK k \in Nat : k = e.file.len
  BY EntryTyped
<1> HIDE DEF h
<1>5. h.size \in Nat /\ h.size >= 46
  <2>1. PICK x \in Nat : x = IF NeedsZip64(e) THEN 4 + 8 * Len(Extra(e)) ELSE 0
    BY <1>3
  <2>2. h.size = 46 + k + x
    BY <1>2, <1>4, <2>1
  <2> QED
    BY <2>2
<1> QED
  BY <1>1, <1>5 DEF h

(* A central entry of which no value overflows, or every value, gives them *)
(* all.                                                                    *)
LEMMA CentralRead ==
    ASSUME NEW e \in Entries, NEW at \in Nat,
           \/ /\ e.file.usize < U32_MAX /\ e.file.csize < U32_MAX
              /\ e.lfh_offset < U32_MAX
           \/ /\ e.file.usize >= U32_MAX /\ e.file.csize >= U32_MAX
              /\ e.lfh_offset >= U32_MAX
    PROVE  CentralValues(CentralHeader(e, at)) = <<{e.file.usize}, {e.file.csize}, {e.lfh_offset}>>
<1> DEFINE h == CentralHeader(e, at)
           u == e.file.usize
           c == e.file.csize
           o == e.lfh_offset
<1>0. o \in Nat /\ c \in Nat /\ u \in Nat /\ U32_MAX \in Nat
  BY EntryTyped, LimitAssumption
<1>1. CASE u >= U32_MAX /\ c >= U32_MAX /\ o >= U32_MAX
  <2>1. h.usize = U32_MAX /\ h.csize = U32_MAX /\ h.offset = U32_MAX
    <3>1. NeedsZip64(e)
      BY <1>1 DEF NeedsZip64
    <3> QED
      BY <3>1 DEF CentralHeader, Field32
  <2> DEFINE fields == <<U32_MAX, U32_MAX, U32_MAX>>
             extra == <<u, c, o>>
  <2>2. h.extra = extra
    <3>1. h.extra = Overflow(u) \o Overflow(c) \o Overflow(o)
      BY DEF CentralHeader
    <3>2. Overflow(u) = <<u>> /\ Overflow(c) = <<c>> /\ Overflow(o) = <<o>>
      BY <1>0, <1>1, OverflowIs
    <3>3. <<u>> \o <<c>> \o <<o>> = <<u, c, o>>
      <4> DEFINE U == <<u>>
                 C == <<c>>
                 O == <<o>>
                 m == U \o C
                 w == m \o O
      <4>1. U \in Seq(Nat) /\ C \in Seq(Nat) /\ O \in Seq(Nat)
        BY <1>0
      <4>2. Len(U) = 1 /\ Len(C) = 1 /\ Len(O) = 1 /\ U[1] = u /\ C[1] = c /\ O[1] = o
        OBVIOUS
      <4>3. w = <<u>> \o <<c>> \o <<o>>
        OBVIOUS
      <4> HIDE DEF U, C, O, m, w
      <4>4. m \in Seq(Nat) /\ Joined(m, U, C)
        BY <4>1, Concatenated DEF m
      <4>5. w \in Seq(Nat) /\ Joined(w, m, O)
        BY <4>1, <4>4, Concatenated DEF w
      <4>6. Len(m) = 2 /\ m[1] = u /\ m[2] = c
        BY <4>2, <4>4 DEF Joined
      <4>7. DOMAIN w = 1 .. 3 /\ w[1] = u /\ w[2] = c /\ w[3] = o
        BY <4>2, <4>5, <4>6 DEF Joined
      <4>8. w = <<u, c, o>>
        <5>1. w = [j \in 1 .. 3 |-> w[j]]
          BY <4>5, <4>7, LenProperties
        <5>2. [j \in 1 .. 3 |-> w[j]] = <<w[1], w[2], w[3]>>
          OBVIOUS
        <5> QED
          BY <4>7, <5>1, <5>2
      <4> QED
        BY <4>3, <4>8
    <3> QED
      BY <3>1, <3>2, <3>3, Zenon
  <2>3. DOMAIN fields = 1 .. 3 /\ DOMAIN extra = 1 .. 3 /\ \A j \in 1 .. 3 : fields[j] = U32_MAX
    OBVIOUS
  <2>4. [j \in 1 .. 3 |-> {extra[j]}] = <<{u}, {c}, {o}>>
    OBVIOUS
  <2>5. CentralValues(h) = Values(fields, extra)
    BY <2>1, <2>2 DEF CentralValues
  <2> HIDE DEF fields, extra
  <2>6. Values(fields, extra) = [j \in 1 .. 3 |-> {extra[j]}]
    <3>1. PICK n \in Nat : n = 3
      OBVIOUS
    <3>2. DOMAIN fields = 1 .. n
      BY <2>3, <3>1
    <3>3. DOMAIN extra = 1 .. n
      BY <2>3, <3>1
    <3>4. \A j \in 1 .. n : fields[j] = U32_MAX
      BY <2>3, <3>1
    <3>5. Values(fields, extra) = [j \in 1 .. n |-> {extra[j]}]
      BY <3>2, <3>3, <3>4, AllMasked
    <3> QED
      BY <3>1, <3>5
  <2> QED
    BY <2>4, <2>5, <2>6
<1>2. CASE u < U32_MAX /\ c < U32_MAX /\ o < U32_MAX
  <2>1. h.usize = u /\ h.csize = c /\ h.offset = o /\ u # U32_MAX /\ c # U32_MAX /\ o # U32_MAX
    <3>1. ~NeedsZip64(e)
      BY <1>0, <1>2 DEF NeedsZip64
    <3>2. h.usize = Field32(FALSE, u) /\ h.csize = Field32(FALSE, c) /\ h.offset = Field32(FALSE, o)
      BY <3>1 DEF CentralHeader, Field32
    <3> HIDE DEF h
    <3> QED
      BY <1>0, <1>2, <3>2, Plain
  <2> DEFINE fields == <<u, c, o>>
  <2>2. DOMAIN fields = 1 .. 3 /\ \A j \in 1 .. 3 : fields[j] # U32_MAX
    BY <2>1
  <2>3. [j \in 1 .. 3 |-> {fields[j]}] = <<{u}, {c}, {o}>>
    OBVIOUS
  <2>4. CentralValues(h) = Values(fields, h.extra)
    BY <2>1 DEF CentralValues
  <2> HIDE DEF fields
  <2>5. Values(fields, h.extra) = [j \in 1 .. 3 |-> {fields[j]}]
    <3>1. 3 \in Nat
      OBVIOUS
    <3> QED
      BY <2>2, <3>1, NoneMasked
  <2> QED
    BY <2>3, <2>4, <2>5
<1> QED
  BY <1>0, <1>1, <1>2

-----------------------------------------------------------------------------
(* What a call writes is laid out from bytes_written on.                   *)

LEMMA FileLaid ==
    ASSUME NEW e \in Entries, bytes_written \in Nat
    PROVE  LET header == LocalHeader(e, bytes_written)
           IN  /\ Laid(FileRecords(e), bytes_written)
               /\ Len(FileRecords(e)) = 2
               /\ FileRecords(e)[1] = header
               /\ FileRecords(e)[2] = Payload(e, bytes_written + header.size)
<1> DEFINE header == LocalHeader(e, bytes_written)
           data == Payload(e, bytes_written + header.size)
           s == <<header, data>>
<1>1. FileRecords(e) = s
  BY DEF FileRecords
<1>2. /\ header.kind = "local" /\ header.at = bytes_written
      /\ header.size \in Nat /\ header.size >= 30
  BY LocalRead
<1>3. data.kind = "payload" /\ data.at = bytes_written + header.size /\ data.size = e.file.csize
  BY DEF Payload
<1>4. e.file.csize \in Nat
  BY EntryTyped
<1> HIDE DEF header, data
<1>5. s \in Seq(ToSet(s)) /\ Len(s) = 2 /\ s[1] = header /\ s[2] = data
  <2>1. DOMAIN s = 1 .. 2 /\ s[1] = header /\ s[2] = data /\ Len(s) = 2
    OBVIOUS
  <2>2. s \in Seq({header, data})
    OBVIOUS
  <2>3. ToSet(s) = {header, data}
    BY <2>1 DEF ToSet
  <2> HIDE DEF s
  <2> QED
    BY <2>1, <2>2, <2>3
<1> HIDE DEF s
<1>6. \A i : i \in 1 .. 2 <=> i = 1 \/ i = 2
  OBVIOUS
<1>7. Placed(s, bytes_written)
  BY <1>2, <1>3, <1>4, <1>5, <1>6 DEF Placed
<1>8. Solid(s)
  BY <1>2, <1>3, <1>5, <1>6 DEF Solid
<1>9. Ordered(s)
  BY <1>2, <1>3, <1>5, <1>6 DEF Ordered
<1>10. Headed(s)
  BY <1>2, <1>5, <1>6 DEF Headed
<1> QED
  BY <1>1, <1>5, <1>7, <1>8, <1>9, <1>10 DEF Laid, header, data

LEMMA EndingLaid ==
    ASSUME NEW o \in Nat, NEW z \in Nat
    PROVE  /\ Laid(EndRecords(o, z), o + z)
           /\ Len(EndRecords(o, z)) \in {1, 3}
           /\ EndRecords(o, z)[1].at = o + z
<1> DEFINE at == o + z
           n == Len(central)
           a == Eocd64(n, z, o, at)
           b == Locator(at, at + 56)
           c == Eocd(TRUE, n, z, o, at + 76)
           d == Eocd(FALSE, n, z, o, at)
<1>1. /\ a.kind = "eocd64" /\ a.at = at /\ a.size = 56
      /\ b.kind = "locator" /\ b.at = at + 56 /\ b.size = 20
      /\ c.kind = "eocd" /\ c.at = at + 76 /\ c.size = 22
      /\ d.kind = "eocd" /\ d.at = at /\ d.size = 22
  BY DEF Eocd64, Locator, Eocd
<1>2. EndRecords(o, z) = <<a, b, c>> \/ EndRecords(o, z) = <<d>>
  BY DEF EndRecords
<1>3. PICK m \in Nat : m = o + z
  OBVIOUS
<1> HIDE DEF a, b, c, d, n
<1>4. CASE EndRecords(o, z) = <<a, b, c>>
  <2> DEFINE s == <<a, b, c>>
  <2>1. DOMAIN s = 1 .. 3 /\ s[1] = a /\ s[2] = b /\ s[3] = c /\ Len(s) = 3
    OBVIOUS
  <2>2. s \in Seq({a, b, c})
    OBVIOUS
  <2>3. \A i : i \in 1 .. 3 <=> i = 1 \/ i = 2 \/ i = 3
    OBVIOUS
  <2>4. ToSet(s) = {a, b, c}
    BY <2>1, <2>3 DEF ToSet
  <2> HIDE DEF s
  <2>5. Placed(s, at)
    BY <1>1, <1>3, <2>1, <2>3 DEF Placed
  <2>6. Solid(s)
    BY <1>1, <2>1, <2>3 DEF Solid
  <2>7. Ordered(s)
    BY <1>1, <1>3, <2>1, <2>3 DEF Ordered
  <2>8. Headed(s)
    BY <1>1, <2>1, <2>3 DEF Headed
  <2>9. Laid(s, at)
    BY <2>2, <2>4, <2>5, <2>6, <2>7, <2>8 DEF Laid
  <2> QED
    BY <1>1, <1>4, <2>1, <2>9 DEF s
<1>5. CASE EndRecords(o, z) = <<d>>
  <2> DEFINE s == <<d>>
  <2>1. DOMAIN s = 1 .. 1 /\ s[1] = d /\ Len(s) = 1
    OBVIOUS
  <2>2. s \in Seq({d})
    OBVIOUS
  <2>3. \A i : i \in 1 .. 1 <=> i = 1
    OBVIOUS
  <2>4. ToSet(s) = {d}
    BY <2>1, <2>3 DEF ToSet
  <2> HIDE DEF s
  <2>5. Placed(s, at)
    BY <1>1, <1>3, <2>1, <2>3 DEF Placed
  <2>6. Solid(s) /\ Headed(s)
    BY <1>1, <2>1, <2>3 DEF Solid, Headed
  <2>7. Ordered(s)
    BY <2>1, <2>3 DEF Ordered
  <2>9. Laid(s, at)
    BY <2>2, <2>4, <2>5, <2>6, <2>7 DEF Laid
  <2> QED
    BY <1>1, <1>5, <2>1, <2>9 DEF s
<1> QED
  BY <1>2, <1>4, <1>5

(* Where the entries of the directory end.                                 *)
LEMMA EndsDefined ==
    ASSUME central \in Seq(Entries), bytes_written \in Nat
    PROVE  LET n == Len(central) IN
           /\ DirectoryEnds[0] = bytes_written
           /\ \A k \in 1 .. n :
                 DirectoryEnds[k] = DirectoryEnds[k - 1] + CentralHeader(central[k], DirectoryEnds[k - 1]).size
           /\ \A k \in 0 .. n : DirectoryEnds[k] \in Nat
<1> DEFINE V == Nat
           step == [p \in (1 .. Len(central)) \X V |-> p[2] + CentralHeader(central[p[1]], p[2]).size]
           Solves(f) == f = [k \in 0 .. Len(central) |->
                                IF k = 0 THEN bytes_written
                                ELSE f[k - 1] + CentralHeader(central[k], f[k - 1]).size]
<1>1. PICK n \in Nat : n = Len(central)
  BY LenProperties
<1>2. ASSUME NEW x \in V, NEW k \in 1 .. n
      PROVE  x + CentralHeader(central[k], x).size \in V
  <2>1. central[k] \in Entries
    BY <1>1, ElementOfSeq
  <2>2. CentralHeader(central[k], x).size \in Nat
    BY <2>1, CentralShape
  <2> QED
    BY <2>2
<1> HIDE DEF V
<1>3. step \in Steps(n, V)
  BY <1>1, <1>2 DEF Steps
<1>4. PICK f \in [0 .. n -> V] :
        f[0] = bytes_written /\ \A k \in 1 .. n : f[k] = step[<<k, f[k - 1]>>]
  <2>1. bytes_written \in V
    BY DEF V
  <2> HIDE DEF step
  <2> QED
    BY <1>1, <1>3, <2>1, Recursion
<1>5. Solves(f)
  <2>1. ASSUME NEW k \in 1 .. n
        PROVE  step[<<k, f[k - 1]>>] = f[k - 1] + CentralHeader(central[k], f[k - 1]).size
    <3>1. k - 1 \in 0 .. n
      OBVIOUS
    <3>2. f[k - 1] \in V
      BY <3>1
    <3> QED
      BY <1>1, <3>1, <3>2
  <2>2. ASSUME NEW k \in 0 .. n
        PROVE  f[k] = IF k = 0 THEN bytes_written
                      ELSE f[k - 1] + CentralHeader(central[k], f[k - 1]).size
    <3>1. CASE k = 0
      BY <1>4, <3>1
    <3>2. CASE k # 0
      <4>1. k \in 1 .. n
        BY <3>2
      <4>2. f[k] = step[<<k, f[k - 1]>>]
        BY <1>4, <4>1, Zenon
      <4>3. f[k] = f[k - 1] + CentralHeader(central[k], f[k - 1]).size
        BY <2>1, <4>1, <4>2, Zenon
      <4> QED
        BY <3>2, <4>3, Zenon
    <3> QED
      BY <3>1, <3>2
  <2> QED
    BY <1>1, <2>2
<1>6. Solves(DirectoryEnds)
  BY <1>5 DEF DirectoryEnds
<1> DEFINE g == DirectoryEnds
<1> HIDE DEF g
<1>7. g[0] = bytes_written /\ \A k \in 1 .. n : g[k] = g[k - 1] + CentralHeader(central[k], g[k - 1]).size
  BY <1>1, <1>6 DEF g
<1> DEFINE T == {k \in 0 .. n : g[k] \in V}
<1>8. 0 \in T
  BY <1>7 DEF V
<1>9. ASSUME NEW k \in 1 .. n, k - 1 \in T PROVE k \in T
  <2>1. PICK x \in V : x = g[k - 1]
    BY <1>9
  <2>2. g[k] = x + CentralHeader(central[k], x).size
    BY <1>7, <2>1
  <2>3. k \in 0 .. n
    OBVIOUS
  <2>4. g[k] \in V
    BY <1>2, <2>2, Zenon
  <2> QED
    BY <2>3, <2>4
<1>10. \A k \in 0 .. n : k \in T
  <2> HIDE DEF T
  <2> QED
    BY <1>8, <1>9, IntervalInduction
<1> QED
  BY <1>1, <1>7, <1>10 DEF g, V

LEMMA DirectoryLaid ==
    ASSUME central \in Seq(Entries), bytes_written \in Nat
    PROVE  LET n == Len(central) IN
           /\ Laid(Directory, bytes_written) /\ Within(Directory, DirectoryEnds[n])
           /\ Len(Directory) = n /\ bytes_written <= DirectoryEnds[n]
           /\ \A k \in 1 .. n : Directory[k] = CentralHeader(central[k], DirectoryEnds[k - 1])
<1> DEFINE d == Directory
           f == DirectoryEnds
           bw == bytes_written
<1>1. PICK n \in Nat : n = Len(central)
  BY LenProperties
<1>2. /\ f[0] = bw
      /\ \A k \in 1 .. n : f[k] = f[k - 1] + CentralHeader(central[k], f[k - 1]).size
      /\ \A k \in 0 .. n : f[k] \in Nat
  BY <1>1, EndsDefined
<1>3. d = [k \in 1 .. n |-> CentralHeader(central[k], f[k - 1])]
  BY <1>1 DEF Directory
<1> HIDE DEF d, f
<1>4. /\ DOMAIN d = 1 .. n
      /\ \A k \in 1 .. n : d[k] = CentralHeader(central[k], f[k - 1])
  BY <1>3
<1>5. d \in Seq(ToSet(d)) /\ Len(d) = n
  <2>1. d \in [1 .. n -> ToSet(d)]
    BY <1>3, <1>4 DEF ToSet
  <2>2. d \in Seq(ToSet(d))
    BY <1>1, <2>1, SeqDef
  <2>3. DOMAIN d = 1 .. Len(d) /\ Len(d) \in Nat
    BY <2>2, LenProperties
  <2> QED
    BY <1>4, <2>2, <2>3
<1>6. ASSUME NEW k \in 1 .. n
      PROVE  /\ d[k].kind = "central" /\ d[k].at = f[k - 1] /\ d[k].size \in Nat /\ d[k].size >= 46
             /\ f[k] = d[k].at + d[k].size /\ f[k - 1] \in Nat
  <2>1. central[k] \in Entries
    BY <1>1, ElementOfSeq
  <2>2. f[k - 1] \in Nat
    BY <1>2
  <2>3. f[k] = f[k - 1] + CentralHeader(central[k], f[k - 1]).size
    BY <1>2
  <2>4. d[k] = CentralHeader(central[k], f[k - 1])
    BY <1>4
  <2> QED
    BY <2>1, <2>2, <2>3, <2>4, CentralShape
<1> DEFINE T == {l \in 0 .. n : \A k \in 0 .. l : f[k] <= f[l]}
<1>7. \A l \in 0 .. n : l \in T
  <2>1. 0 \in T
    BY <1>2
  <2>2. ASSUME NEW l \in 1 .. n, l - 1 \in T PROVE l \in T
    <3>1. f[l - 1] <= f[l] /\ f[l - 1] \in Nat /\ f[l] \in Nat
      <4>1. PICK x \in Nat, y \in Nat : x = f[l - 1] /\ y = d[l].size /\ f[l] = x + y
        BY <1>6
      <4> QED
        BY <4>1
    <3>2. ASSUME NEW k \in 0 .. l PROVE f[k] <= f[l]
      <4>1. CASE k = l
        BY <3>1, <4>1
      <4>2. CASE k # l
        <5>1. k \in 0 .. l - 1 /\ k \in 0 .. n
          BY <4>2
        <5>2. f[k] <= f[l - 1]
          <6>1. \A i \in 0 .. l - 1 : f[i] <= f[l - 1]
            BY <2>2
          <6> QED
            BY <5>1, <6>1, Zenon
        <5>3. PICK x \in Nat, y \in Nat, z \in Nat : x = f[k] /\ y = f[l - 1] /\ z = f[l]
          BY <1>2, <3>1, <5>1
        <5>4. x <= y
          BY <5>2, <5>3, Zenon
        <5>5. y <= z
          BY <3>1, <5>3, Zenon
        <5>6. x <= z
          BY <5>4, <5>5
        <5> QED
          BY <5>3, <5>6, Zenon
      <4> QED
        BY <4>1, <4>2
    <3> QED
      BY <3>2
  <2> HIDE DEF T
  <2> QED
    BY <2>1, <2>2, IntervalInduction
<1>8. \A l \in 0 .. n, k \in 0 .. n : k <= l => f[k] <= f[l]
  BY <1>7
<1>9. Placed(d, bw)
  <2> SUFFICES ASSUME NEW k \in 1 .. n PROVE d[k].at \in Nat /\ d[k].size \in Nat /\ bw <= d[k].at
    BY <1>5 DEF Placed
  <2>1. k - 1 \in 0 .. n /\ 0 \in 0 .. n /\ 0 <= k - 1
    OBVIOUS
  <2>2. f[0] <= f[k - 1]
    BY <1>8, <2>1
  <2> QED
    BY <1>2, <1>6, <2>2
<1>10. Solid(d) /\ Headed(d)
  BY <1>5, <1>6 DEF Solid, Headed
<1>11. Ordered(d)
  <2> SUFFICES ASSUME NEW i \in 1 .. n, NEW j \in 1 .. n, i < j
               PROVE  d[i].at + d[i].size <= d[j].at
    BY <1>5 DEF Ordered
  <2>1. j - 1 \in 0 .. n /\ i \in 0 .. n /\ i <= j - 1
    OBVIOUS
  <2>2. f[i] <= f[j - 1]
    BY <1>8, <2>1
  <2>3. f[i] = d[i].at + d[i].size /\ d[j].at = f[j - 1]
    BY <1>6
  <2> QED
    BY <2>2, <2>3
<1>12. Within(d, f[n])
  <2> SUFFICES ASSUME NEW i \in 1 .. n PROVE d[i].at + d[i].size <= f[n]
    BY <1>5 DEF Within
  <2>1. n \in 0 .. n /\ i \in 0 .. n /\ i <= n
    OBVIOUS
  <2>2. f[i] <= f[n]
    BY <1>8, <2>1
  <2> QED
    BY <1>6, <2>2
<1>13. bw <= f[n]
  <2>1. n \in 0 .. n /\ 0 \in 0 .. n /\ 0 <= n
    OBVIOUS
  <2> QED
    BY <1>2, <1>8, <2>1
<1>14. Laid(d, bw)
  BY <1>5, <1>9, <1>10, <1>11 DEF Laid
<1> QED
  BY <1>1, <1>4, <1>5, <1>12, <1>13, <1>14 DEF d, f

(* What finish writes: the directory, then the end records, which say      *)
(* where it is and how long.                                               *)
LEMMA ClosingLaid ==
    ASSUME central \in Seq(Entries), bytes_written \in Nat
    PROVE  LET n == Len(central)
               ending == EndRecords(bytes_written, DirectoryEnds[n] - bytes_written)
           IN  /\ Laid(ClosingRecords, bytes_written)
               /\ Len(ending) \in {1, 3} /\ ending[1].at = DirectoryEnds[n]
               /\ Joined(ClosingRecords, Directory, ending)
<1> DEFINE n == Len(central)
           ending == EndRecords(bytes_written, DirectoryEnds[n] - bytes_written)
<1>1. PICK o \in Nat, f \in Nat : o = bytes_written /\ f = DirectoryEnds[n] /\ o <= f
  <2>1. n \in Nat
    BY LenProperties
  <2>2. DirectoryEnds[n] \in Nat
    BY <2>1, EndsDefined
  <2> QED
    BY <2>2, DirectoryLaid
<1>2. PICK z \in Nat : z = f - o /\ o + z = f
  BY <1>1
<1>3. Laid(ending, f) /\ Len(ending) \in {1, 3} /\ ending[1].at = f
  BY <1>1, <1>2, EndingLaid
<1>4. Laid(Directory, o) /\ Within(Directory, f)
  BY <1>1, DirectoryLaid
<1>5. ClosingRecords = Directory \o ending
  BY DEF ClosingRecords
<1> HIDE DEF ending, n
<1>6. Laid(Directory \o ending, o) /\ Joined(Directory \o ending, Directory, ending)
  BY <1>1, <1>3, <1>4, Extended
<1> QED
  BY <1>1, <1>3, <1>5, <1>6 DEF ending, n

-----------------------------------------------------------------------------
(* The invariant.                                                          *)

(* The state is typed, and the records are laid out up to bytes_written.   *)
ZipTyped ==
    /\ pc \in {"new", "open", "failed", "finished"}
    /\ central \in Seq(Entries)
    /\ files \in Seq(Files)
    /\ needs_zip64 \in BOOLEAN
    /\ bytes_written \in Nat
    /\ Laid(stream, 0) /\ Within(stream, bytes_written)

(* An entry is that of a file taken, whose two records are in the output.  *)
Kept ==
    /\ Len(files) = Len(central)
    /\ \A k \in 1 .. Len(central) :
          /\ central[k].file = files[k]
          /\ 2 * k <= Len(stream)
          /\ stream[2 * k - 1] = LocalHeader(central[k], central[k].lfh_offset)
          /\ stream[2 * k] =
                Payload(central[k], central[k].lfh_offset
                                       + LocalHeader(central[k], central[k].lfh_offset).size)

(* Behind the files' records a finished archive has the directory, entry   *)
(* behind entry, and the end records that lead to it.                      *)
Closed ==
    LET n      == Len(central)
        ends   == EndRecords(stream[2 * n + 1].at, stream[3 * n + 1].at - stream[2 * n + 1].at)
    IN  /\ Len(stream) = 3 * n + Len(ends) /\ Len(ends) \in {1, 3}
        /\ \A k \in 1 .. n :
              /\ stream[2 * n + k] = CentralHeader(central[k], stream[2 * n + k].at)
              /\ stream[2 * n + k + 1].at = stream[2 * n + k].at + stream[2 * n + k].size
        /\ \A i \in 1 .. Len(ends) : stream[3 * n + i] = ends[i]

ZipInv ==
    /\ ZipTyped /\ Kept
    /\ pc \in {"new", "open"} => Len(stream) = 2 * Len(central)
    /\ pc = "finished" => Closed

LEMMA RecordsWritten ==
    ASSUME ZipTyped, NEW records, Laid(records, bytes_written), Write(records)
    PROVE  /\ bytes_written' \in Nat
           /\ Laid(stream, 0)' /\ Within(stream, bytes_written)'
           /\ Joined(stream', stream, records)
<1>1. stream' = stream \o records /\ bytes_written' = End(records, bytes_written)
  BY DEF Write
<1>2. 0 \in Nat /\ bytes_written \in Nat /\ 0 <= bytes_written
  BY DEF ZipTyped
<1>3. Laid(stream, 0) /\ Within(stream, bytes_written)
  BY DEF ZipTyped
<1>4. /\ Laid(stream \o records, 0) /\ Within(stream \o records, End(records, bytes_written))
      /\ End(records, bytes_written) \in Nat /\ Joined(stream \o records, stream, records)
  BY <1>2, <1>3, Extended
<1>5. Laid(stream', 0) /\ Within(stream', bytes_written')
  BY <1>1, <1>4
<1>6. Laid(stream, 0)' /\ Within(stream, bytes_written)'
  BY <1>5 DEF Laid, Placed, Solid, Ordered, Headed, Within
<1> QED
  BY <1>1, <1>4, <1>6

(* What follows leaves the records of the entries kept as they are.        *)
LEMMA KeptLonger ==
    ASSUME ZipTyped, Kept, NEW records, Len(records) \in Nat, Joined(stream', stream, records),
           central' = central, files' = files
    PROVE  Kept'
<1>1. PICK n \in Nat, l \in Nat, r \in Nat :
        n = Len(central) /\ l = Len(stream) /\ r = Len(records)
  BY LenProperties DEF ZipTyped, Laid
<1>2. Len(stream') = l + r /\ \A i \in 1 .. l : stream'[i] = stream[i]
  BY <1>1 DEF Joined
<1>3. ASSUME NEW k \in 1 .. n
      PROVE  /\ 2 * k <= Len(stream')
             /\ stream'[2 * k - 1] = stream[2 * k - 1] /\ stream'[2 * k] = stream[2 * k]
  <2>1. 2 * k <= l
    BY <1>1 DEF Kept
  <2>2. 2 * k - 1 \in 1 .. l /\ 2 * k \in 1 .. l /\ 2 * k <= l + r
    BY <2>1
  <2> QED
    BY <1>2, <2>2
<1> QED
  BY <1>1, <1>3 DEF Kept

LEMMA ZipInitInv == WriterInit /\ ZipInit => ZipInv
<1> SUFFICES ASSUME WriterInit, ZipInit PROVE ZipInv
  OBVIOUS
<1>1. stream = <<>> /\ central = <<>> /\ files = <<>> /\ bytes_written = 0
      /\ pc = "new" /\ needs_zip64 = FALSE
  BY DEF WriterInit, ZipInit
<1>2. Len(stream) = 0 /\ Len(central) = 0 /\ Len(files) = 0
  BY <1>1
<1>3. stream \in Seq(ToSet(stream)) /\ central \in Seq(Entries) /\ files \in Seq(Files)
  BY <1>1
<1>4. 1 .. Len(stream) = {} /\ 1 .. Len(central) = {}
  BY <1>2
<1>5. Laid(stream, 0) /\ Within(stream, bytes_written)
  BY <1>3, <1>4 DEF Laid, Placed, Solid, Ordered, Headed, Within
<1>6. ZipTyped
  BY <1>1, <1>3, <1>5, Zenon DEF ZipTyped
<1>7. Kept
  BY <1>2, <1>4, Zenon DEF Kept
<1>8. Len(stream) = 2 * Len(central)
  BY <1>2
<1> QED
  BY <1>1, <1>6, <1>7, <1>8 DEF ZipInv

LEMMA WriteFileInv ==
    ASSUME ZipInv, NEW f \in Files, ZipWriteFile(f)
    PROVE  ZipInv'
<1> DEFINE e == EntryOf(f)
           records == FileRecords(e)
           header == LocalHeader(e, bytes_written)
<1>1. ZipTyped /\ Kept /\ pc = "open" /\ Len(stream) = 2 * Len(central)
  BY DEF ZipInv, ZipWriteFile
<1>2. e \in Entries /\ e.lfh_offset = bytes_written /\ e.file = f /\ bytes_written \in Nat
  BY <1>1 DEF EntryOf, Entries, ZipTyped
<1>3. /\ Write(records) /\ central' = Append(central, e) /\ files' = Append(files, f)
      /\ needs_zip64' = (needs_zip64 \/ NeedsZip64(e)) /\ pc' = pc
  BY DEF ZipWriteFile
<1> HIDE DEF e, records, header
<1>4. /\ Laid(records, bytes_written) /\ Len(records) = 2
      /\ records[1] = header /\ records[2] = Payload(e, bytes_written + header.size)
  BY <1>2, FileLaid DEF records, header
<1>5. /\ bytes_written' \in Nat
      /\ Laid(stream, 0)' /\ Within(stream, bytes_written)'
      /\ Joined(stream', stream, records)
  BY <1>1, <1>3, <1>4, RecordsWritten
<1>6. PICK n \in Nat : n = Len(central) /\ n = Len(files) /\ Len(stream) = 2 * n
  BY <1>1, LenProperties DEF ZipTyped, Kept
<1>7. /\ central' \in Seq(Entries) /\ Len(central') = n + 1
      /\ \A k \in 1 .. n : central'[k] = central[k]
      /\ central'[n + 1] = e
  <2>1. central \in Seq(Entries) /\ e \in Entries
    BY <1>2, <1>1 DEF ZipTyped
  <2>2. PICK s : s = Append(central, e)
    OBVIOUS
  <2>3. s \in Seq(Entries) /\ Len(s) = Len(central) + 1
    BY <2>1, <2>2, AppendProperties
  <2>4. (\A k \in 1 .. Len(central) : s[k] = central[k]) /\ s[Len(central) + 1] = e
    BY <2>1, <2>2, AppendProperties
  <2>5. central' = s
    BY <1>3, <2>2
  <2> QED
    BY <1>6, <2>3, <2>4, <2>5
<1>8. /\ files' \in Seq(Files) /\ Len(files') = n + 1
      /\ \A k \in 1 .. n : files'[k] = files[k]
      /\ files'[n + 1] = f
  <2>1. files \in Seq(Files) /\ f \in Files
    BY <1>1 DEF ZipTyped
  <2>2. PICK s : s = Append(files, f)
    OBVIOUS
  <2>3. s \in Seq(Files) /\ Len(s) = Len(files) + 1
    BY <2>1, <2>2, AppendProperties
  <2>4. (\A k \in 1 .. Len(files) : s[k] = files[k]) /\ s[Len(files) + 1] = f
    BY <2>1, <2>2, AppendProperties
  <2>5. files' = s
    BY <1>3, <2>2
  <2> QED
    BY <1>6, <2>3, <2>4, <2>5
<1>9. needs_zip64' \in BOOLEAN
  BY <1>1, <1>3 DEF ZipTyped, NeedsZip64
<1>10. ZipTyped'
  BY <1>1, <1>3, <1>5, <1>7, <1>8, <1>9 DEF ZipTyped
<1>11. /\ Len(stream') = 2 * n + 2
       /\ \A i \in 1 .. 2 * n : stream'[i] = stream[i]
       /\ stream'[2 * n + 1] = header
       /\ stream'[2 * n + 2] = Payload(e, bytes_written + header.size)
  <2>1. PICK m \in Nat : m = 2 * n /\ m = Len(stream)
    BY <1>6
  <2>2. /\ Len(stream') = m + 2
        /\ \A i \in 1 .. m : stream'[i] = stream[i]
        /\ \A i \in 1 .. 2 : stream'[m + i] = records[i]
    BY <1>4, <1>5, <2>1 DEF Joined
  <2>3. stream'[m + 1] = header /\ stream'[m + 2] = Payload(e, bytes_written + header.size)
    BY <1>4, <2>2
  <2> QED
    BY <2>1, <2>2, <2>3
<1>12. ASSUME NEW k \in 1 .. n + 1
       PROVE  /\ central'[k].file = files'[k]
              /\ 2 * k <= 2 * n + 2
              /\ stream'[2 * k - 1] = LocalHeader(central'[k], central'[k].lfh_offset)
              /\ stream'[2 * k] =
                    Payload(central'[k], central'[k].lfh_offset
                                            + LocalHeader(central'[k], central'[k].lfh_offset).size)
  <2>1. CASE k = n + 1
    <3>1. 2 * k - 1 = 2 * n + 1 /\ 2 * k = 2 * n + 2
      BY <2>1
    <3>2. central'[k] = e /\ files'[k] = f
      BY <1>7, <1>8, <2>1
    <3> QED
      BY <1>2, <1>11, <3>1, <3>2 DEF header
  <2>2. CASE k # n + 1
    <3>1. k \in 1 .. n /\ 2 * k - 1 \in 1 .. 2 * n /\ 2 * k \in 1 .. 2 * n
      BY <2>2
    <3>2. central'[k] = central[k] /\ files'[k] = files[k]
      BY <1>7, <1>8, <3>1
    <3>3. stream'[2 * k - 1] = stream[2 * k - 1] /\ stream'[2 * k] = stream[2 * k] /\ 2 * k <= 2 * n + 2
      BY <1>11, <3>1
    <3>4. /\ central[k].file = files[k]
          /\ stream[2 * k - 1] = LocalHeader(central[k], central[k].lfh_offset)
          /\ stream[2 * k] =
                Payload(central[k], central[k].lfh_offset
                                       + LocalHeader(central[k], central[k].lfh_offset).size)
      BY <1>1, <1>6, <3>1 DEF Kept
    <3> QED
      BY <3>2, <3>3, <3>4
  <2> QED
    BY <2>1, <2>2
<1>13. Kept'
  BY <1>7, <1>8, <1>11, <1>12 DEF Kept
<1>14. Len(stream') = 2 * Len(central')
  BY <1>7, <1>11
<1> QED
  BY <1>1, <1>3, <1>10, <1>13, <1>14 DEF ZipInv

(* A call of which only some records are in the file.                      *)
LEMMA ShortInv ==
    ASSUME ZipInv, NEW records, Laid(records, bytes_written), WriteShort(records)
    PROVE  ZipInv'
<1>1. ZipTyped /\ Kept /\ bytes_written \in Nat
  BY DEF ZipInv, ZipTyped
<1>2. PICK n \in 0 .. Len(records) - 1 : Write(SubSeq(records, 1, n))
  BY DEF WriteShort
<1>3. /\ pc' = "failed" /\ central' = central /\ needs_zip64' = needs_zip64 /\ files' = files
  BY DEF WriteShort, Fails
<1> DEFINE part == SubSeq(records, 1, n)
<1>4. Laid(part, bytes_written)
  BY <1>1, ShortLaid
<1> HIDE DEF part
<1>5. Write(part)
  BY <1>2 DEF part
<1>6. /\ bytes_written' \in Nat
      /\ Laid(stream, 0)' /\ Within(stream, bytes_written)'
      /\ Joined(stream', stream, part)
  BY <1>1, <1>4, <1>5, RecordsWritten
<1>7. Kept'
  BY <1>1, <1>3, <1>4, <1>6, KeptLonger, LenProperties DEF Laid
<1>8. ZipTyped'
  BY <1>1, <1>3, <1>6 DEF ZipTyped
<1> QED
  BY <1>3, <1>7, <1>8 DEF ZipInv

(* All of the closing records are in the file.                             *)
LEMMA CloseInv ==
    ASSUME ZipInv, pc = "open", Write(ClosingRecords), pc' \in {"finished", "failed"},
           UNCHANGED <<central, needs_zip64, files>>
    PROVE  ZipInv'
<1> DEFINE records == ClosingRecords
           d == Directory
           f == DirectoryEnds
           ends == EndRecords(bytes_written, f[Len(central)] - bytes_written)
<1>1. ZipTyped /\ Kept /\ bytes_written \in Nat /\ Len(stream) = 2 * Len(central)
  BY DEF ZipInv, ZipTyped
<1>2. PICK n \in Nat, m \in Nat : n = Len(central) /\ m = Len(stream) /\ m = 2 * n
  BY <1>1, LenProperties DEF ZipTyped
<1>3. central \in Seq(Entries)
  BY <1>1 DEF ZipTyped
<1>4. /\ Laid(records, bytes_written) /\ Len(ends) \in {1, 3} /\ ends[1].at = f[n]
      /\ Joined(records, d, ends)
  BY <1>1, <1>2, <1>3, ClosingLaid
<1>5. Len(d) = n /\ \A k \in 1 .. n : d[k] = CentralHeader(central[k], f[k - 1])
  BY <1>1, <1>2, <1>3, DirectoryLaid
<1>6. /\ f[0] = bytes_written
      /\ \A k \in 1 .. n : f[k] = f[k - 1] + CentralHeader(central[k], f[k - 1]).size
      /\ \A k \in 0 .. n : f[k] \in Nat
  BY <1>1, <1>2, <1>3, EndsDefined
<1>7. ends = EndRecords(f[0], f[n] - f[0])
  BY <1>2, <1>6
<1> HIDE DEF records, d, f, ends
<1>9. /\ bytes_written' \in Nat
      /\ Laid(stream, 0)' /\ Within(stream, bytes_written)'
      /\ Joined(stream', stream, records)
  BY <1>1, <1>4, RecordsWritten DEF records
<1>10. PICK z \in Nat : z = Len(ends) /\ z \in {1, 3}
  BY <1>4
<1>11. Len(records) = n + z
  BY <1>4, <1>5, <1>10 DEF Joined
<1>12. ZipTyped'
  BY <1>1, <1>9 DEF ZipTyped
<1>13. Kept'
  BY <1>1, <1>9, <1>11, KeptLonger
<1>14. /\ \A k \in 1 .. n : records[k] = CentralHeader(central[k], f[k - 1])
       /\ \A i \in 1 .. z : records[n + i] = ends[i]
  BY <1>4, <1>5, <1>10 DEF Joined
<1>15. \A j \in 1 .. n + z : stream'[m + j] = records[j]
  BY <1>2, <1>9, <1>11 DEF Joined
<1>16. Len(stream') = m + n + z
  <2>1. Len(stream') = m + (n + z)
    BY <1>2, <1>9, <1>11 DEF Joined
  <2> QED
    BY <2>1
<1>17. ASSUME NEW k \in 1 .. n
       PROVE  /\ stream'[m + k] = CentralHeader(central[k], f[k - 1])
              /\ stream'[m + k].at = f[k - 1]
              /\ f[k] = f[k - 1] + stream'[m + k].size
  <2>1. k \in 1 .. n + z
    OBVIOUS
  <2>2. stream'[m + k] = CentralHeader(central[k], f[k - 1])
    BY <1>14, <1>15, <2>1
  <2>3. central[k] \in Entries /\ f[k - 1] \in Nat
    BY <1>2, <1>3, <1>6, ElementOfSeq
  <2>4. CentralHeader(central[k], f[k - 1]).at = f[k - 1]
    BY <2>3, CentralShape
  <2> QED
    BY <1>6, <2>2, <2>4
<1>18. ASSUME NEW i \in 1 .. z PROVE stream'[3 * n + i] = ends[i]
  <2>1. n + i \in 1 .. n + z /\ m + (n + i) = 3 * n + i
    BY <1>2
  <2> QED
    BY <1>14, <1>15, <2>1
<1>19. stream'[3 * n + 1].at = f[n]
  <2>1. 1 \in 1 .. z
    BY <1>10
  <2> QED
    BY <1>4, <1>18, <2>1
<1>20. ASSUME NEW j \in 0 .. n PROVE stream'[2 * n + 1 + j].at = f[j]
  <2>1. CASE j = n
    <3>1. 2 * n + 1 + j = 3 * n + 1
      BY <2>1
    <3> QED
      BY <1>19, <2>1, <3>1
  <2>2. CASE j # n
    <3>1. PICK k \in 1 .. n : k = j + 1 /\ k - 1 = j /\ 2 * n + 1 + j = m + k
      <4>1. j + 1 \in 1 .. n /\ (j + 1) - 1 = j /\ 2 * n + 1 + j = m + (j + 1)
        BY <1>2, <2>2
      <4> QED
        BY <4>1
    <3> QED
      BY <1>17, <3>1
  <2> QED
    BY <2>1, <2>2
<1>21. stream'[2 * n + 1].at = f[0]
  <2>1. 0 \in 0 .. n /\ 2 * n + 1 + 0 = 2 * n + 1
    OBVIOUS
  <2> QED
    BY <1>20, <2>1
<1> DEFINE last == EndRecords(stream[2 * Len(central) + 1].at,
                              stream[3 * Len(central) + 1].at - stream[2 * Len(central) + 1].at)
<1>22. last' = ends
  <2>1. last' = EndRecords(stream'[2 * n + 1].at, stream'[3 * n + 1].at - stream'[2 * n + 1].at)
    BY <1>2 DEF EndRecords
  <2> QED
    BY <1>7, <1>19, <1>21, <2>1
<1> HIDE DEF last
<1>23. Len(stream') = 3 * n + Len(last') /\ Len(last') \in {1, 3}
  BY <1>2, <1>10, <1>16, <1>22
<1>24. ASSUME NEW k \in 1 .. n
       PROVE  /\ stream'[2 * n + k] = CentralHeader(central[k], stream'[2 * n + k].at)
              /\ stream'[2 * n + k + 1].at = stream'[2 * n + k].at + stream'[2 * n + k].size
  <2>1. k \in 0 .. n /\ 2 * n + k + 1 = 2 * n + 1 + k /\ 2 * n + k = m + k
    BY <1>2
  <2>2. stream'[2 * n + k + 1].at = f[k]
    BY <1>20, <2>1
  <2> QED
    BY <1>17, <2>1, <2>2
<1>25. \A i \in 1 .. Len(last') : stream'[3 * n + i] = last'[i]
  BY <1>10, <1>18, <1>22
<1>26. Closed'
  BY <1>2, <1>23, <1>24, <1>25 DEF Closed, last
<1> QED
  BY <1>12, <1>13, <1>26 DEF ZipInv

LEMMA ZipNextInv ==
    ASSUME ZipInv, ZipNext
    PROVE  ZipInv'
<1>1. ZipTyped /\ Kept /\ bytes_written \in Nat /\ central \in Seq(Entries)
  BY DEF ZipInv, ZipTyped
<1>2. CASE ZipBegin \/ ZipBeginFails
  <2>1. /\ stream' = stream /\ bytes_written' = bytes_written /\ central' = central
        /\ needs_zip64' = needs_zip64 /\ files' = files
        /\ pc = "new" /\ pc' \in {"open", "failed"}
    BY <1>2 DEF ZipBegin, ZipBeginFails, Opens, OpenFails, Fails, zipVars
  <2>2. Laid(stream, 0)' /\ Within(stream, bytes_written)'
    BY <1>1, <2>1 DEF ZipTyped, Laid, Placed, Solid, Ordered, Headed, Within
  <2>3. ZipTyped'
    BY <1>1, <2>1, <2>2 DEF ZipTyped
  <2>4. Kept'
    BY <1>1, <2>1 DEF Kept
  <2>5. Len(stream') = 2 * Len(central')
    BY <2>1 DEF ZipInv
  <2> QED
    BY <2>1, <2>3, <2>4, <2>5 DEF ZipInv
<1>3. ASSUME NEW f \in Files, ZipWriteFile(f) PROVE ZipInv'
  BY <1>3, WriteFileInv
<1>4. ASSUME NEW f \in Files, ZipWriteFails(f) PROVE ZipInv'
  <2>1. EntryOf(f) \in Entries
    BY <1>1 DEF EntryOf, Entries
  <2>2. Laid(FileRecords(EntryOf(f)), bytes_written)
    BY <1>1, <2>1, FileLaid
  <2>3. WriteShort(FileRecords(EntryOf(f)))
    BY <1>4 DEF ZipWriteFails
  <2> QED
    BY <2>2, <2>3, ShortInv
<1>5. CASE ZipFinish \/ ZipFlushFails
  BY <1>5, CloseInv DEF ZipFinish, ZipFlushFails, Fails
<1>6. CASE ZipFinishFails
  <2>1. Laid(ClosingRecords, bytes_written)
    BY <1>1, ClosingLaid
  <2> QED
    BY <1>6, <2>1, ShortInv DEF ZipFinishFails
<1> QED
  BY <1>2, <1>3, <1>4, <1>5, <1>6 DEF ZipNext

LEMMA ZipKeptInv ==
    ASSUME ZipInv, UNCHANGED <<writerVars, zipVars>>
    PROVE  ZipInv'
<1>1. /\ stream' = stream /\ bytes_written' = bytes_written /\ central' = central
      /\ needs_zip64' = needs_zip64 /\ files' = files /\ pc' = pc
  BY DEF writerVars, zipVars
<1>2. Laid(stream, 0)' /\ Within(stream, bytes_written)'
  BY <1>1 DEF ZipInv, ZipTyped, Laid, Placed, Solid, Ordered, Headed, Within
<1>3. ZipTyped'
  BY <1>1, <1>2 DEF ZipInv, ZipTyped
<1>4. Kept'
  BY <1>1 DEF ZipInv, Kept
<1>5. pc' \in {"new", "open"} => Len(stream') = 2 * Len(central')
  BY <1>1 DEF ZipInv
<1>6. Closed' <=> Closed
  BY <1>1 DEF Closed, EndRecords
<1> QED
  BY <1>1, <1>3, <1>4, <1>5, <1>6 DEF ZipInv

LEMMA ZipIsTyped == ZipInv => ZipTypeOK
<1> SUFFICES ASSUME ZipInv PROVE ZipTypeOK
  OBVIOUS
<1>1. ZipTyped
  BY DEF ZipInv
<1>2. \A i \in DOMAIN stream : stream[i].at \in Nat /\ stream[i].size \in Nat
  BY <1>1, LenProperties DEF ZipTyped, Laid, Placed
<1>3. ASSUME NEW e \in ToSet(central) PROVE e.file \in Files /\ e.lfh_offset \in Nat
  <2>1. e \in Entries
    BY <1>1, LenProperties, ElementOfSeq DEF ZipTyped, ToSet
  <2> QED
    BY <2>1, EntryTyped
<1> QED
  BY <1>1, <1>2, <1>3 DEF ZipTyped, ZipTypeOK

-----------------------------------------------------------------------------
(* What a reader makes of it.                                              *)

(* The local header and the payload of an entry kept.                      *)
LEMMA LocalFound ==
    ASSUME ZipInv, NEW k \in 1 .. Len(central)
    PROVE  LET e      == central[k]
               header == RecordAt(e.lfh_offset, "local")
               data   == e.lfh_offset + header.size
           IN  /\ e \in Entries /\ e.file = files[k]
               /\ IsAt(e.lfh_offset, "local")
               /\ header.name = e.file.name
               /\ LocalValues(header) = <<{e.file.usize}, {e.file.csize}>>
               /\ IsAt(data, "payload") /\ RecordAt(data, "payload").size = e.file.csize
<1> DEFINE e == central[k]
           header == LocalHeader(e, e.lfh_offset)
           at == e.lfh_offset + header.size
           data == Payload(e, at)
<1>1. /\ Laid(stream, 0) /\ central \in Seq(Entries)
      /\ e.file = files[k] /\ 2 * k <= Len(stream)
      /\ stream[2 * k - 1] = header /\ stream[2 * k] = data
  BY DEF ZipInv, ZipTyped, Kept
<1>2. e \in Entries
  BY <1>1, ElementOfSeq
<1>3. e.lfh_offset \in Nat
  BY <1>2, EntryTyped
<1>4. /\ header.kind = "local" /\ header.at = e.lfh_offset /\ header.name = e.file.name
      /\ LocalValues(header) = <<{e.file.usize}, {e.file.csize}>>
  BY <1>2, <1>3, LocalRead
<1>5. data.kind = "payload" /\ data.at = at /\ data.size = e.file.csize
  BY DEF Payload
<1>6. PICK i \in 1 .. Len(stream), j \in 1 .. Len(stream) : i = 2 * k - 1 /\ j = 2 * k
  <2>1. Len(stream) \in Nat /\ Len(central) \in Nat
    BY <1>1, LenProperties DEF Laid
  <2>2. 2 * k - 1 \in 1 .. Len(stream) /\ 2 * k \in 1 .. Len(stream)
    BY <1>1, <2>1
  <2> QED
    BY <2>2
<1> HIDE DEF header, data
<1>7. stream[i] = header /\ stream[j] = data
  BY <1>1, <1>6
<1>8. IsAt(stream[i].at, stream[i].kind) /\ RecordAt(stream[i].at, stream[i].kind) = stream[i]
  BY <1>1, OnlyRecord
<1>9. IsAt(stream[j].at, stream[j].kind) /\ RecordAt(stream[j].at, stream[j].kind) = stream[j]
  BY <1>1, OnlyRecord
<1>10. IsAt(e.lfh_offset, "local") /\ RecordAt(e.lfh_offset, "local") = header
  BY <1>4, <1>7, <1>8
<1>11. IsAt(at, "payload") /\ RecordAt(at, "payload") = data
  BY <1>5, <1>7, <1>9
<1> QED
  BY <1>1, <1>2, <1>4, <1>5, <1>10, <1>11

LEMMA EntriesAre == ZipInv => EntriesComplete
<1> SUFFICES ASSUME ZipInv PROVE EntriesComplete
  OBVIOUS
<1>1. DOMAIN central = 1 .. Len(central)
  BY LenProperties DEF ZipInv, ZipTyped
<1> QED
  BY <1>1, LocalFound DEF EntriesComplete

(* The end records of a finished archive lead to its directory.            *)
LEMMA EndFound ==
    ASSUME ZipInv, pc = "finished"
    PROVE  LET n == Len(central)
               o == stream[2 * n + 1].at
               at == stream[3 * n + 1].at
           IN  /\ Masked => IsAt(EndRecord.at - 20, "locator") /\ IsAt(TheLocator.offset, "eocd64")
               /\ FoundDirectory.count = n /\ FoundDirectory.offset = o
               /\ FoundDirectory.size = at - o
               /\ (IF Masked THEN TheLocator.offset ELSE EndRecord.at) = at
               /\ o \in Nat /\ at \in Nat /\ o <= at
<1>1. Closed /\ Laid(stream, 0) /\ central \in Seq(Entries)
  BY DEF ZipInv, ZipTyped
<1>2. PICK n \in Nat, l \in Nat : n = Len(central) /\ l = Len(stream)
  BY <1>1, LenProperties DEF Laid
<1>3. PICK x, y : x = stream[2 * n + 1].at /\ y = stream[3 * n + 1].at
  OBVIOUS
<1> DEFINE s == EndRecords(x, y - x)
<1>4. /\ l = 3 * n + Len(s) /\ Len(s) \in {1, 3}
      /\ \A i \in 1 .. Len(s) : stream[3 * n + i] = s[i]
  BY <1>1, <1>2, <1>3 DEF Closed
<1>5. x \in Nat /\ y \in Nat /\ x <= y
  <2>1. 2 * n + 1 \in 1 .. l /\ 3 * n + 1 \in 1 .. l
    <3>1. PICK t \in {1, 3} : t = Len(s) /\ l = 3 * n + t
      BY <1>4
    <3> HIDE DEF s
    <3> QED
      BY <3>1
  <2>2. x \in Nat /\ y \in Nat /\ stream[2 * n + 1].size \in Nat
    BY <1>1, <1>2, <1>3, <2>1 DEF Laid, Placed
  <2>3. CASE n = 0
    BY <1>3, <2>2, <2>3
  <2>4. CASE n # 0
    <3>1. 2 * n + 1 < 3 * n + 1
      BY <2>4
    <3>2. PICK a \in 1 .. l, b \in 1 .. l : a = 2 * n + 1 /\ b = 3 * n + 1 /\ a < b
      BY <2>1, <3>1
    <3>3. stream[a].at + stream[a].size <= stream[b].at
      BY <1>1, <1>2, <3>2 DEF Laid, Ordered
    <3>4. PICK z \in Nat : z = stream[a].size
      BY <2>2, <3>2
    <3>5. x + z <= y
      BY <1>3, <3>2, <3>3, <3>4
    <3> QED
      BY <2>2, <3>5
  <2> QED
    BY <2>2, <2>3, <2>4
<1>6. PICK z \in Nat : z = y - x /\ x + z = y
  BY <1>5
<1> DEFINE a == Eocd64(n, z, x, y)
           b == Locator(y, y + 56)
           c == Eocd(TRUE, n, z, x, y + 76)
           d == Eocd(FALSE, n, z, x, y)
<1>7. \/ s = <<a, b, c>>
      \/ s = <<d>> /\ n < U16_MAX /\ z < U32_MAX /\ x < U32_MAX
  <2>1. ~(n >= U16_MAX) => n < U16_MAX
    BY LimitAssumption
  <2>2. ~(z >= U32_MAX) => z < U32_MAX
    BY LimitAssumption
  <2>3. ~(x >= U32_MAX) => x < U32_MAX
    BY <1>5, LimitAssumption
  <2> QED
    BY <1>2, <1>6, <2>1, <2>2, <2>3, Zenon DEF EndRecords
<1>8. /\ a.kind = "eocd64" /\ a.at = y /\ a.count = n /\ a.cdSize = z /\ a.cdOffset = x
      /\ b.kind = "locator" /\ b.at = y + 56 /\ b.offset = y
      /\ c.kind = "eocd" /\ c.at = y + 76
      /\ c.count = U16_MAX /\ c.cdSize = U32_MAX /\ c.cdOffset = U32_MAX
      /\ d.kind = "eocd" /\ d.at = y
      /\ d.count = Field16(FALSE, n) /\ d.cdSize = Field32(FALSE, z)
      /\ d.cdOffset = Field32(FALSE, x)
  BY DEF Eocd64, Locator, Eocd, Field16, Field32
<1> HIDE DEF a, b, c, d
<1>9. \A i \in 1 .. l : /\ IsAt(stream[i].at, stream[i].kind)
                        /\ RecordAt(stream[i].at, stream[i].kind) = stream[i]
  BY <1>1, <1>2, OnlyRecord
<1>10. CASE s = <<a, b, c>>
  <2>1. Len(s) = 3 /\ s[1] = a /\ s[2] = b /\ s[3] = c
    BY <1>10
  <2> HIDE DEF s
  <2>2. l = 3 * n + 3
    BY <1>4, <2>1
  <2>3. stream[3 * n + 1] = a /\ stream[3 * n + 2] = b /\ stream[3 * n + 3] = c
    BY <1>4, <2>1
  <2>4. 3 * n + 1 \in 1 .. l /\ 3 * n + 2 \in 1 .. l
    BY <2>2
  <2>5. EndRecord = c
    BY <1>2, <2>2, <2>3 DEF EndRecord, Last
  <2>6. EndRecord.at - 20 = y + 56
    BY <1>5, <1>8, <2>5
  <2>7. Masked
    BY <1>8, <2>5 DEF Masked
  <2>8. IsAt(y + 56, "locator") /\ RecordAt(y + 56, "locator") = b
    BY <1>8, <1>9, <2>3, <2>4
  <2>9. IsAt(y, "eocd64") /\ RecordAt(y, "eocd64") = a
    BY <1>8, <1>9, <2>3, <2>4
  <2>10. TheLocator = b
    BY <2>6, <2>8 DEF TheLocator
  <2>11. /\ FoundDirectory.count = a.count /\ FoundDirectory.size = a.cdSize
         /\ FoundDirectory.offset = a.cdOffset
    BY <1>8, <2>7, <2>9, <2>10 DEF FoundDirectory
  <2> QED
    BY <1>2, <1>3, <1>5, <1>6, <1>8, <2>6, <2>7, <2>8, <2>9, <2>10, <2>11
<1>11. CASE s = <<d>> /\ n < U16_MAX /\ z < U32_MAX /\ x < U32_MAX
  <2>1. Len(s) = 1 /\ s[1] = d
    BY <1>11
  <2> HIDE DEF s
  <2>2. l = 3 * n + 1 /\ stream[3 * n + 1] = d
    BY <1>4, <2>1
  <2>3. EndRecord = d
    BY <1>2, <2>2 DEF EndRecord, Last
  <2>4. d.count = n /\ n # U16_MAX
    <3>1. n % (U16_MAX + 1) = n
      BY <1>11, LimitAssumption
    <3> QED
      BY <1>8, <1>11, <3>1, LimitAssumption DEF Field16
  <2>5. d.cdSize = z /\ z # U32_MAX /\ d.cdOffset = x /\ x # U32_MAX
    BY <1>5, <1>8, <1>11, Plain
  <2>6. ~Masked
    BY <2>3, <2>4, <2>5 DEF Masked
  <2>7. FoundDirectory.count = n /\ FoundDirectory.size = z /\ FoundDirectory.offset = x
    BY <2>3, <2>4, <2>5, <2>6 DEF FoundDirectory
  <2> QED
    BY <1>2, <1>3, <1>5, <1>6, <1>8, <2>3, <2>6, <2>7
<1> QED
  BY <1>7, <1>10, <1>11

(* Entry after entry the reader comes by every entry of the directory.     *)
LEMMA EntriesFound ==
    ASSUME ZipInv, pc = "finished", NEW i \in 1 .. Len(central)
    PROVE  LET at == stream[2 * Len(central) + i].at
           IN  /\ at \in Nat /\ IsAt(EntryOffset[i], "central")
               /\ RecordAt(EntryOffset[i], "central") = CentralHeader(central[i], at)
<1> DEFINE offset(k) == stream[2 * Len(central) + k].at
           Solves(h) == h = [k \in 1 .. FoundDirectory.count |->
                                IF k = 1 THEN FoundDirectory.offset
                                ELSE h[k - 1] + RecordAt(h[k - 1], "central").size]
<1>1. Closed /\ Laid(stream, 0) /\ central \in Seq(Entries)
  BY DEF ZipInv, ZipTyped
<1>2. PICK n \in Nat, m \in Nat, l \in Nat : n = Len(central) /\ m = 2 * n /\ l = Len(stream)
  BY <1>1, LenProperties DEF Laid
<1>3. FoundDirectory.count = n /\ FoundDirectory.offset = stream[m + 1].at
  BY <1>2, EndFound
<1>4. ASSUME NEW k \in 1 .. n
      PROVE  /\ stream[m + k] = CentralHeader(central[k], stream[m + k].at)
             /\ stream[m + k + 1].at = stream[m + k].at + stream[m + k].size
             /\ m + k \in 1 .. l
  <2>1. /\ stream[m + k] = CentralHeader(central[k], stream[m + k].at)
        /\ stream[m + k + 1].at = stream[m + k].at + stream[m + k].size
    BY <1>1, <1>2 DEF Closed
  <2>2. m + k \in 1 .. l
    <3>1. PICK z \in {1, 3} : l = 3 * n + z
      BY <1>1, <1>2 DEF Closed
    <3> QED
      BY <1>2, <3>1
  <2> QED
    BY <2>1, <2>2
<1>5. ASSUME NEW k \in 1 .. n
      PROVE  /\ stream[m + k].at \in Nat /\ stream[m + k].kind = "central"
             /\ IsAt(stream[m + k].at, "central")
             /\ RecordAt(stream[m + k].at, "central") = stream[m + k]
  <2>1. PICK j \in 1 .. l : j = m + k
    BY <1>4
  <2>2. stream[j].at \in Nat
    BY <1>1, <1>2, <2>1 DEF Laid, Placed
  <2>3. central[k] \in Entries
    BY <1>1, <1>2, ElementOfSeq
  <2>4. stream[j] = CentralHeader(central[k], stream[j].at)
    BY <1>4, <2>1
  <2>5. CentralHeader(central[k], stream[j].at).kind = "central"
    BY <2>2, <2>3, CentralShape
  <2>6. stream[j].kind = "central"
    BY <2>4, <2>5
  <2>7. IsAt(stream[j].at, stream[j].kind) /\ RecordAt(stream[j].at, stream[j].kind) = stream[j]
    BY <1>1, <1>2, OnlyRecord
  <2> QED
    BY <2>1, <2>2, <2>6, <2>7
<1> DEFINE f == [k \in 1 .. n |-> stream[m + k].at]
<1>6. Solves(f)
  <2>1. ASSUME NEW k \in 1 .. n
        PROVE  f[k] = IF k = 1 THEN FoundDirectory.offset
                      ELSE f[k - 1] + RecordAt(f[k - 1], "central").size
    <3>1. CASE k = 1
      BY <1>3, <3>1
    <3>2. CASE k # 1
      <4>1. PICK j \in 1 .. n : j = k - 1 /\ m + j + 1 = m + k
        <5>1. k - 1 \in 1 .. n /\ m + (k - 1) + 1 = m + k
          BY <3>2
        <5> QED
          BY <5>1
      <4>2. f[j] = stream[m + j].at /\ f[k] = stream[m + k].at
        OBVIOUS
      <4>3. RecordAt(stream[m + j].at, "central") = stream[m + j]
        BY <1>5
      <4>4. stream[m + k].at = stream[m + j].at + stream[m + j].size
        <5>1. stream[m + j + 1].at = stream[m + j].at + stream[m + j].size
          BY <1>4, Zenon
        <5> QED
          BY <4>1, <5>1
      <4> HIDE DEF f
      <4>5. f[k] = f[j] + RecordAt(f[j], "central").size
        BY <4>2, <4>3, <4>4
      <4> QED
        BY <3>2, <4>1, <4>5
    <3> QED
      BY <3>1, <3>2
  <2> QED
    BY <1>3, <2>1
<1>7. Solves(EntryOffset)
  BY <1>6 DEF EntryOffset
<1> DEFINE g == EntryOffset
<1> HIDE DEF f, g
<1>8. \A k \in 1 .. n : g[k] = IF k = 1 THEN FoundDirectory.offset
                               ELSE g[k - 1] + RecordAt(g[k - 1], "central").size
  BY <1>3, <1>7 DEF g
<1>9. \A k \in 1 .. n : f[k] = IF k = 1 THEN FoundDirectory.offset
                               ELSE f[k - 1] + RecordAt(f[k - 1], "central").size
  BY <1>3, <1>6
<1> DEFINE T == {k \in 0 .. n : k = 0 \/ g[k] = f[k]}
<1>10. \A k \in 0 .. n : k \in T
  <2>1. 0 \in T
    OBVIOUS
  <2>2. ASSUME NEW k \in 1 .. n, k - 1 \in T PROVE k \in T
    <3>1. CASE k = 1
      BY <1>8, <1>9, <3>1
    <3>2. CASE k # 1
      <4>1. g[k - 1] = f[k - 1]
        BY <2>2, <3>2
      <4> QED
        BY <1>8, <1>9, <3>2, <4>1
    <3> QED
      BY <3>1, <3>2
  <2> HIDE DEF T
  <2> QED
    BY <2>1, <2>2, IntervalInduction
<1>11. i \in 1 .. n
  BY <1>2
<1>12. EntryOffset[i] = stream[m + i].at
  <2>1. i \in 0 .. n /\ i # 0
    BY <1>11
  <2>2. g[i] = f[i]
    BY <1>10, <2>1
  <2>3. f[i] = stream[m + i].at
    BY <1>11 DEF f
  <2> QED
    BY <2>2, <2>3 DEF g
<1> QED
  BY <1>2, <1>4, <1>5, <1>11, <1>12

LEMMA DirectoryIs == ZipInv => DirectoryFound
<1> SUFFICES ASSUME ZipInv, Written PROVE DirectoryFound
  BY DEF DirectoryFound
<1>1. pc = "finished"
  BY DEF Written
<1>2. Len(files) = Len(central) /\ central \in Seq(Entries)
  BY DEF ZipInv, ZipTyped, Kept
<1>3. PICK n, o, at :
        /\ n = Len(central) /\ o \in Nat /\ at \in Nat /\ o <= at
        /\ Masked => IsAt(EndRecord.at - 20, "locator") /\ IsAt(TheLocator.offset, "eocd64")
        /\ FoundDirectory.count = n /\ FoundDirectory.offset = o
        /\ FoundDirectory.size = at - o
        /\ (IF Masked THEN TheLocator.offset ELSE EndRecord.at) = at
  <2>1. PICK n, o, at : /\ n = Len(central)
                        /\ o = stream[2 * Len(central) + 1].at
                        /\ at = stream[3 * Len(central) + 1].at
    OBVIOUS
  <2> QED
    BY <1>1, <2>1, EndFound
<1>4. FoundDirectory.offset + FoundDirectory.size = at
  BY <1>3
<1>5. ASSUME NEW k \in 1 .. n
      PROVE  IsAt(EntryOffset[k], "central") /\ RecordAt(EntryOffset[k], "central").name = files[k].name
  <2>1. PICK x \in Nat : /\ IsAt(EntryOffset[k], "central")
                         /\ RecordAt(EntryOffset[k], "central") = CentralHeader(central[k], x)
    BY <1>1, <1>3, EntriesFound
  <2>2. central[k] \in Entries /\ central[k].file = files[k]
    BY <1>2, <1>3, LocalFound
  <2>3. CentralHeader(central[k], x).name = central[k].file.name
    BY <2>2, CentralShape
  <2> QED
    BY <2>1, <2>2, <2>3
<1> QED
  BY <1>2, <1>3, <1>4, <1>5 DEF DirectoryFound

LEMMA UniformIs == ZipInv => UniformRecovered
<1> SUFFICES ASSUME ZipInv, Written, NEW k \in 1 .. Len(files), Large(k) = {} \/ Small(k) = {}
             PROVE  Recovered(k)
  BY DEF UniformRecovered
<1> DEFINE e == central[k]
<1>1. pc = "finished"
  BY DEF Written
<1>2. k \in 1 .. Len(central)
  BY DEF ZipInv, Kept
<1>3. PICK x \in Nat : RecordAt(EntryOffset[k], "central") = CentralHeader(central[k], x)
  BY <1>1, <1>2, EntriesFound
<1>4. /\ e \in Entries /\ e.file = files[k]
      /\ IsAt(e.lfh_offset, "local")
      /\ RecordAt(e.lfh_offset, "local").name = e.file.name
      /\ LocalValues(RecordAt(e.lfh_offset, "local")) = <<{e.file.usize}, {e.file.csize}>>
      /\ IsAt(e.lfh_offset + RecordAt(e.lfh_offset, "local").size, "payload")
  BY <1>2, LocalFound
<1>5. e.file.usize \in Nat /\ e.file.csize \in Nat /\ e.lfh_offset \in Nat /\ U32_MAX \in Nat
  BY <1>4, EntryTyped, LimitAssumption
<1>6. \/ e.file.usize < U32_MAX /\ e.file.csize < U32_MAX /\ e.lfh_offset < U32_MAX
      \/ e.file.usize >= U32_MAX /\ e.file.csize >= U32_MAX /\ e.lfh_offset >= U32_MAX
  <2>1. PICK u \in Nat, c \in Nat, o \in Nat :
          u = e.file.usize /\ c = e.file.csize /\ o = e.lfh_offset
    BY <1>5
  <2>2. u = files[k].usize /\ c = files[k].csize /\ o = central[k].lfh_offset
    BY <1>4, <2>1
  <2> HIDE DEF e
  <2>3. CASE Large(k) = {}
    <3>1. ~(u >= U32_MAX) /\ ~(c >= U32_MAX) /\ ~(o >= U32_MAX)
      BY <2>2, <2>3 DEF Large
    <3>2. u < U32_MAX /\ c < U32_MAX /\ o < U32_MAX
      BY <1>5, <3>1
    <3> QED
      BY <2>1, <3>2
  <2>4. CASE Small(k) = {}
    <3>1. ~(u < U32_MAX) /\ ~(c < U32_MAX) /\ ~(o < U32_MAX)
      BY <2>2, <2>4 DEF Small
    <3>2. u >= U32_MAX /\ c >= U32_MAX /\ o >= U32_MAX
      BY <1>5, <3>1
    <3> QED
      BY <2>1, <3>2
  <2> QED
    BY <2>3, <2>4
<1>7. CentralValues(CentralHeader(e, x)) = <<{e.file.usize}, {e.file.csize}, {e.lfh_offset}>>
  BY <1>4, <1>6, CentralRead
<1> HIDE DEF e
<1> QED
  BY <1>3, <1>4, <1>7 DEF Recovered, e

-----------------------------------------------------------------------------
(* The job's writer.                                                       *)

(* A job writes ZIP or gzip, or nothing: only ZIP has entries, and only     *)
(* gzip's payload is followed.                                             *)
WritersInv ==
    /\ format \in Formats
    /\ pc \in {"new", "open", "failed", "finished"}
    /\ format = "zip" => ZipInv
    /\ format = "gzip" => GzipInv
    /\ format # "zip" => central = <<>>
    /\ format # "gzip" => total = 0 /\ payload = <<>>

LEMMA WritersInitInv == Init => WritersInv
<1> SUFFICES ASSUME Init PROVE WritersInv
  OBVIOUS
<1>1. WriterInit /\ ZipInit /\ GzipInit
  BY DEF Init
<1>2. format \in Formats /\ pc = "new"
  BY <1>1 DEF WriterInit
<1>3. format = "gzip" => GzipInv
  BY <1>1, GzipInitInv DEF Init
<1>4. format # "gzip" => total = 0 /\ payload = <<>>
  BY DEF Init
<1>5. ZipInv /\ central = <<>>
  BY <1>1, ZipInitInv DEF ZipInit
<1> QED
  BY <1>2, <1>3, <1>4, <1>5 DEF WritersInv

LEMMA FormatKept ==
    ASSUME ZipNext \/ GzipNext
    PROVE  format' = format
<1>1. CASE ZipNext
  BY <1>1 DEF ZipNext, ZipBegin, ZipBeginFails, ZipWriteFile, ZipWriteFails, ZipFinish,
             ZipFinishFails, ZipFlushFails, Opens, OpenFails, Fails, WriteShort
<1>2. CASE GzipNext
  BY <1>2 DEF GzipNext, GzipBegin, GzipBeginFails, Prepare, PrepareFails, GzipWriteFile, Refuse,
             GzipWriteFails, GzipFinish, Opens, OpenFails, Fails, writerVars
<1> QED
  BY <1>1, <1>2

LEMMA WritersNextInv == WritersInv /\ [Next]_vars => WritersInv'
<1> SUFFICES ASSUME WritersInv, [Next]_vars PROVE WritersInv'
  OBVIOUS
<1>1. CASE NoWriter
  BY <1>1 DEF NoWriter, OpenFails, Fails, payloadVars, zipVars, WritersInv
<1>2. CASE format = "zip" /\ ZipNext /\ UNCHANGED <<gzipVars, payloadVars>>
  <2>1. ZipInv' /\ format' = format
    BY <1>2, ZipNextInv, FormatKept DEF WritersInv
  <2>2. pc' \in {"new", "open", "failed", "finished"}
    BY <2>1 DEF ZipInv, ZipTyped
  <2> QED
    BY <1>2, <2>1, <2>2 DEF WritersInv, payloadVars
<1>3. CASE format = "gzip" /\ GzipNext /\ UNCHANGED zipVars
  <2>1. GzipInv' /\ format' = format
    BY <1>3, GzipNextInv, FormatKept DEF WritersInv
  <2>2. pc' \in {"new", "open", "failed", "finished"}
    BY <2>1 DEF GzipInv, GzipSteps
  <2> QED
    BY <1>3, <2>1, <2>2 DEF WritersInv, zipVars
<1>4. CASE UNCHANGED vars
  <2>1. UNCHANGED <<writerVars, zipVars>> /\ UNCHANGED <<writerVars, gzipVars, payloadVars>>
    BY <1>4 DEF vars
  <2>2. (format = "zip" => ZipInv') /\ (format = "gzip" => GzipInv')
    BY <2>1, ZipKeptInv, GzipKeptInv DEF WritersInv
  <2>3. /\ format' = format /\ pc' = pc /\ central' = central
        /\ total' = total /\ payload' = payload
    BY <2>1 DEF writerVars, zipVars, payloadVars
  <2> QED
    BY <2>2, <2>3 DEF WritersInv
<1> QED
  BY <1>1, <1>2, <1>3, <1>4 DEF Next

THEOREM WritersInvariant == Spec => []WritersInv
BY WritersInitInv, WritersNextInv, PTL DEF Spec

(* The writers' state is typed, whatever the sizes and wherever a write    *)
(* falls short: no call leaves a writer between two states.                *)
THEOREM WritersTypeCorrect == Spec => []TypeOK
<1>1. WritersInv => TypeOK
  BY ZipIsTyped, GzipTyped DEF WritersInv, TypeOK
<1> QED
  BY <1>1, WritersInvariant, PTL

(* A finished archive's end records lead to its directory, which names the *)
(* files written, on both sides of every Zip64 limit.                      *)
THEOREM DirectoryAlwaysFound == Spec => []DirectoryFound
<1>1. WritersInv => DirectoryFound
  BY DirectoryIs DEF WritersInv, DirectoryFound, Written
<1> QED
  BY <1>1, WritersInvariant, PTL

(* An entry whose three values all fit 32 bits, or all do not, is read     *)
(* back as it was written.                                                 *)
THEOREM UniformAlwaysRecovered == Spec => []UniformRecovered
<1>1. WritersInv => UniformRecovered
  BY UniformIs DEF WritersInv, UniformRecovered, Written
<1> QED
  BY <1>1, WritersInvariant, PTL

(* Every entry kept for the directory has its records in the output, and   *)
(* its local header gives both its sizes.                                  *)
THEOREM EntriesAlwaysComplete == Spec => []EntriesComplete
<1>1. ASSUME WritersInv PROVE EntriesComplete
  <2>1. CASE format = "zip"
    BY <1>1, <2>1, EntriesAre DEF WritersInv
  <2>2. CASE format # "zip"
    <3>1. DOMAIN central = {}
      <4>1. Len(central) = 0 /\ central \in Seq({})
        BY <1>1, <2>2 DEF WritersInv
      <4>2. DOMAIN central = 1 .. Len(central)
        BY <4>1, LenProperties
      <4> QED
        BY <4>1, <4>2
    <3> QED
      BY <3>1 DEF EntriesComplete
  <2> QED
    BY <2>1, <2>2
<1> QED
  BY <1>1, WritersInvariant, PTL

(* The payload of an assembled file is the whole file, in order, and the   *)
(* checksum combined from the blocks' is that of the file.                 *)
THEOREM PayloadAlwaysFile == Spec => []PayloadIsFile
<1>1. ASSUME WritersInv PROVE PayloadIsFile
  <2>1. CASE format = "gzip"
    BY <1>1, <2>1, PayloadRight DEF WritersInv, GzipInv
  <2>2. CASE format # "gzip"
    <3>1. Len(payload) = 0 /\ BlockCount = 1
      BY <1>1, <2>2 DEF WritersInv, BlockCount
    <3> QED
      BY <3>1 DEF PayloadIsFile, Assembled
  <2> QED
    BY <2>1, <2>2
<1> QED
  BY <1>1, WritersInvariant, PTL

(* A finished gzip output is one whole member, that of the job's only      *)
(* file; a second file leaves it as it was.                                *)
THEOREM AlwaysOneMember == Spec => []OneMember
<1>1. WritersInv => OneMember
  BY DEF WritersInv, GzipInv, GzipSteps, OneMember
<1> QED
  BY <1>1, WritersInvariant, PTL

(* A file of one block comes back out of a finished gzip output.           *)
THEOREM OneBlockComesBack == Spec => []OneBlockReadBack
<1>1. ASSUME WritersInv, GzipWritten, Fits, Len(payload) = 1 PROVE GunzipsToFile
  <2>1. GzipInv /\ pc = "finished"
    BY <1>1 DEF WritersInv, GzipWritten
  <2>2. Assembled /\ stream = Member /\ PayloadInv
    BY <2>1 DEF GzipInv, GzipSteps
  <2> QED
    BY <1>1, <2>2, OneBlockRead
<1>2. WritersInv => OneBlockReadBack
  BY <1>1 DEF OneBlockReadBack
<1> QED
  BY <1>2, WritersInvariant, PTL
=============================================================================
