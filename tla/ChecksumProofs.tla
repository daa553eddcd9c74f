---------------------------- MODULE ChecksumProofs ----------------------------
(***************************************************************************)
(* The checksums of CheckSum.cpp, for bytes and words of any width and     *)
(* packets of any length that fits the IP header's: the loop sums the      *)
(* words, the folding at its end is one ones' complement addition, and     *)
(* what finalize_packet_tcp and finalize_packet_udp leave verifies.        *)
(***************************************************************************)
EXTENDS MCUdpSession, WellFoundedInduction, TLAPS

-----------------------------------------------------------------------------
(* Induction and recursion, as facts about sets and functions.             *)

\* A set of natural numbers that is not empty has a least element.
LEMMA Least ==
    ASSUME NEW T \in SUBSET Nat, T # {}
    PROVE  \E n \in T : \A m \in T : n <= m
<1> DEFINE R == OpToRel(<, Nat)
<1>1. \E n \in T : \A m \in T : ~ (<<m, n>> \in R)
  <2> HIDE DEF R
  <2>1. IsWellFoundedOn(R, Nat)
    BY NatLessThanWellFounded DEF R
  <2> QED
    BY <2>1, WFMin, Zenon
<1>2. \A n, m \in Nat : <<m, n>> \in R <=> m < n
  BY DEF OpToRel
<1> HIDE DEF R
<1>3. PICK n \in T : \A m \in T : ~ (<<m, n>> \in R)
  BY <1>1, Zenon
<1>4. ASSUME NEW m \in T PROVE n <= m
  <2>1. m \in Nat /\ n \in Nat /\ ~ (m < n)
    BY <1>2, <1>3, Zenon
  <2> QED
    BY <2>1
<1> QED
  BY <1>4

\* A set of natural numbers that holds 0 and the successor of each member holds
\* them all.
LEMMA Induction ==
    ASSUME NEW T \in SUBSET Nat, 0 \in T, \A n \in T : n + 1 \in T
    PROVE  T = Nat
<1>1. SUFFICES ASSUME Nat \ T # {} PROVE FALSE
  OBVIOUS
<1>2. PICK n \in Nat \ T : \A m \in Nat \ T : n <= m
  BY <1>1, Least
<1>3. n - 1 \in T
  BY <1>2
<1> QED
  BY <1>2, <1>3

\* The values before and after each of the n rounds of a loop that begins with c.
IsLoop(f, n, S, c, step) ==
    /\ f \in [0..n -> S] /\ f[0] = c
    /\ \A i \in 1..n : f[i] = step[i][f[i - 1]]

\* Every such loop has them.
LEMMA Recursion ==
    ASSUME NEW n \in Nat, NEW S, NEW c \in S, NEW step \in [1..n -> [S -> S]]
    PROVE  \E f : IsLoop(f, n, S, c, step)
<1> DEFINE Rounds(k) == \E f \in [0..k -> S] :
                            f[0] = c /\ \A i \in 1..k : f[i] = step[i][f[i - 1]]
           T == {k \in Nat : k <= n => Rounds(k)}
<1>1. 0 \in T
  <2>1. PICK f : f = [i \in 0..0 |-> c]
    OBVIOUS
  <2>2. f \in [0..0 -> S] /\ f[0] = c /\ 1..0 = {}
    BY <2>1
  <2>3. Rounds(0)
    BY <2>2
  <2> QED
    BY <2>3
<1>2. ASSUME NEW k \in T PROVE k + 1 \in T
  <2>1. SUFFICES ASSUME k + 1 <= n PROVE Rounds(k + 1)
    <3> HIDE DEF Rounds
    <3> QED
      BY <1>2
  <2>2. PICK f \in [0..k -> S] : f[0] = c /\ \A i \in 1..k : f[i] = step[i][f[i - 1]]
    BY <1>2, <2>1
  <2> DEFINE g == [i \in 0..(k + 1) |-> IF i <= k THEN f[i] ELSE step[k + 1][f[k]]]
  <2>3. step[k + 1][f[k]] \in S
    BY <2>1
  <2>4. g \in [0..(k + 1) -> S] /\ g[0] = c
    BY <2>2, <2>3
  <2>5. ASSUME NEW i \in 1..(k + 1) PROVE g[i] = step[i][g[i - 1]]
    <3>1. CASE i <= k
      BY <2>2, <3>1
    <3>2. CASE i = k + 1
      <4>1. g[k + 1] = step[k + 1][f[k]] /\ g[k] = f[k]
        OBVIOUS
      <4>2. i - 1 = k
        BY <3>2
      <4> HIDE DEF g
      <4> QED
        BY <3>2, <4>1, <4>2
    <3> QED
      BY <3>1, <3>2
  <2> QED
    BY <2>4, <2>5
<1> HIDE DEF Rounds
<1>3. T = Nat
  BY <1>1, <1>2, Induction
<1>4. Rounds(n)
  BY <1>3
<1>5. PICK f \in [0..n -> S] : f[0] = c /\ \A i \in 1..n : f[i] = step[i][f[i - 1]]
  BY <1>4 DEF Rounds
<1> QED
  BY <1>5 DEF IsLoop

\* What holds before a loop and is preserved by each of its n rounds holds after it.
LEMMA Rounds ==
    ASSUME NEW n \in Nat, NEW P \in SUBSET (0..n), 0 \in P,
           \A i \in 1..n : i - 1 \in P => i \in P
    PROVE  P = 0..n
<1> DEFINE T == {k \in Nat : k <= n => k \in P}
<1>1. 0 \in T /\ \A k \in T : k + 1 \in T
  OBVIOUS
<1>2. T = Nat
  <2> HIDE DEF T
  <2>1. T \in SUBSET Nat
    BY DEF T
  <2> QED
    BY <1>1, <2>1, Induction
<1>3. ASSUME NEW k \in 0..n PROVE k \in P
  <2>1. k \in Nat /\ k <= n
    OBVIOUS
  <2> QED
    BY <1>2, <2>1
<1> QED
  BY <1>3

-----------------------------------------------------------------------------
(* Arithmetic of words.                                                    *)

\* Quotient and remainder of a number that is written as q * w + r.
LEMMA Quotient ==
    ASSUME NEW w \in Nat, w > 0, NEW q \in Nat, NEW r \in 0..(w - 1)
    PROVE  (q * w + r) \div w = q /\ (q * w + r) % w = r
  OBVIOUS

\* The same of a sum of two words: the carry is 0 or 1.
LEMMA Carry ==
    ASSUME NEW w \in Nat, w > 0, NEW x \in 0..(2 * w - 1)
    PROVE  x \div w = (IF x >= w THEN 1 ELSE 0) /\ x % w = (IF x >= w THEN x - w ELSE x)
  OBVIOUS

\* A word has more than one value.
LEMMA Limit == WordLimit \in Nat /\ WordLimit > 1
  BY BaseAssumption, SMT DEF WordLimit

\* Two folds are enough: whatever the two halves of the 32-bit sum are, the second
\* carry is brought around too, and the word that is complemented is the ones'
\* complement sum of the halves.
THEOREM FoldIsOnesAdd ==
    ASSUME NEW hi \in 0..(WordLimit - 1), NEW lo \in 0..(WordLimit - 1)
    PROVE  Fold(hi * WordLimit + lo) % WordLimit = OnesAdd(hi, lo)
<1> DEFINE s == hi * WordLimit + lo
<1>1. Folded(s) = hi + lo
  BY Limit, Quotient DEF Folded
<1>2. hi + lo \in 0..(2 * WordLimit - 1)
  BY Limit
<1>3. CASE hi + lo >= WordLimit
  <2>1. Fold(s) = hi + lo + 1 /\ OnesAdd(hi, lo) = hi + lo + 1 - WordLimit
    BY <1>1, <1>2, <1>3, Limit, Carry DEF Fold, OnesAdd
  <2>2. hi + lo + 1 \in 0..(2 * WordLimit - 1)
    BY Limit
  <2> QED BY <2>1, <2>2, <1>3, Limit, Carry
<1>4. CASE hi + lo < WordLimit
  BY <1>1, <1>2, <1>4, Limit, Carry DEF Fold, OnesAdd
<1> QED BY <1>3, <1>4, Limit

-----------------------------------------------------------------------------
(* The loop of CalSum.                                                     *)

WordValue == 0..(WordLimit - 1)

\* A number times a larger one is larger.
LEMMA Scale ==
    ASSUME NEW m \in Nat, NEW a \in Nat, NEW b \in Nat, a <= b
    PROVE  a * m <= b * m /\ a * m \in Nat
  OBVIOUS

\* Two bytes are a word.
LEMMA Combine ==
    ASSUME NEW a \in Byte, NEW b \in Byte
    PROVE  a * Base + b \in WordValue
<1>1. a \in Nat /\ a <= Base - 1 /\ Base - 1 \in Nat /\ b \in Nat /\ b <= Base - 1 /\ Base \in Nat
  BY BaseAssumption DEF Byte
<1>2. a * Base <= (Base - 1) * Base /\ a * Base \in Nat
  BY <1>1, Scale
<1>3. (Base - 1) * Base = WordLimit - Base /\ WordLimit \in Nat
  BY BaseAssumption DEF WordLimit
<1> QED
  BY <1>1, <1>2, <1>3 DEF WordValue

\* The words of a buffer.
LEMMA WordsAre ==
    ASSUME NEW buf \in Seq(Byte)
    PROVE  /\ WordCount(buf) \in Nat
           /\ \A i \in 1..WordCount(buf) : Word(buf, i) \in WordValue
<1>1. Len(buf) \in Nat /\ WordCount(buf) \in Nat
  BY DEF WordCount
<1>2. ASSUME NEW i \in 1..WordCount(buf) PROVE Word(buf, i) \in WordValue
  <2>1. 2 * i - 1 \in 1..Len(buf)
    BY <1>1 DEF WordCount
  <2>2. buf[2 * i - 1] \in Byte /\ 0 \in Byte
    BY <2>1, BaseAssumption DEF Byte
  <2>3. CASE 2 * i <= Len(buf)
    <3>1. 2 * i \in 1..Len(buf)
      BY <2>1, <2>3
    <3>2. buf[2 * i] \in Byte
      BY <3>1
    <3> QED
      BY <2>2, <2>3, <3>2, Combine DEF Word
  <2>4. CASE ~ (2 * i <= Len(buf))
    BY <2>2, <2>4, Combine DEF Word
  <2> QED
    BY <2>3, <2>4
<1> QED
  BY <1>1, <1>2

\* The sum of a buffer's words, of as many bits as it needs.
Total(buf) ==
    LET sum[i \in 0..WordCount(buf)] == IF i = 0 THEN 0 ELSE sum[i - 1] + Word(buf, i)
    IN sum[WordCount(buf)]

\* The sums of its first words.
IsSums(f, buf) ==
    /\ f \in [0..WordCount(buf) -> Nat] /\ f[0] = 0
    /\ \A i \in 1..WordCount(buf) : f[i] = f[i - 1] + Word(buf, i)

\* The total is the last of them.
LEMMA TotalLoop ==
    ASSUME NEW buf \in Seq(Byte)
    PROVE  /\ \E f : IsSums(f, buf) /\ Total(buf) = f[WordCount(buf)]
           /\ Total(buf) \in Nat
<1> DEFINE n == WordCount(buf)
           step == [i \in 1..n |-> [s \in Nat |-> s + Word(buf, i)]]
<1>1. n \in Nat /\ \A i \in 1..n : Word(buf, i) \in Nat
  BY WordsAre, Limit DEF WordValue
<1>2. step \in [1..n -> [Nat -> Nat]] /\ 0 \in Nat
  BY <1>1
<1>3. \A s \in Nat, i \in 1..n : step[i][s] = s + Word(buf, i)
  OBVIOUS
<1> HIDE DEF n, step
<1>4. PICK f : IsLoop(f, n, Nat, 0, step)
  BY <1>1, <1>2, Recursion
<1>5. ASSUME NEW i \in 1..n PROVE f[i] = f[i - 1] + Word(buf, i)
  <2>1. i - 1 \in 0..n
    BY <1>1
  <2>2. f[i - 1] \in Nat
    BY <1>4, <2>1 DEF IsLoop
  <2> QED
    BY <1>3, <1>4, <2>2 DEF IsLoop
<1>6. f = [i \in 0..n |-> IF i = 0 THEN 0 ELSE f[i - 1] + Word(buf, i)]
  BY <1>1, <1>4, <1>5 DEF IsLoop
<1>7. PICK g : g = [i \in 0..n |-> IF i = 0 THEN 0 ELSE g[i - 1] + Word(buf, i)] /\ Total(buf) = g[n]
  BY <1>6, Zenon DEF Total, n
<1> DEFINE P == {i \in 0..n : g[i] \in Nat}
<1>8. g[0] = 0 /\ \A i \in 1..n : g[i] = g[i - 1] + Word(buf, i)
  BY <1>1, <1>7
<1>9. P = 0..n
  <2>1. P \in SUBSET (0..n) /\ 0 \in P
    BY <1>1, <1>8
  <2>2. \A i \in 1..n : i - 1 \in P => i \in P
    BY <1>1, <1>8
  <2> HIDE DEF P
  <2> QED
    BY <1>1, <2>1, <2>2, Rounds
<1>10. g \in [0..n -> Nat]
  <2>1. DOMAIN g = 0..n /\ g = [i \in 0..n |-> g[i]]
    BY <1>7
  <2> QED
    BY <1>9, <2>1
<1>11. IsSums(g, buf)
  BY <1>8, <1>10 DEF n, IsSums
<1>12. g[n] \in Nat
  BY <1>1, <1>10
<1> QED
  BY <1>7, <1>11, <1>12 DEF n

\* The sum of a buffer's first words is no more than as many words can make.
LEMMA SumsBound ==
    ASSUME NEW buf \in Seq(Byte), NEW f, IsSums(f, buf)
    PROVE  \A i \in 0..WordCount(buf) : f[i] \in Nat /\ f[i] <= i * (WordLimit - 1)
<1> DEFINE n == WordCount(buf)
           m == WordLimit - 1
           P == {i \in 0..n : f[i] <= i * m}
<1>1. n \in Nat /\ m \in Nat /\ \A i \in 1..n : Word(buf, i) \in Nat /\ Word(buf, i) <= m
  BY WordsAre, Limit DEF WordValue
<1>2. f \in [0..n -> Nat] /\ f[0] = 0 /\ \A i \in 1..n : f[i] = f[i - 1] + Word(buf, i)
  BY DEF IsSums
<1> HIDE DEF n, m
<1>3. 0 \in P
  BY <1>1, <1>2
<1>4. ASSUME NEW i \in 1..n, i - 1 \in P PROVE i \in P
  <2>1. f[i - 1] \in Nat /\ f[i - 1] <= (i - 1) * m /\ f[i] = f[i - 1] + Word(buf, i)
    BY <1>1, <1>2, <1>4
  <2>2. (i - 1) * m + m = i * m /\ (i - 1) * m \in Nat /\ i \in 0..n
    BY <1>1
  <2>3. f[i] <= i * m
    BY <1>1, <2>1, <2>2
  <2> QED
    BY <2>2, <2>3
<1>5. P = 0..n
  <2>1. P \in SUBSET (0..n)
    OBVIOUS
  <2> HIDE DEF P
  <2> QED
    BY <1>1, <1>3, <1>4, <2>1, Rounds
<1> QED
  BY <1>2, <1>5 DEF n, m

\* The sum of 32 bits does not wrap around on a buffer of no more words than a word
\* has values: CalSum is the total.
LEMMA CalSumIsTotal ==
    ASSUME NEW buf \in Seq(Byte), WordCount(buf) <= WordLimit
    PROVE  CalSum(buf) = Total(buf) /\ Total(buf) <= WordCount(buf) * (WordLimit - 1)
<1> DEFINE n == WordCount(buf)
<1>1. PICK f : IsSums(f, buf) /\ Total(buf) = f[n]
  BY TotalLoop
<1>2. n \in Nat /\ n <= WordLimit /\ \A i \in 1..n : Word(buf, i) \in Nat
  BY WordsAre, Limit DEF WordValue
<1>3. f \in [0..n -> Nat] /\ f[0] = 0 /\ \A i \in 1..n : f[i] = f[i - 1] + Word(buf, i)
  BY <1>1 DEF IsSums
<1>4. \A i \in 0..n : f[i] \in Nat /\ f[i] <= i * (WordLimit - 1)
  BY <1>1, SumsBound
<1>5. SumLimit \in Nat /\ \A i \in 0..n : i * (WordLimit - 1) < SumLimit
  <2>1. SumLimit \in Nat /\ WordLimit * (WordLimit - 1) = SumLimit - WordLimit
    BY Limit DEF SumLimit
  <2>2. ASSUME NEW i \in 0..n PROVE i * (WordLimit - 1) <= WordLimit * (WordLimit - 1)
    <3>1. i \in Nat /\ i <= WordLimit /\ WordLimit - 1 \in Nat /\ WordLimit \in Nat
      BY <1>2, Limit
    <3> QED
      BY <3>1, Scale
  <2>3. ASSUME NEW i \in 0..n PROVE i * (WordLimit - 1) \in Nat
    <3>1. i \in Nat /\ WordLimit - 1 \in Nat
      BY <1>2, Limit
    <3> QED
      BY <3>1
  <2> QED
    BY <2>1, <2>2, <2>3, Limit
<1>6. \A i \in 0..n : f[i] \in Nat /\ f[i] < SumLimit
  <2>1. ASSUME NEW i \in 0..n PROVE f[i] \in Nat /\ f[i] < SumLimit
    <3>1. i * (WordLimit - 1) \in Int
      BY <1>2, Limit
    <3> QED
      BY <1>4, <1>5, <3>1
  <2> QED
    BY <2>1
<1> HIDE DEF n
<1>7. \A i \in 1..n : f[i] = (f[i - 1] + Word(buf, i)) % SumLimit
  <2>1. ASSUME NEW i \in 1..n PROVE f[i] = (f[i - 1] + Word(buf, i)) % SumLimit
    <3>1. f[i] = f[i - 1] + Word(buf, i) /\ f[i] \in Nat /\ f[i] < SumLimit
      BY <1>2, <1>3, <1>6
    <3>2. f[i] % SumLimit = f[i]
      BY <1>5, <3>1
    <3> QED
      BY <3>1, <3>2
  <2> QED
    BY <2>1
<1>8. f = [i \in 0..n |-> IF i = 0 THEN 0 ELSE (f[i - 1] + Word(buf, i)) % SumLimit]
  BY <1>2, <1>3, <1>7
<1>9. PICK g : /\ g = [i \in 0..n |-> IF i = 0 THEN 0 ELSE (g[i - 1] + Word(buf, i)) % SumLimit]
               /\ CalSum(buf) = g[n]
  BY <1>8, Zenon DEF CalSum, n
<1> DEFINE P == {i \in 0..n : g[i] = f[i]}
<1>10. 0 \in P /\ \A i \in 1..n : i - 1 \in P => i \in P
  <2>1. g[0] = 0 /\ \A i \in 1..n : g[i] = (g[i - 1] + Word(buf, i)) % SumLimit
    BY <1>2, <1>9
  <2> QED
    BY <1>2, <1>3, <1>7, <2>1
<1>11. P = 0..n
  <2>1. P \in SUBSET (0..n)
    OBVIOUS
  <2> HIDE DEF P
  <2> QED
    BY <1>2, <1>10, <2>1, Rounds
<1>12. g[n] = f[n] /\ n \in 0..n
  BY <1>2, <1>11
<1> QED
  BY <1>1, <1>4, <1>9, <1>12 DEF n

\* The total of one buffer behind another: the first one's last word is whole.
LEMMA TotalConcat ==
    ASSUME NEW a \in Seq(Byte), NEW b \in Seq(Byte), NEW h \in Nat, Len(a) = 2 * h
    PROVE  /\ Total(a \o b) = Total(a) + Total(b)
           /\ WordCount(a) = h /\ WordCount(a \o b) = h + WordCount(b)
<1> DEFINE c == a \o b
           n == WordCount(b)
<1>1. c \in Seq(Byte) /\ Len(c) = Len(a) + Len(b) /\ Len(a) \in Nat /\ Len(b) \in Nat
  OBVIOUS
<1>2. WordCount(a) = h /\ WordCount(c) = h + n /\ n \in Nat
  BY <1>1 DEF WordCount
<1>3. ASSUME NEW i \in 1..h PROVE Word(c, i) = Word(a, i)
  <2>1. 2 * i - 1 \in 1..Len(a) /\ 2 * i \in 1..Len(a) /\ 2 * i <= Len(c)
    BY <1>1
  <2>2. c[2 * i - 1] = a[2 * i - 1] /\ c[2 * i] = a[2 * i]
    BY <2>1
  <2> HIDE DEF c
  <2> QED
    BY <2>1, <2>2 DEF Word
<1>4. ASSUME NEW i \in 1..n PROVE Word(c, h + i) = Word(b, i)
  <2>1. 2 * i - 1 \in 1..Len(b) /\ (2 * i <= Len(b) <=> 2 * (h + i) <= Len(c))
    BY <1>1 DEF WordCount
  <2>2. 2 * (h + i) - 1 = Len(a) + (2 * i - 1) /\ 2 * (h + i) = Len(a) + 2 * i
    BY <1>1, <1>2
  <2>3. c[Len(a) + (2 * i - 1)] = b[2 * i - 1]
    BY <2>1
  <2>4. 2 * i <= Len(b) => c[Len(a) + 2 * i] = b[2 * i]
    BY <1>2
  <2> HIDE DEF c, n
  <2> QED
    BY <2>1, <2>2, <2>3, <2>4 DEF Word
<1> HIDE DEF c, n
<1>5. PICK fa : IsSums(fa, a) /\ Total(a) = fa[h]
  BY <1>2, TotalLoop
<1>6. PICK fb : IsSums(fb, b) /\ Total(b) = fb[n]
  BY TotalLoop DEF n
<1>7. PICK fc : IsSums(fc, c) /\ Total(c) = fc[h + n]
  BY <1>1, <1>2, TotalLoop
<1> DEFINE P == {i \in 0..h : fc[i] = fa[i]}
           Q == {i \in 0..n : fc[h + i] = fa[h] + fb[i]}
<1>8. P = 0..h
  <2>1. P \in SUBSET (0..h) /\ 0 \in P
    BY <1>5, <1>7 DEF IsSums
  <2>2. ASSUME NEW i \in 1..h, i - 1 \in P PROVE i \in P
    <3>1. fc[i] = fc[i - 1] + Word(c, i) /\ fa[i] = fa[i - 1] + Word(a, i)
      BY <1>2, <1>5, <1>7 DEF IsSums
    <3> QED
      BY <1>3, <2>2, <3>1
  <2> HIDE DEF P
  <2> QED
    BY <2>1, <2>2, Rounds
<1>9. Q = 0..n
  <2>1. Q \in SUBSET (0..n) /\ fa[h] \in Nat /\ fb[0] = 0
    BY <1>2, <1>5, <1>6 DEF IsSums, n
  <2>2. 0 \in Q
    <3>1. fc[h] = fa[h]
      BY <1>8
    <3> QED
      BY <1>2, <2>1, <3>1
  <2>3. ASSUME NEW i \in 1..n, i - 1 \in Q PROVE i \in Q
    <3>1. fc[h + i] = fc[h + i - 1] + Word(c, h + i)
      BY <1>2, <1>7 DEF IsSums
    <3>2. fb[i] = fb[i - 1] + Word(b, i) /\ fb[i - 1] \in Nat /\ Word(b, i) \in Nat
      <4>1. n = WordCount(b) /\ i - 1 \in 0..n
        BY <1>2 DEF n
      <4>2. fb[i] = fb[i - 1] + Word(b, i) /\ fb[i - 1] \in Nat
        BY <1>6, <4>1 DEF IsSums
      <4>3. Word(b, i) \in Nat
        BY <4>1, WordsAre, Limit DEF WordValue
      <4> QED
        BY <4>2, <4>3
    <3>3. fc[h + i - 1] = fa[h] + fb[i - 1]
      <4>1. h + i - 1 = h + (i - 1)
        BY <1>2
      <4> QED
        BY <2>3, <4>1
    <3>4. fc[h + i] = fa[h] + fb[i]
      BY <1>4, <2>1, <3>1, <3>2, <3>3
    <3> QED
      BY <1>2, <3>4
  <2> HIDE DEF Q
  <2> QED
    BY <1>2, <2>1, <2>2, <2>3, Rounds
<1>10. fc[h + n] = fa[h] + fb[n]
  BY <1>2, <1>9
<1> QED
  BY <1>2, <1>5, <1>6, <1>7, <1>10 DEF c, n

\* The same of a header of one to three words.
LEMMA HeaderConcat ==
    ASSUME NEW a \in Seq(Byte), NEW b \in Seq(Byte), NEW h \in 1..3, Len(a) = h + h
    PROVE  /\ a \o b \in Seq(Byte) /\ Len(a \o b) = Len(a) + Len(b)
           /\ Total(a \o b) = Total(a) + Total(b)
           /\ WordCount(a \o b) = h + WordCount(b)
<1>1. a \o b \in Seq(Byte) /\ Len(a \o b) = Len(a) + Len(b)
  OBVIOUS
<1>2. Len(a) = 2 * h /\ h \in Nat
  OBVIOUS
<1> QED
  BY <1>1, <1>2, TotalConcat

\* A word's two bytes.
LEMMA BytesAre ==
    ASSUME NEW w \in WordValue
    PROVE  /\ Bytes(w) \in Seq(Byte) /\ Len(Bytes(w)) = 2
           /\ Total(Bytes(w)) = w
<1>1. PICK q \in Nat, r \in Byte : w = q * Base + r /\ q = w \div Base /\ r = w % Base
  BY BaseAssumption, Limit DEF WordValue, Byte
<1>2. q \in Byte
  <2>1. q < Base
    <3>1. ASSUME q >= Base PROVE FALSE
      <4>1. Base * Base <= q * Base
        BY <3>1, Scale, BaseAssumption
      <4> QED
        BY <1>1, <4>1, BaseAssumption DEF WordValue, WordLimit, Byte
    <3> QED
      BY <3>1, BaseAssumption
  <2> QED
    BY <2>1, BaseAssumption DEF Byte
<1>3. Bytes(w) = <<q, r>>
  BY <1>1 DEF Bytes
<1>4. WordCount(<<q, r>>) = 1 /\ Word(<<q, r>>, 1) = w
  BY <1>1, <1>2 DEF WordCount, Word, Byte
<1>5. PICK f : IsSums(f, <<q, r>>) /\ Total(<<q, r>>) = f[1]
  <2>1. <<q, r>> \in Seq(Byte)
    BY <1>2
  <2>2. \E f : IsSums(f, <<q, r>>) /\ Total(<<q, r>>) = f[WordCount(<<q, r>>)]
    BY <2>1, TotalLoop
  <2> QED
    BY <1>4, <2>2
<1>6. f[0] = 0 /\ f[1] = f[0] + w
  BY <1>4, <1>5 DEF IsSums
<1> QED
  BY <1>2, <1>3, <1>5, <1>6 DEF WordValue

-----------------------------------------------------------------------------
(* The ones' complement sum.                                               *)

\* A word is the ones' complement sum of words that add up to x: it differs from x by
\* as many carries as were brought around, and is zero only if every word is.
Represents(x, y) ==
    /\ y \in WordValue /\ (y = 0 <=> x = 0)
    /\ \E k \in Nat : x = y + k * (WordLimit - 1)

\* One more word.
LEMMA OnesAddRepresents ==
    ASSUME NEW x \in Nat, NEW y, Represents(x, y), NEW w \in WordValue
    PROVE  Represents(x + w, OnesAdd(y, w))
<1> DEFINE m == WordLimit - 1
<1>1. PICK k \in Nat : x = y + k * m
  BY DEF Represents
<1>2. /\ m \in Nat /\ WordLimit = m + 1 /\ m > 0 /\ y \in 0..m /\ w \in 0..m
      /\ (y = 0 <=> x = 0)
  BY Limit DEF Represents, WordValue
<1>3. k * m \in Nat /\ (k + 1) * m = k * m + m
  BY <1>2
<1> HIDE DEF m
<1>4. CASE y + w > m
  <2>1. OnesAdd(y, w) = y + w - m
    BY <1>2, <1>4 DEF OnesAdd
  <2>2. x + w = (y + w - m) + (k + 1) * m
    BY <1>1, <1>2, <1>3
  <2>3. y + w - m \in WordValue /\ y + w - m # 0 /\ x + w # 0
    BY <1>2, <1>4 DEF WordValue
  <2> QED
    BY <2>1, <2>2, <2>3 DEF Represents, m
<1>5. CASE y + w <= m
  <2>1. OnesAdd(y, w) = y + w
    BY <1>2, <1>5 DEF OnesAdd
  <2>2. x + w = (y + w) + k * m
    BY <1>1, <1>2, <1>3
  <2>3. y + w \in WordValue /\ (y + w = 0 <=> x + w = 0)
    BY <1>2, <1>5 DEF WordValue
  <2> QED
    BY <2>1, <2>2, <2>3 DEF Represents, m
<1> QED
  BY <1>2, <1>4, <1>5

\* The reference's words are those of CalSum's loop.
LEMMA OnesSumLoop ==
    ASSUME NEW buf \in Seq(Byte)
    PROVE  \E g : /\ g[0] = 0
                  /\ \A i \in 1..WordCount(buf) : g[i] = OnesAdd(g[i - 1], Word(buf, i))
                  /\ OnesSum(buf) = g[WordCount(buf)]
<1> DEFINE n == WordCount(buf)
           b == Padded(buf)
           w(i) == b[2 * i - 1] * Base + b[2 * i]
<1>1. n \in Nat /\ \A i \in 1..n : Word(buf, i) \in WordValue
  BY WordsAre
<1>2. Len(b) \div 2 = n /\ \A i \in 1..n : w(i) = Word(buf, i)
  <2>1. Len(buf) \in Nat
    OBVIOUS
  <2>2. CASE Len(buf) % 2 = 0
    BY <2>1, <2>2 DEF Padded, WordCount, Word
  <2>3. CASE Len(buf) % 2 = 1
    <3>1. b = Append(buf, 0) /\ Len(b) = Len(buf) + 1 /\ Len(b) = 2 * n
      BY <2>1, <2>3 DEF Padded, WordCount
    <3>2. ASSUME NEW i \in 1..n PROVE w(i) = Word(buf, i)
      <4>1. 2 * i - 1 \in 1..Len(buf) /\ 2 * i \in 1..(Len(buf) + 1)
        <5> HIDE DEF b, n
        <5> QED
          BY <1>1, <2>1, <3>1
      <4>2. \A j \in 1..(Len(buf) + 1) : b[j] = IF j <= Len(buf) THEN buf[j] ELSE 0
        <5>1. \A j \in 1..(Len(buf) + 1) :
                 Append(buf, 0)[j] = IF j <= Len(buf) THEN buf[j] ELSE 0
          OBVIOUS
        <5> HIDE DEF b
        <5> QED
          BY <3>1, <5>1
      <4>3. b[2 * i - 1] = buf[2 * i - 1] /\ b[2 * i] = IF 2 * i <= Len(buf) THEN buf[2 * i] ELSE 0
        <5> HIDE DEF b
        <5> QED
          BY <2>1, <4>1, <4>2
      <4> HIDE DEF b
      <4> QED
        BY <4>3 DEF Word
    <3>3. Len(b) \div 2 = n
      <4> HIDE DEF b, n
      <4> QED
        BY <1>1, <3>1
    <3> QED
      BY <3>2, <3>3
  <2> QED
    BY <2>1, <2>2, <2>3
<1> DEFINE step == [i \in 1..n |-> [s \in WordValue |-> OnesAdd(s, w(i))]]
<1>3. step \in [1..n -> [WordValue -> WordValue]] /\ 0 \in WordValue
  <2>1. \A s, v \in WordValue : OnesAdd(s, v) \in WordValue
    BY Limit DEF WordValue, OnesAdd
  <2>2. 0 \in WordValue
    BY Limit DEF WordValue
  <2> HIDE DEF w, n
  <2>3. \A i \in 1..n, s \in WordValue : OnesAdd(s, w(i)) \in WordValue
    BY <1>1, <1>2, <2>1
  <2> QED
    BY <2>2, <2>3
<1>4. \A s \in WordValue, i \in 1..n : step[i][s] = OnesAdd(s, w(i))
  OBVIOUS
<1> HIDE DEF n, step, w, b
<1>5. PICK f : IsLoop(f, n, WordValue, 0, step)
  BY <1>1, <1>3, Recursion
<1>6. ASSUME NEW i \in 1..n PROVE f[i] = OnesAdd(f[i - 1], w(i))
  <2>1. i - 1 \in 0..n
    BY <1>1
  <2>2. f[i - 1] \in WordValue
    BY <1>5, <2>1 DEF IsLoop
  <2> QED
    BY <1>4, <1>5, <2>2 DEF IsLoop
<1>7. f = [i \in 0..n |-> IF i = 0 THEN 0 ELSE OnesAdd(f[i - 1], w(i))]
  BY <1>1, <1>5, <1>6 DEF IsLoop
<1>8. PICK g : /\ g = [i \in 0..n |-> IF i = 0 THEN 0 ELSE OnesAdd(g[i - 1], w(i))]
               /\ OnesSum(buf) = g[n]
  <2>1. f = [i \in 0..(Len(b) \div 2) |-> IF i = 0 THEN 0 ELSE OnesAdd(f[i - 1], w(i))]
    BY <1>2, <1>7, Zenon
  <2>2. \E g : /\ g = [i \in 0..(Len(b) \div 2) |->
                          IF i = 0 THEN 0 ELSE OnesAdd(g[i - 1], w(i))]
               /\ OnesSum(buf) = g[Len(b) \div 2]
    BY <2>1, Zenon DEF OnesSum, w, b
  <2> QED
    BY <1>2, <2>2, Zenon
<1>9. g[0] = 0 /\ \A i \in 1..n : g[i] = OnesAdd(g[i - 1], Word(buf, i))
  BY <1>1, <1>2, <1>8
<1> QED
  BY <1>8, <1>9 DEF n

\* What the reference computes represents the total.
LEMMA OnesSumRepresents ==
    ASSUME NEW buf \in Seq(Byte)
    PROVE  Represents(Total(buf), OnesSum(buf))
<1> DEFINE n == WordCount(buf)
<1>1. n \in Nat /\ \A i \in 1..n : Word(buf, i) \in WordValue
  BY WordsAre
<1>2. PICK f : IsSums(f, buf) /\ Total(buf) = f[n]
  BY TotalLoop
<1>3. PICK g : /\ g[0] = 0 /\ \A i \in 1..n : g[i] = OnesAdd(g[i - 1], Word(buf, i))
               /\ OnesSum(buf) = g[n]
  BY OnesSumLoop
<1>4. f \in [0..n -> Nat] /\ f[0] = 0 /\ \A i \in 1..n : f[i] = f[i - 1] + Word(buf, i)
  BY <1>2 DEF IsSums
<1> HIDE DEF n
<1> DEFINE P == {i \in 0..n : Represents(f[i], g[i])}
<1>5. 0 \in P
  <2>1. Represents(0, 0)
    <3>1. 0 = 0 + 0 * (WordLimit - 1) /\ 0 \in WordValue
      BY Limit DEF WordValue
    <3> QED
      BY <3>1 DEF Represents
  <2> QED
    BY <1>1, <1>3, <1>4, <2>1
<1>6. ASSUME NEW i \in 1..n, i - 1 \in P PROVE i \in P
  <2>1. f[i - 1] \in Nat /\ Represents(f[i - 1], g[i - 1]) /\ Word(buf, i) \in WordValue
    BY <1>1, <1>4, <1>6
  <2>2. Represents(f[i - 1] + Word(buf, i), OnesAdd(g[i - 1], Word(buf, i)))
    BY <2>1, OnesAddRepresents
  <2> QED
    BY <1>1, <1>3, <1>4, <2>2
<1>7. P = 0..n
  <2>1. P \in SUBSET (0..n)
    OBVIOUS
  <2> HIDE DEF P
  <2> QED
    BY <1>1, <1>5, <1>6, <2>1, Rounds
<1>8. Represents(f[n], g[n])
  BY <1>1, <1>7
<1> QED
  BY <1>2, <1>3, <1>8 DEF n

\* What is left of a sum of 32 bits after the folding represents it, and its
\* complement is what it lacks to a word of ones.
LEMMA FoldRepresents ==
    ASSUME NEW s \in 0..(SumLimit - 1)
    PROVE  /\ Represents(s, Fold(s) % WordLimit)
           /\ Complement(Fold(s)) = WordLimit - 1 - (Fold(s) % WordLimit)
<1> DEFINE W == WordLimit
           hi == s \div W
           lo == s % W
           r == Fold(s) % W
<1>1. W \in Nat /\ W > 1 /\ SumLimit = W * W /\ s \in Nat /\ s < W * W
  BY Limit DEF SumLimit
<1> HIDE DEF W
<1>2. hi \in Nat /\ lo \in 0..(W - 1) /\ s = hi * W + lo
  BY <1>1
<1> HIDE DEF hi, lo
<1>3. hi \in 0..(W - 1)
  <2>1. ASSUME hi >= W PROVE FALSE
    <3>1. W * W <= hi * W
      BY <1>1, <1>2, <2>1, Scale
    <3>2. hi * W \in Nat
      BY <1>1, <1>2
    <3> QED
      BY <1>1, <1>2, <3>1, <3>2
  <2> QED
    BY <1>1, <1>2, <2>1
<1>4. r = OnesAdd(hi, lo)
  BY <1>2, <1>3, FoldIsOnesAdd DEF W
<1>5. Represents(hi * W, hi)
  <2>1. hi * W = hi + hi * (W - 1) /\ (hi = 0 <=> hi * W = 0)
    BY <1>1, <1>2
  <2> QED
    BY <1>2, <1>3, <2>1 DEF Represents, WordValue, W
<1>6. Represents(s, r)
  <2>1. hi * W \in Nat
    BY <1>1, <1>2
  <2> QED
    BY <1>2, <1>4, <1>5, <2>1, OnesAddRepresents DEF WordValue, W
<1>7. PICK c \in {0, 1} : Fold(s) = c * W + r
  <2>1. Folded(s) = hi + lo
    BY <1>1, <1>2, <1>3, Quotient DEF Folded, W
  <2>2. hi + lo \in 0..(2 * W - 1)
    BY <1>1, <1>2, <1>3
  <2>3. Fold(s) = hi + lo + (IF hi + lo >= W THEN 1 ELSE 0)
    BY <1>1, <2>1, <2>2, Carry DEF Fold, W
  <2>4. Fold(s) \in 0..(2 * W - 1)
    BY <1>1, <1>2, <1>3, <2>3
  <2>5. r = IF Fold(s) >= W THEN Fold(s) - W ELSE Fold(s)
    BY <1>1, <2>4, Carry
  <2> QED
    BY <1>1, <2>4, <2>5
<1>8. r \in 0..(W - 1)
  BY <1>6 DEF Represents, WordValue, W
<1> HIDE DEF r
<1>9. SumLimit - 1 - Fold(s) = (W - 1 - c) * W + (W - 1 - r)
  BY <1>1, <1>7, <1>8
<1>10. ((W - 1 - c) * W + (W - 1 - r)) % W = W - 1 - r
  <2>1. PICK q \in Nat, t \in 0..(W - 1) : q = W - 1 - c /\ t = W - 1 - r
    BY <1>1, <1>7, <1>8
  <2>2. (q * W + t) % W = t
    BY <1>1, Quotient
  <2> QED
    BY <2>1, <2>2
<1>11. Complement(Fold(s)) = W - 1 - r
  BY <1>9, <1>10, Zenon DEF Complement, W
<1> QED
  <2>1. r = Fold(s) % WordLimit /\ W = WordLimit
    BY DEF W, r
  <2> QED
    BY <1>6, <1>11, <2>1

\* Words that add up to the complement's sum and the complement are all ones
\* together, also if a complement of zero is sent as all ones.
LEMMA Closes ==
    ASSUME NEW x \in Nat, NEW y, Represents(x, y), NEW c \in WordValue,
           c = WordLimit - 1 - y \/ (c = WordLimit - 1 /\ y = WordLimit - 1),
           NEW z, Represents(x + c, z)
    PROVE  z = WordLimit - 1
<1> DEFINE m == WordLimit - 1
<1>1. m \in Nat /\ m > 0 /\ y \in 0..m /\ z \in 0..m
  BY Limit DEF Represents, WordValue
<1>2. PICK k \in Nat : x = y + k * m
  BY DEF Represents
<1>3. PICK j \in Nat : x + c = z + j * m
  BY DEF Represents
<1>4. z = 0 <=> x + c = 0
  BY DEF Represents
<1>5. c = m - y \/ (c = m /\ y = m)
  OBVIOUS
<1> HIDE DEF m
<1>6. PICK i \in Nat \ {0} : x + c = i * m
  <2>1. (k + 1) * m = k * m + m /\ (k + 2) * m = k * m + 2 * m /\ k * m \in Nat
    BY <1>1
  <2>2. x + c = (k + 1) * m \/ x + c = (k + 2) * m
    BY <1>1, <1>2, <1>5, <2>1
  <2> QED
    BY <2>2
<1>7. z = (i - j) * m
  <2>1. (i - j) * m = i * m - j * m /\ i * m \in Nat /\ j * m \in Nat
    BY <1>1, <1>6
  <2> QED
    BY <1>1, <1>3, <1>6, <2>1
<1>8. z # 0
  <2>1. i * m # 0
    BY <1>1, <1>6
  <2> QED
    BY <1>4, <1>6, <2>1
<1>9. i - j = 1
  <2>1. CASE i - j <= 0
    <3>1. j - i \in Nat
      BY <1>6, <2>1
    <3>2. (j - i) * m \in Nat /\ (i - j) * m = - ((j - i) * m)
      BY <1>1, <1>6, <3>1
    <3> QED
      BY <1>1, <1>7, <1>8, <3>2
  <2>2. CASE i - j >= 2
    <3>1. i - j \in Nat
      BY <1>6, <2>2
    <3>2. 2 * m <= (i - j) * m
      BY <1>1, <2>2, <3>1, Scale
    <3> QED
      BY <1>1, <1>7, <3>2
  <2> QED
    BY <1>6, <2>1, <2>2
<1> QED
  BY <1>1, <1>7, <1>9 DEF m

-----------------------------------------------------------------------------
(* The packets.                                                            *)

Packets ==
    [addr : WordValue, proto : WordValue, tot_len : WordValue, len : WordValue,
     ip_sum : WordValue, check : WordValue, data : Seq(Byte)]

\* The totals of the headers.
LEMMA HeaderTotals ==
    ASSUME NEW p \in Packets
    PROVE  /\ PseudoHead(p) \in Seq(Byte) /\ Len(PseudoHead(p)) = 6
           /\ Total(PseudoHead(p)) = p.addr + p.proto + p.tot_len
           /\ IpHeader(p) \in Seq(Byte) /\ WordCount(IpHeader(p)) = 4
           /\ Total(IpHeader(p)) = p.addr + p.proto + p.tot_len + p.ip_sum
<1> DEFINE a == Bytes(p.addr)
           b == Bytes(p.proto)
           c == Bytes(p.tot_len)
           d == Bytes(p.ip_sum)
<1>1. /\ a \in Seq(Byte) /\ Len(a) = 2 /\ Total(a) = p.addr
      /\ b \in Seq(Byte) /\ Len(b) = 2 /\ Total(b) = p.proto
      /\ c \in Seq(Byte) /\ Len(c) = 2 /\ Total(c) = p.tot_len
      /\ d \in Seq(Byte) /\ Len(d) = 2 /\ Total(d) = p.ip_sum
  BY BytesAre DEF Packets
<1>2. PseudoHead(p) = (a \o b) \o c /\ IpHeader(p) = PseudoHead(p) \o d
  BY DEF PseudoHead, IpHeader
<1> HIDE DEF a, b, c, d
<1>3. a \o b \in Seq(Byte) /\ Len(a \o b) = 4 /\ Total(a \o b) = p.addr + p.proto
  <2>1. 1 \in 1..3 /\ Len(a) = 1 + 1
    BY <1>1
  <2>2. /\ a \o b \in Seq(Byte) /\ Len(a \o b) = Len(a) + Len(b)
        /\ Total(a \o b) = Total(a) + Total(b)
        /\ WordCount(a \o b) = 1 + WordCount(b)
    BY <1>1, <2>1, HeaderConcat, Zenon
  <2> QED
    BY <1>1, <2>2
<1>4. /\ (a \o b) \o c \in Seq(Byte) /\ Len((a \o b) \o c) = 6
      /\ Total((a \o b) \o c) = p.addr + p.proto + p.tot_len
  <2>1. 2 \in 1..3 /\ Len((a \o b)) = 2 + 2
    BY <1>1, <1>3
  <2>2. /\ (a \o b) \o c \in Seq(Byte) /\ Len((a \o b) \o c) = Len((a \o b)) + Len(c)
        /\ Total((a \o b) \o c) = Total((a \o b)) + Total(c)
        /\ WordCount((a \o b) \o c) = 2 + WordCount(c)
    BY <1>1, <1>3, <2>1, HeaderConcat, Zenon
  <2> QED
    BY <1>1, <1>3, <2>2
<1>5. /\ PseudoHead(p) \in Seq(Byte) /\ Len(PseudoHead(p)) = 6
      /\ Total(PseudoHead(p)) = p.addr + p.proto + p.tot_len
  BY <1>2, <1>4
<1>6. WordCount(d) = 1
  BY <1>1 DEF WordCount
<1>7. /\ PseudoHead(p) \o d \in Seq(Byte) /\ WordCount(PseudoHead(p) \o d) = 4
      /\ Total(PseudoHead(p) \o d) = p.addr + p.proto + p.tot_len + p.ip_sum
  <2>1. 3 \in 1..3 /\ Len(PseudoHead(p)) = 3 + 3
    BY <1>1, <1>5, <1>6
  <2>2. /\ PseudoHead(p) \o d \in Seq(Byte) /\ Len(PseudoHead(p) \o d) = Len(PseudoHead(p)) + Len(d)
        /\ Total(PseudoHead(p) \o d) = Total(PseudoHead(p)) + Total(d)
        /\ WordCount(PseudoHead(p) \o d) = 3 + WordCount(d)
    BY <1>1, <1>5, <1>6, <2>1, HeaderConcat, Zenon
  <2> QED
    BY <1>1, <1>5, <1>6, <2>2
<1> QED
  BY <1>2, <1>5, <1>7

\* The total of what follows the IP header.
LEMMA TransportTotal ==
    ASSUME NEW p \in Packets
    PROVE  /\ Transport(p) \in Seq(Byte) /\ Len(Transport(p)) = 4 + Len(p.data)
           /\ Total(Transport(p)) = p.len + p.check + Total(p.data)
<1> DEFINE a == Bytes(p.len)
           b == Bytes(p.check)
           d == p.data
<1>1. /\ a \in Seq(Byte) /\ Len(a) = 2 /\ Total(a) = p.len
      /\ b \in Seq(Byte) /\ Len(b) = 2 /\ Total(b) = p.check /\ d \in Seq(Byte)
  BY BytesAre DEF Packets
<1>2. Transport(p) = (a \o b) \o d
  BY DEF Transport, Header
<1> HIDE DEF a, b
<1>3. a \o b \in Seq(Byte) /\ Len(a \o b) = 4 /\ Total(a \o b) = p.len + p.check
  <2>1. 1 \in 1..3 /\ Len(a) = 1 + 1
    BY <1>1
  <2>2. /\ a \o b \in Seq(Byte) /\ Len(a \o b) = Len(a) + Len(b)
        /\ Total(a \o b) = Total(a) + Total(b)
        /\ WordCount(a \o b) = 1 + WordCount(b)
    BY <1>1, <2>1, HeaderConcat, Zenon
  <2> QED
    BY <1>1, <2>2
<1> HIDE DEF d
<1>4. /\ (a \o b) \o d \in Seq(Byte) /\ Len((a \o b) \o d) = 4 + Len(d)
      /\ Total((a \o b) \o d) = p.len + p.check + Total(d)
  <2>1. 2 \in 1..3 /\ Len((a \o b)) = 2 + 2
    BY <1>1, <1>3
  <2>2. /\ (a \o b) \o d \in Seq(Byte) /\ Len((a \o b) \o d) = Len((a \o b)) + Len(d)
        /\ Total((a \o b) \o d) = Total((a \o b)) + Total(d)
        /\ WordCount((a \o b) \o d) = 2 + WordCount(d)
    BY <1>1, <1>3, <2>1, HeaderConcat, Zenon
  <2> QED
    BY <1>1, <1>3, <2>2
<1> QED
  BY <1>2, <1>4 DEF d

\* The IP header's checksum.
LEMMA IpVerifies ==
    ASSUME NEW p \in Packets
    PROVE  /\ cksumIp(p) \in WordValue
           /\ OnesSum(IpHeader([p EXCEPT !.ip_sum = cksumIp(p)])) = WordLimit - 1
<1> DEFINE q == [p EXCEPT !.ip_sum = 0]
           s == CalSum(IpHeader(q))
           y == Fold(s) % WordLimit
           r == [p EXCEPT !.ip_sum = cksumIp(p)]
<1>1. /\ q \in Packets /\ q.ip_sum = 0
      /\ q.addr = p.addr /\ q.proto = p.proto /\ q.tot_len = p.tot_len
  BY Limit DEF Packets, WordValue
<1>2. WordLimit >= 4
  <2>1. Base \in Nat /\ Base >= 2
    BY BaseAssumption
  <2>2. 2 * Base <= Base * Base
    BY <2>1, Scale
  <2> QED
    BY <2>1, <2>2 DEF WordLimit
<1> HIDE DEF q
<1>3. /\ IpHeader(q) \in Seq(Byte) /\ WordCount(IpHeader(q)) = 4
      /\ Total(IpHeader(q)) = p.addr + p.proto + p.tot_len
  <2>1. /\ IpHeader(q) \in Seq(Byte) /\ WordCount(IpHeader(q)) = 4
        /\ Total(IpHeader(q)) = q.addr + q.proto + q.tot_len + q.ip_sum
    BY <1>1, HeaderTotals
  <2>2. p.addr \in Nat /\ p.proto \in Nat /\ p.tot_len \in Nat
    BY DEF Packets, WordValue
  <2> QED
    BY <1>1, <2>1, <2>2
<1>4. s = p.addr + p.proto + p.tot_len /\ s \in Nat /\ s <= 4 * (WordLimit - 1)
  BY <1>2, <1>3, CalSumIsTotal, TotalLoop
<1>5. s \in 0..(SumLimit - 1)
  <2>1. 4 * WordLimit <= SumLimit /\ SumLimit \in Nat
    BY <1>2, Limit, Scale DEF SumLimit
  <2> QED
    BY <1>4, <2>1, Limit
<1> HIDE DEF s
<1>6. Represents(s, y) /\ cksumIp(p) = WordLimit - 1 - y
  BY <1>5, FoldRepresents DEF cksumIp, s, q
<1>7. cksumIp(p) \in WordValue
  BY <1>6, Limit DEF Represents, WordValue
<1>8. /\ r \in Packets /\ r.ip_sum = cksumIp(p)
      /\ r.addr = p.addr /\ r.proto = p.proto /\ r.tot_len = p.tot_len
  BY <1>7 DEF Packets
<1> HIDE DEF r
<1>9. IpHeader(r) \in Seq(Byte) /\ Total(IpHeader(r)) = s + cksumIp(p)
  BY <1>4, <1>8, HeaderTotals
<1>10. Represents(s + cksumIp(p), OnesSum(IpHeader(r)))
  BY <1>9, OnesSumRepresents
<1> HIDE DEF y
<1>11. OnesSum(IpHeader(r)) = WordLimit - 1
  <2>1. s \in Nat
    BY <1>4
  <2>2. \/ cksumIp(p) = WordLimit - 1 - y
        \/ (cksumIp(p) = WordLimit - 1 /\ y = WordLimit - 1)
    BY <1>6
  <2> QED
    BY <1>6, <1>7, <1>10, <2>1, <2>2, Closes, Zenon
<1> QED
  BY <1>7, <1>11 DEF r

\* The transport's checksum, with and without UDP's rule for zero, of a packet whose
\* IP length is right.
LEMMA TransportVerifies ==
    ASSUME NEW p \in Packets, p.tot_len = Len(Transport(p)),
           NEW c \in {cksumTcp(p), cksumUdp(p)}
    PROVE  /\ c \in WordValue
           /\ OnesSum(PseudoHead(p) \o Transport([p EXCEPT !.check = c])) = WordLimit - 1
<1> DEFINE q == [p EXCEPT !.check = 0]
           s == TransportSum(p)
           y == Fold(s) % WordLimit
           r == [p EXCEPT !.check = c]
           n == WordCount(Transport(q))
<1>1. /\ q \in Packets /\ q.check = 0 /\ q.len = p.len /\ q.tot_len = p.tot_len
      /\ q.data = p.data /\ PseudoHead(q) = PseudoHead(p)
  <2>1. /\ q.check = 0 /\ q.len = p.len /\ q.tot_len = p.tot_len
        /\ q.data = p.data /\ q.addr = p.addr /\ q.proto = p.proto
    BY DEF Packets
  <2>2. 0 \in WordValue
    BY Limit DEF WordValue
  <2>3. q \in Packets
    BY <2>2 DEF Packets
  <2> QED
    BY <2>1, <2>3 DEF PseudoHead
<1> HIDE DEF q
<1>2. /\ p.addr \in Nat /\ p.proto \in Nat /\ p.len \in Nat /\ p.data \in Seq(Byte)
      /\ p.tot_len \in Nat /\ p.tot_len < WordLimit /\ p.tot_len = 4 + Len(p.data)
  BY Limit, TransportTotal DEF Packets, WordValue
<1>3. WordLimit >= 9
  <2>1. Base >= 3
    <3>1. Base * Base > 4 /\ Base \in Nat /\ Base > 1
      BY <1>2, BaseAssumption DEF WordLimit
    <3> QED
      BY <3>1
  <2>2. Base \in Nat
    BY BaseAssumption
  <2>3. 3 * Base <= Base * Base
    BY <2>1, <2>2, Scale
  <2> QED
    BY <2>1, <2>2, <2>3 DEF WordLimit
<1>4. /\ PseudoHead(p) \in Seq(Byte) /\ Len(PseudoHead(p)) = 6 /\ WordCount(PseudoHead(p)) = 3
      /\ Total(PseudoHead(p)) = p.addr + p.proto + p.tot_len
  <2>1. /\ PseudoHead(p) \in Seq(Byte) /\ Len(PseudoHead(p)) = 6
        /\ Total(PseudoHead(p)) = p.addr + p.proto + p.tot_len
    BY HeaderTotals
  <2> QED
    BY <2>1 DEF WordCount
<1>5. /\ Transport(q) \in Seq(Byte) /\ Len(Transport(q)) = p.tot_len
      /\ Total(Transport(q)) = p.len + Total(p.data) /\ Total(p.data) \in Nat
  BY <1>1, <1>2, TransportTotal, TotalLoop
<1>6. n \in Nat /\ 3 + n <= WordLimit
  <2>1. n = (p.tot_len + 1) \div 2
    BY <1>5 DEF WordCount
  <2>2. PICK L \in Nat : L = p.tot_len
    BY <1>2
  <2>3. (L + 1) \div 2 \in Nat /\ 2 * ((L + 1) \div 2) <= L + 1
    OBVIOUS
  <2> HIDE DEF n
  <2>4. n \in Nat /\ 2 * n <= L + 1
    BY <2>1, <2>2, <2>3
  <2>5. L < WordLimit /\ WordLimit \in Nat
    BY <1>2, <2>2, Limit
  <2> QED
    BY <1>3, <2>4, <2>5
<1>7. /\ CalSum(PseudoHead(p)) = Total(PseudoHead(p))
      /\ Total(PseudoHead(p)) \in Nat /\ Total(PseudoHead(p)) <= 3 * (WordLimit - 1)
  <2>1. WordCount(PseudoHead(p)) <= WordLimit
    BY <1>3, <1>4, Limit
  <2> QED
    BY <1>4, <2>1, CalSumIsTotal, TotalLoop
<1>8. /\ CalSum(Transport(q)) = Total(Transport(q))
      /\ Total(Transport(q)) \in Nat /\ Total(Transport(q)) <= n * (WordLimit - 1)
  BY <1>5, <1>6, Limit, CalSumIsTotal, TotalLoop
<1>9. SubSeq(Transport(q), 1, q.tot_len) = Transport(q)
  BY <1>1, <1>5
<1> HIDE DEF n
<1>10. Total(PseudoHead(p)) + Total(Transport(q)) \in 0..(SumLimit - 1)
  <2> DEFINE m == WordLimit - 1
             k == 3 + n
  <2>1. m \in Nat /\ m > 0 /\ WordLimit = m + 1 /\ k \in Nat /\ k <= WordLimit
    BY <1>6, Limit
  <2>2. 3 * m + n * m = k * m
    BY <1>6, <2>1
  <2>3. k * m <= WordLimit * m /\ k * m \in Nat
    BY <2>1, Limit, Scale
  <2>4. WordLimit * m = SumLimit - WordLimit /\ SumLimit \in Nat
    BY Limit DEF SumLimit
  <2>5. n * m \in Nat /\ 3 * m \in Nat
    BY <1>6, <2>1
  <2> HIDE DEF k
  <2> QED
    <3>1. Total(PseudoHead(p)) + Total(Transport(q)) <= k * m
      BY <1>7, <1>8, <2>1, <2>2, <2>5
    <3>2. k * m < SumLimit
      BY <2>1, <2>3, <2>4
    <3>3. Total(PseudoHead(p)) + Total(Transport(q)) \in Nat
      BY <1>7, <1>8
    <3> QED
      BY <2>3, <2>4, <3>1, <3>2, <3>3
<1>11. s = Total(PseudoHead(p)) + Total(Transport(q))
  <2>1. s = (Total(PseudoHead(p)) + Total(Transport(q))) % SumLimit
    BY <1>1, <1>7, <1>8, <1>9 DEF TransportSum, q
  <2>2. SumLimit \in Nat
    BY Limit DEF SumLimit
  <2> QED
    BY <1>10, <2>1, <2>2
<1>12. s \in 0..(SumLimit - 1) /\ s \in Nat
  BY <1>10, <1>11
<1> HIDE DEF s
<1>13. Represents(s, y) /\ Complement(Fold(s)) = WordLimit - 1 - y
  BY <1>12, FoldRepresents
<1>14. y \in WordValue
  BY <1>13 DEF Represents
<1> HIDE DEF y
<1>15. /\ c \in WordValue
       /\ c = WordLimit - 1 - y \/ (c = WordLimit - 1 /\ y = WordLimit - 1)
  <2>1. CASE c = cksumTcp(p)
    <3>1. c = Complement(Fold(s))
      BY <2>1, Zenon DEF cksumTcp, s
    <3> QED
      BY <1>13, <1>14, <3>1, Limit DEF WordValue
  <2>2. CASE c = cksumUdp(p)
    <3>1. c = NotZero(Complement(Fold(s)))
      BY <2>2, Zenon DEF cksumUdp, s
    <3> QED
      BY <1>13, <1>14, <3>1, Limit DEF NotZero, WordValue
  <2> QED
    BY <2>1, <2>2
<1>16. r \in Packets /\ r.check = c /\ r.len = p.len /\ r.data = p.data
  BY <1>15 DEF Packets
<1> HIDE DEF r
<1>17. Transport(r) \in Seq(Byte) /\ Total(Transport(r)) = p.len + c + Total(p.data)
  BY <1>16, TransportTotal
<1>18. /\ PseudoHead(p) \o Transport(r) \in Seq(Byte)
       /\ Total(PseudoHead(p) \o Transport(r)) = Total(PseudoHead(p)) + Total(Transport(r))
  <2>1. 3 \in 1..3 /\ Len(PseudoHead(p)) = 3 + 3
    BY <1>4
  <2> QED
    BY <1>4, <1>17, <2>1, HeaderConcat, Zenon
<1>19. Total(PseudoHead(p) \o Transport(r)) = s + c
  <2>1. c \in Nat
    BY <1>15, Limit DEF WordValue
  <2> QED
    BY <1>2, <1>5, <1>7, <1>11, <1>17, <1>18, <2>1
<1>20. Represents(s + c, OnesSum(PseudoHead(p) \o Transport(r)))
  BY <1>18, <1>19, OnesSumRepresents
<1>21. OnesSum(PseudoHead(p) \o Transport(r)) = WordLimit - 1
  BY <1>12, <1>13, <1>15, <1>20, Closes, Zenon
<1> QED
  BY <1>15, <1>21 DEF r

\* What the builders leave is a packet, and its lengths do not depend on the headers.
LEMMA BuiltArePackets ==
    ASSUME NEW n \in Nat, n + 4 < WordLimit, NEW p \in BuiltPackets(n)
    PROVE  /\ p \in Packets /\ Len(p.data) + 4 \in WordValue
           /\ Len(Transport(p)) = Len(p.data) + 4
<1>1. PICK k \in 0..n : p.data \in [1..k -> Byte]
  BY DEF BuiltPackets
<1>2. p.data \in Seq(Byte) /\ Len(p.data) = k
  BY <1>1
<1>3. {0, 1, 4, WordLimit - 1} \subseteq WordValue
  BY Limit DEF WordValue
<1>4. p \in Packets
  BY <1>2, <1>3 DEF BuiltPackets, Packets, WordValue
<1>5. Len(p.data) + 4 \in WordValue
  BY <1>2, Limit DEF WordValue
<1> QED
  BY <1>4, <1>5, <1>2, TransportTotal

\* The IP header of a packet to which its length and its checksum are written.
LEMMA FinalizeIpVerifies ==
    ASSUME NEW p \in Packets, Len(p.data) + 4 \in WordValue
    PROVE  /\ FinalizeIp(p) \in Packets
           /\ FinalizeIp(p).tot_len = Len(p.data) + 4 /\ FinalizeIp(p).data = p.data
           /\ OnesSum(IpHeader(FinalizeIp(p))) = WordLimit - 1
<1> DEFINE q == [p EXCEPT !.tot_len = Len(Transport(p))]
<1>1. Len(Transport(p)) = Len(p.data) + 4
  <2>1. Len(Transport(p)) = 4 + Len(p.data) /\ p.data \in Seq(Byte)
    BY TransportTotal DEF Packets
  <2> QED
    BY <2>1
<1>2. q \in Packets /\ q.tot_len = Len(p.data) + 4 /\ q.data = p.data
  BY <1>1 DEF Packets
<1>3. FinalizeIp(p) = [q EXCEPT !.ip_sum = cksumIp(q)]
  BY Zenon DEF FinalizeIp
<1> HIDE DEF q
<1>4. cksumIp(q) \in WordValue
  BY <1>2, IpVerifies
<1>5. /\ FinalizeIp(p) \in Packets
      /\ FinalizeIp(p).tot_len = q.tot_len /\ FinalizeIp(p).data = q.data
  BY <1>2, <1>3, <1>4 DEF Packets
<1> QED
  BY <1>2, <1>3, <1>5, IpVerifies

\* The transport's checksum written last leaves the IP header as it was.
LEMMA FinalizeVerifies ==
    ASSUME NEW q \in Packets, q.tot_len = Len(q.data) + 4,
           OnesSum(IpHeader(q)) = WordLimit - 1,
           NEW c \in {cksumTcp(q), cksumUdp(q)}
    PROVE  Verifies([q EXCEPT !.check = c])
<1> DEFINE r == [q EXCEPT !.check = c]
<1>1. q.tot_len = Len(Transport(q))
  <2>1. Len(Transport(q)) = 4 + Len(q.data) /\ q.data \in Seq(Byte)
    BY TransportTotal DEF Packets
  <2> QED
    BY <2>1
<1>2. OnesSum(PseudoHead(q) \o Transport(r)) = WordLimit - 1
  BY <1>1, TransportVerifies
<1>3. PseudoHead(r) = PseudoHead(q) /\ IpHeader(r) = IpHeader(q)
  BY DEF Packets, PseudoHead, IpHeader
<1> HIDE DEF r
<1>4. Verifies(r)
  BY <1>2, <1>3 DEF Verifies
<1> QED
  BY <1>4 DEF r

\* finalize_packet_tcp and finalize_packet_udp leave packets whose checksums a receiver
\* accepts, for bytes and words of any width and data of any length that the IP
\* header's field can say, whatever the fields held that the builders do not set.
THEOREM FinalizedVerify ==
    ASSUME NEW n \in Nat, n + 4 < WordLimit, NEW p \in BuiltPackets(n)
    PROVE  /\ Verifies(finalize_packet_tcp(p))
           /\ Verifies(finalize_packet_udp(p))
           /\ finalize_packet_udp(p).check # 0
<1> DEFINE q == FinalizeIp(p)
           u == SetUdpLength(q)
<1>1. p \in Packets /\ Len(p.data) + 4 \in WordValue
  BY BuiltArePackets
<1>2. /\ q \in Packets /\ q.tot_len = Len(p.data) + 4 /\ q.data = p.data
      /\ OnesSum(IpHeader(q)) = WordLimit - 1
  BY <1>1, FinalizeIpVerifies
<1> HIDE DEF q
<1>3. Verifies([q EXCEPT !.check = cksumTcp(q)])
  BY <1>2, FinalizeVerifies
<1>4. /\ u \in Packets /\ u.tot_len = Len(u.data) + 4
      /\ IpHeader(u) = IpHeader(q)
  BY <1>1, <1>2 DEF Packets, SetUdpLength, PseudoHead, IpHeader
<1> HIDE DEF u
<1>5. Verifies([u EXCEPT !.check = cksumUdp(u)])
  BY <1>2, <1>4, FinalizeVerifies
<1>6. cksumUdp(u) # 0
  BY Limit DEF cksumUdp, NotZero
<1>7. [u EXCEPT !.check = cksumUdp(u)].check = cksumUdp(u)
  BY <1>4 DEF Packets
<1>8. /\ finalize_packet_tcp(p) = [q EXCEPT !.check = cksumTcp(q)]
      /\ finalize_packet_udp(p) = [u EXCEPT !.check = cksumUdp(u)]
  BY Zenon DEF finalize_packet_tcp, finalize_packet_udp, q, u
<1> QED
  BY <1>3, <1>5, <1>6, <1>7, <1>8

\* Every packet that a UDP or TCP session writes to the TUN device verifies, for
\* packets of any length that the IP header's field can say.
THEOREM ChecksumsRight ==
    ASSUME MaxData \in Nat, MaxData + 4 < WordLimit
    PROVE  Spec => []ChecksumsVerify
<1>1. ChecksumsVerify
  BY FinalizedVerify DEF ChecksumsVerify
<1> QED
  BY <1>1, PTL
=============================================================================
