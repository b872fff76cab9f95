-------------------------- MODULE RenderingProofs --------------------------
(***************************************************************************)
(* Rows reach libjpeg from the top down, a body is sent only of a page     *)
(* that was rendered, and it is read as all the bytes that libjpeg gave    *)
(* out: proofs for every height, every way of sweeping, any amount of      *)
(* bytes that libjpeg gives out, and buffers and chunks of any size.       *)
(***************************************************************************)
EXTENDS Rendering, Iteration, SequenceTheorems, TLAPS

(* The last digit of a number, and the number the others stand for. *)
LEMMA BaseDivMod ==
  ASSUME NEW x \in Nat
  PROVE  \E q \in Nat, r \in 0..(Base - 1) : q = x \div Base /\ r = x % Base /\ q * Base + r = x
<1>0. Base \in Nat \ {0}
  BY RenderingAssumption
<1>1. PICK q, r : q = x \div Base /\ r = x % Base
  OBVIOUS
<1>2. q \in Nat /\ r \in 0..(Base - 1)
  BY <1>0, <1>1
<1>3. q * Base + r = x
  BY <1>0, <1>1
<1> QED BY <1>1, <1>2, <1>3

(* A larger number has more of the place before the last. *)
LEMMA MoreTimesBase ==
  ASSUME NEW a \in Nat, NEW b \in Nat, a < b
  PROVE  a * Base + Base <= b * Base /\ a * Base \in Nat /\ b * Base \in Nat
<1>1. PICK d \in Nat : b = a + d + 1
  <2>1. b - a - 1 \in Nat /\ b = a + (b - a - 1) + 1
    OBVIOUS
  <2> QED BY <2>1
<1>2. b * Base = a * Base + d * Base + Base
  BY <1>1, RenderingAssumption
<1>3. d * Base \in Nat /\ a * Base \in Nat /\ b * Base \in Nat /\ Base \in Nat
  BY RenderingAssumption
<1> QED BY <1>2, <1>3

(* All digits but the last are those of a smaller number. *)
LEMMA FewerDigits ==
  ASSUME NEW n \in Nat, ~(n < Base)
  PROVE  n \div Base \in 0..(n - 1)
<1>1. PICK q \in Nat, r \in 0..(Base - 1) : q = n \div Base /\ q * Base + r = n
  BY BaseDivMod
<1>2. Base \in Nat /\ Base >= 2
  BY RenderingAssumption
<1>3. q * Base = q + q * (Base - 1) /\ q * (Base - 1) >= q
  <2>1. PICK b \in Nat : Base = b + 2
    <3>1. Base - 2 \in Nat /\ Base = (Base - 2) + 2
      BY <1>2
    <3> QED BY <3>1
  <2>2. q * (b + 2) = q + q * (b + 1) /\ q * (b + 1) = q * b + q /\ q * b \in Nat
    OBVIOUS
  <2>3. Base - 1 = b + 1
    BY <2>1
  <2> QED BY <2>1, <2>2, <2>3
<1>4. CASE q = 0
  <2>1. 0 * Base = 0
    BY <1>2
  <2> QED BY <1>1, <1>2, <1>4, <2>1
<1>5. CASE q # 0
  <2>1. PICK t \in Nat : t = q * (Base - 1) /\ q + t + r = n /\ t >= q
    <3>1. q * (Base - 1) \in Nat
      BY <1>2
    <3> QED BY <1>1, <1>3, <3>1
  <2>2. r \in Nat
    BY <1>2
  <2>3. q \in 0..(n - 1)
    BY <1>5, <2>1, <2>2
  <2> QED BY <1>1, <2>3
<1> QED BY <1>4, <1>5

(* Without their last digit numbers keep their order. *)
LEMMA FewerDigitsMonotone ==
  ASSUME NEW m \in Nat, NEW n \in Nat, m <= n
  PROVE  m \div Base <= n \div Base /\ m \div Base \in Nat /\ n \div Base \in Nat
<1>1. PICK a \in Nat, i \in 0..(Base - 1) : a = m \div Base /\ a * Base + i = m
  BY BaseDivMod
<1>2. PICK b \in Nat, j \in 0..(Base - 1) : b = n \div Base /\ b * Base + j = n
  BY BaseDivMod
<1>3. CASE b < a
  <2>1. b * Base + Base <= a * Base /\ a * Base \in Nat /\ b * Base \in Nat
    BY <1>3, MoreTimesBase
  <2>2. Base \in Nat
    BY RenderingAssumption
  <2> QED BY <1>1, <1>2, <2>1, <2>2
<1>4. CASE ~(b < a)
  BY <1>1, <1>2, <1>4
<1> QED BY <1>3, <1>4

(* The equation of Digits. *)
LEMMA DigitsDefined ==
  /\ Digits \in [Nat -> Seq(Nat)]
  /\ \A n \in Nat : Digits[n] = IF n < Base THEN <<n>> ELSE Append(Digits[n \div Base], n % Base)
<1>1. PICK G : G = [x \in Pasts(Seq(Nat)) |->
                      IF x[1] < Base THEN <<x[1]>> ELSE Append(x[2][x[1] \div Base], x[1] % Base)]
  OBVIOUS
<1>2. ASSUME NEW n \in Nat, NEW h \in [0..(n - 1) -> Seq(Nat)]
      PROVE  G[<<n, h>>] = IF n < Base THEN <<n>> ELSE Append(h[n \div Base], n % Base)
  <2>1. <<n, h>> \in Pasts(Seq(Nat))
    BY DEF Pasts
  <2> QED BY <1>1, <2>1
<1>3. G \in [Pasts(Seq(Nat)) -> Seq(Nat)]
  <2>1. ASSUME NEW x \in Pasts(Seq(Nat)) PROVE G[x] \in Seq(Nat)
    <3>1. PICK n \in Nat : x \in {n} \X [0..(n - 1) -> Seq(Nat)]
      BY DEF Pasts
    <3>2. PICK h \in [0..(n - 1) -> Seq(Nat)] : x = <<n, h>>
      BY <3>1
    <3>3. CASE n < Base
      <4>1. G[x] = <<n>>
        BY <1>2, <3>2, <3>3
      <4> QED BY <4>1
    <3>4. CASE ~(n < Base)
      <4>1. G[x] = Append(h[n \div Base], n % Base)
        BY <1>2, <3>2, <3>4
      <4>2. h[n \div Base] \in Seq(Nat)
        BY <3>4, FewerDigits
      <4>3. n % Base \in Nat
        BY BaseDivMod, RenderingAssumption
      <4> QED BY <4>1, <4>2, <4>3
    <3> QED BY <3>3, <3>4
  <2> QED BY <1>1, <2>1
<1>4. PICK f \in [Nat -> Seq(Nat)] : \A n \in Nat : f[n] = G[<<n, Past(f, n)>>]
  BY <1>3, Recursion
<1>5. ASSUME NEW n \in Nat
      PROVE  f[n] = IF n < Base THEN <<n>> ELSE Append(f[n \div Base], n % Base)
  <2>1. Past(f, n) \in [0..(n - 1) -> Seq(Nat)]
    BY DEF Past
  <2>2. f[n] = IF n < Base THEN <<n>> ELSE Append(Past(f, n)[n \div Base], n % Base)
    BY <1>2, <1>4, <2>1
  <2>3. ~(n < Base) => Past(f, n)[n \div Base] = f[n \div Base]
    BY FewerDigits DEF Past
  <2> QED BY <2>2, <2>3
<1>6. f = [n \in Nat |-> IF n < Base THEN <<n>> ELSE Append(f[n \div Base], n % Base)]
  BY <1>5
<1>7. \E g : g = [n \in Nat |-> IF n < Base THEN <<n>> ELSE Append(g[n \div Base], n % Base)]
  BY <1>6
<1>8. Digits = [n \in Nat |-> IF n < Base THEN <<n>> ELSE Append(Digits[n \div Base], n % Base)]
  BY <1>7, Zenon DEF Digits
<1>9. \A n \in Nat : Digits[n] = IF n < Base THEN <<n>> ELSE Append(Digits[n \div Base], n % Base)
  BY <1>8
<1>10. ASSUME NEW n \in Nat, \A k \in 0..(n - 1) : k \in {m \in Nat : Digits[m] \in Seq(Nat)}
       PROVE  n \in {m \in Nat : Digits[m] \in Seq(Nat)}
  <2>1. CASE n < Base
    <3>1. Digits[n] = <<n>>
      BY <1>9, <2>1
    <3>2. <<n>> \in Seq(Nat)
      OBVIOUS
    <3> QED BY <3>1, <3>2
  <2>2. CASE ~(n < Base)
    <3>1. Digits[n] = Append(Digits[n \div Base], n % Base)
      BY <1>9, <2>2
    <3>2. Digits[n \div Base] \in Seq(Nat)
      BY <1>10, <2>2, FewerDigits
    <3>3. n % Base \in Nat
      BY BaseDivMod, RenderingAssumption
    <3>4. Digits[n] \in Seq(Nat)
      BY <3>1, <3>2, <3>3
    <3> QED BY <3>4
  <2> QED BY <2>1, <2>2
<1>11. \A n \in Nat : n \in {m \in Nat : Digits[m] \in Seq(Nat)}
  BY <1>10, CompleteInduction
<1> QED BY <1>8, <1>9, <1>11

(* The value of the first k digits, for every k. *)
Values(s, v) ==
  /\ v \in [0..Len(s) -> Nat] /\ v[0] = 0
  /\ \A k \in 1..Len(s) : v[k] = v[k - 1] * Base + s[k]

(* The recursion of Number is well defined. *)
LEMMA NumberDefined ==
  ASSUME NEW s \in Seq(Nat)
  PROVE  \E v : Values(s, v) /\ Number(s) = v[Len(s)]
<1>0. Len(s) \in Nat /\ Base \in Nat /\ \A k \in 1..Len(s) : s[k] \in Nat
  BY RenderingAssumption
<1>a. PICK n \in Nat : n = Len(s)
  BY <1>0
<1>1. PICK step : step = [x \in Nat \X Nat |-> IF x[1] \in 1..Len(s) THEN x[2] * Base + s[x[1]] ELSE 0]
  OBVIOUS
<1>2. step \in [Nat \X Nat -> Nat]
  <2>1. ASSUME NEW x \in Nat \X Nat PROVE step[x] \in Nat
    <3>1. x[2] * Base \in Nat
      BY <1>0
    <3> QED BY <1>0, <1>1, <3>1
  <2> QED BY <1>1, <2>1
<1>3. PICK f \in [Nat -> Nat] : Loops(f, 0, step)
  BY <1>2, Loop
<1>4. \A k \in Nat : f[k] = IF k = 0 THEN 0 ELSE step[<<k, f[k - 1]>>]
  BY <1>3 DEF Loops
<1>5. PICK v : v = [k \in 0..Len(s) |-> f[k]]
  OBVIOUS
<1>6. v \in [0..Len(s) -> Nat] /\ v[0] = 0
  <2>1. \A k \in 0..n : k \in Nat /\ f[k] \in Nat
    OBVIOUS
  <2>2. 0 \in 0..n /\ f[0] = 0
    <3>1. 0 \in Nat /\ 0 \in 0..n
      OBVIOUS
    <3>2. f[0] = 0
      BY ONLY <1>4, <3>1, Zenon
    <3> QED BY <3>1, <3>2
  <2> QED BY <1>a, <1>5, <2>1, <2>2
<1>7. ASSUME NEW k \in 1..Len(s) PROVE v[k] = v[k - 1] * Base + s[k]
  <2>1. k \in Nat /\ k # 0 /\ k - 1 \in Nat /\ k - 1 \in 0..Len(s) /\ k \in 0..Len(s)
    <3>1. k \in 1..n
      BY <1>a
    <3>2. k \in Nat /\ k # 0 /\ k - 1 \in Nat /\ k - 1 \in 0..n /\ k \in 0..n
      BY <3>1
    <3> QED BY <1>a, <3>2
  <2>2. f[k] = step[<<k, f[k - 1]>>] /\ f[k - 1] \in Nat
    BY <1>4, <2>1
  <2>3. step[<<k, f[k - 1]>>] = f[k - 1] * Base + s[k]
    BY <1>1, <2>1, <2>2
  <2> QED BY <1>5, <2>1, <2>2, <2>3
<1>8. Values(s, v)
  BY <1>6, <1>7 DEF Values
<1>9. v = [k \in 0..Len(s) |-> IF k = 0 THEN 0 ELSE v[k - 1] * Base + s[k]]
  <2>1. \A k \in 0..Len(s) : v[k] = IF k = 0 THEN 0 ELSE v[k - 1] * Base + s[k]
    <3>1. \A k \in 0..Len(s) : k # 0 => k \in 1..Len(s)
      BY <1>0
    <3> QED BY <1>6, <1>7, <3>1
  <2> QED BY <1>6, <2>1
<1>10. PICK u : /\ u = [k \in 0..Len(s) |-> IF k = 0 THEN 0 ELSE u[k - 1] * Base + s[k]]
               /\ Number(s) = u[Len(s)]
  <2>1. \E u : u = [k \in 0..Len(s) |-> IF k = 0 THEN 0 ELSE u[k - 1] * Base + s[k]]
    BY <1>9
  <2> QED BY <2>1, Zenon DEF Number
<1>11. \A k \in Nat : k \in {i \in Nat : i <= Len(s) => u[i] = v[i]}
  <2> DEFINE T == {i \in Nat : i <= Len(s) => u[i] = v[i]}
  <2>1. 0 \in T
    BY <1>0, <1>6, <1>10
  <2>2. ASSUME NEW k \in Nat, k \in T PROVE k + 1 \in T
    <3> SUFFICES ASSUME k + 1 <= Len(s) PROVE u[k + 1] = v[k + 1]
      OBVIOUS
    <3>1. k + 1 \in 1..Len(s) /\ k + 1 \in 0..Len(s) /\ k + 1 # 0 /\ k + 1 - 1 = k /\ k <= Len(s)
      <4>1. k + 1 <= n
        BY <1>a
      <4>2. k + 1 \in 1..n /\ k + 1 \in 0..n /\ k + 1 # 0 /\ k + 1 - 1 = k /\ k <= n
        BY <4>1
      <4> QED BY <1>a, <4>2
    <3>2. u[k] = v[k]
      BY <2>2, <3>1
    <3>3. u[k + 1] = u[k + 1 - 1] * Base + s[k + 1]
      <4>1. \A i \in 0..Len(s) : u[i] = IF i = 0 THEN 0 ELSE u[i - 1] * Base + s[i]
        BY <1>10
      <4> QED BY <3>1, <4>1
    <3>4. v[k + 1] = v[k + 1 - 1] * Base + s[k + 1]
      BY <1>7, <3>1
    <3> QED BY <3>1, <3>2, <3>3, <3>4
  <2> QED BY <2>1, <2>2, Induction
<1>12. u[Len(s)] = v[Len(s)]
  <2>1. n <= Len(s)
    BY <1>a
  <2>2. n <= Len(s) => u[n] = v[n]
    BY <1>11
  <2> QED BY <1>a, <2>1, <2>2
<1> QED BY <1>8, <1>10, <1>12

(* Digits after a place do not change the value of those before it. *)
LEMMA ValuesAgree ==
  ASSUME NEW s \in Seq(Nat), NEW t \in Seq(Nat), NEW v, NEW u, Values(s, v), Values(t, u),
         NEW n \in Nat, n <= Len(s), n <= Len(t), \A i \in 1..n : s[i] = t[i]
  PROVE  v[n] = u[n]
<1> DEFINE T == {i \in Nat : i <= n => v[i] = u[i]}
<1>0. Len(s) \in Nat /\ Len(t) \in Nat
  OBVIOUS
<1>1. 0 \in T
  BY DEF Values
<1>2. ASSUME NEW k \in Nat, k \in T PROVE k + 1 \in T
  <2> SUFFICES ASSUME k + 1 <= n PROVE v[k + 1] = u[k + 1]
    OBVIOUS
  <2>1. k + 1 \in 1..n /\ k + 1 \in 1..Len(s) /\ k + 1 \in 1..Len(t) /\ k + 1 - 1 = k /\ k <= n
    BY <1>0
  <2>2. v[k] = u[k] /\ s[k + 1] = t[k + 1]
    BY <1>2, <2>1
  <2>3. v[k + 1] = v[k + 1 - 1] * Base + s[k + 1]
    BY <2>1 DEF Values
  <2>4. u[k + 1] = u[k + 1 - 1] * Base + t[k + 1]
    BY <2>1 DEF Values
  <2> QED BY <2>1, <2>2, <2>3, <2>4
<1>3. \A k \in Nat : k \in T
  <2> HIDE DEF T
  <2> QED BY <1>1, <1>2, Induction
<1> QED BY <1>3

(* What a line of digits stands for. *)
LEMMA NumberType == ASSUME NEW s \in Seq(Nat) PROVE Number(s) \in Nat
<1>1. PICK v : Values(s, v) /\ Number(s) = v[Len(s)]
  BY NumberDefined
<1>2. Len(s) \in 0..Len(s)
  OBVIOUS
<1> QED BY <1>1, <1>2 DEF Values

(* One digit more, as Digits appends it. *)
LEMMA NumberAppended ==
  ASSUME NEW s \in Seq(Nat), NEW d \in Nat
  PROVE  Number(Append(s, d)) = Number(s) * Base + d
<1>1. PICK n \in Nat, t \in Seq(Nat) :
        /\ n = Len(s) /\ t = Append(s, d) /\ Len(t) = n + 1 /\ t[n + 1] = d
        /\ \A i \in 1..n : s[i] = t[i]
  <2>1. PICK n \in Nat, t \in Seq(Nat) : n = Len(s) /\ t = Append(s, d)
    <3>1. Len(s) \in Nat /\ Append(s, d) \in Seq(Nat)
      OBVIOUS
    <3> QED BY <3>1
  <2>2. Len(t) = n + 1 /\ t[n + 1] = d
    BY <2>1
  <2>3. \A i \in 1..n : s[i] = t[i]
    BY <2>1
  <2> QED BY <2>1, <2>2, <2>3
<1>2. PICK v : Values(s, v) /\ Number(s) = v[n]
  BY <1>1, NumberDefined
<1>3. PICK u : Values(t, u) /\ Number(t) = u[n + 1]
  BY <1>1, NumberDefined
<1>4. n <= Len(s) /\ n <= Len(t) /\ n + 1 \in 1..Len(t) /\ n + 1 - 1 = n
  BY <1>1
<1>5. v[n] = u[n]
  <2>1. \A i \in 1..n : s[i] = t[i]
    BY <1>1
  <2>2. Values(s, v) /\ Values(t, u)
    BY <1>2, <1>3
  <2> QED BY <1>4, <2>1, <2>2, ValuesAgree
<1>6. u[n + 1] = u[n + 1 - 1] * Base + t[n + 1]
  BY <1>3, <1>4 DEF Values
<1> QED BY <1>1, <1>2, <1>3, <1>4, <1>5, <1>6

LEMMA NumberOfOne == ASSUME NEW d \in Nat PROVE Number(<<d>>) = d
<1>1. PICK t \in Seq(Nat) : t = <<d>> /\ Len(t) = 1 /\ t[1] = d
  <2>1. <<d>> \in Seq(Nat) /\ Len(<<d>>) = 1 /\ <<d>>[1] = d
    OBVIOUS
  <2> QED BY <2>1
<1>2. PICK u : Values(t, u) /\ Number(t) = u[1]
  BY <1>1, NumberDefined
<1>3. 1 \in 1..Len(t) /\ 1 - 1 = 0
  BY <1>1
<1>4. u[1] = u[1 - 1] * Base + t[1] /\ u[0] = 0
  BY <1>2, <1>3 DEF Values
<1>5. 0 * Base = 0
  BY RenderingAssumption
<1> QED BY <1>1, <1>2, <1>3, <1>4, <1>5

(* The line of digits that BuildChunk writes is read as the size it was    *)
(* written for.                                                            *)
ReadBack(n) ==
  /\ Digits[n] \in Seq(0..(Base - 1)) /\ Len(Digits[n]) \in Nat \ {0}
  /\ Number(Digits[n]) = n

LEMMA DigitsReadBack == \A n \in Nat : ReadBack(n)
<1>1. ASSUME NEW n \in Nat, \A k \in 0..(n - 1) : k \in {m \in Nat : ReadBack(m)}
      PROVE  n \in {m \in Nat : ReadBack(m)}
  <2>1. CASE n < Base
    <3>1. Digits[n] = <<n>>
      BY <2>1, DigitsDefined
    <3>2. n \in 0..(Base - 1)
      BY <2>1, RenderingAssumption
    <3>3. <<n>> \in Seq(0..(Base - 1)) /\ Len(<<n>>) = 1
      BY <3>2
    <3>4. Number(<<n>>) = n
      BY NumberOfOne
    <3>5. Digits[n] \in Seq(0..(Base - 1)) /\ Len(Digits[n]) = 1 /\ Number(Digits[n]) = n
      BY <3>1, <3>3, <3>4
    <3>6. 1 \in Nat \ {0}
      OBVIOUS
    <3>7. ReadBack(n)
      BY <3>5, <3>6 DEF ReadBack
    <3> QED BY <3>7
  <2>2. CASE ~(n < Base)
    <3>1. PICK q \in Nat, r \in 0..(Base - 1) : q = n \div Base /\ r = n % Base /\ q * Base + r = n
      BY BaseDivMod
    <3>2. q \in 0..(n - 1)
      BY <2>2, <3>1, FewerDigits
    <3>3. ReadBack(q)
      BY <1>1, <3>2
    <3>4. Digits[n] = Append(Digits[q], r)
      BY <2>2, <3>1, DigitsDefined
    <3>5. PICK s \in Seq(0..(Base - 1)) : s = Digits[q] /\ Number(s) = q /\ Len(s) \in Nat \ {0}
      BY <3>3 DEF ReadBack
    <3>6. Append(s, r) \in Seq(0..(Base - 1)) /\ Len(Append(s, r)) = Len(s) + 1
      OBVIOUS
    <3>7. s \in Seq(Nat) /\ r \in Nat
      <4>1. r \in Nat /\ \A x \in 0..(Base - 1) : x \in Nat
        BY RenderingAssumption
      <4>2. \A i \in 1..Len(s) : s[i] \in Nat
        <5>1. \A i \in 1..Len(s) : s[i] \in 0..(Base - 1)
          BY ElementOfSeq
        <5> QED BY <4>1, <5>1
      <4>3. s = [i \in 1..Len(s) |-> s[i]]
        OBVIOUS
      <4> QED BY <3>5, <4>1, <4>2, <4>3
    <3>8. Number(Append(s, r)) = n
      BY <3>1, <3>5, <3>7, NumberAppended
    <3>9. Len(s) + 1 \in Nat \ {0}
      BY <3>5
    <3>10. ReadBack(n)
      BY <3>4, <3>5, <3>6, <3>8, <3>9 DEF ReadBack
    <3> QED BY <3>10
  <2> QED BY <2>1, <2>2
<1>2. \A n \in Nat : n \in {m \in Nat : ReadBack(m)}
  BY <1>1, CompleteInduction
<1> QED BY <1>2

(* A smaller size has no more digits. *)
NoLonger(n) == \A m \in 0..n : Len(Digits[m]) <= Len(Digits[n])

LEMMA DigitsMonotone == \A n \in Nat : NoLonger(n)
<1>1. ASSUME NEW n \in Nat, \A k \in 0..(n - 1) : k \in {j \in Nat : NoLonger(j)}
      PROVE  NoLonger(n)
  <2> SUFFICES ASSUME NEW m \in 0..n PROVE Len(Digits[m]) <= Len(Digits[n])
    BY DEF NoLonger
  <2>0. Len(Digits[n]) \in Nat \ {0} /\ m \in Nat /\ m <= n
    BY DigitsReadBack DEF ReadBack
  <2>1. CASE m < Base
    <3>1. Digits[m] = <<m>> /\ Len(<<m>>) = 1
      BY <2>0, <2>1, DigitsDefined
    <3> QED BY <2>0, <3>1
  <2>2. CASE ~(m < Base)
    <3>1. ~(n < Base)
      BY <2>0, <2>2, RenderingAssumption
    <3>2. PICK p \in Nat, q \in Nat : p = m \div Base /\ q = n \div Base /\ p <= q
      BY <2>0, FewerDigitsMonotone
    <3>3. q \in 0..(n - 1)
      BY <3>1, <3>2, FewerDigits
    <3>4. NoLonger(q)
      BY <1>1, <3>3
    <3>5. p \in 0..q
      BY <3>2
    <3>6. Len(Digits[p]) <= Len(Digits[q])
      BY <3>4, <3>5 DEF NoLonger
    <3>7. Digits[m] = Append(Digits[p], m % Base) /\ Digits[n] = Append(Digits[q], n % Base)
      BY <2>0, <2>2, <3>1, <3>2, DigitsDefined
    <3>8. PICK s \in Seq(Nat), t \in Seq(Nat) : s = Digits[p] /\ t = Digits[q]
      BY <3>2, DigitsDefined
    <3>9. m % Base \in Nat /\ n % Base \in Nat
      BY <2>0, BaseDivMod, RenderingAssumption
    <3>10. Len(Append(s, m % Base)) = Len(s) + 1 /\ Len(Append(t, n % Base)) = Len(t) + 1
      BY <3>9
    <3>11. Len(s) \in Nat /\ Len(t) \in Nat /\ Len(s) <= Len(t)
      BY <3>6, <3>8
    <3> QED BY <3>7, <3>8, <3>10, <3>11
  <2> QED BY <2>1, <2>2
<1>2. \A n \in Nat : n \in {j \in Nat : NoLonger(j)}
  BY <1>1, CompleteInduction
<1> QED BY <1>2

(* The text of a chunk: the digits of its size, the end of their line, the *)
(* data and the end of that.                                               *)
ChunkText(t, digits, data) ==
  /\ t \in Seq(Int) /\ Len(t) = Len(digits) + Len(data) + 4
  /\ \A i \in 1..Len(digits) : t[i] = digits[i]
  /\ t[Len(digits) + 1] = CR /\ t[Len(digits) + 2] = LF
  /\ \A i \in 1..Len(data) : t[Len(digits) + 2 + i] = data[i]
  /\ t[Len(digits) + Len(data) + 3] = CR /\ t[Len(digits) + Len(data) + 4] = LF

(* What a byte of a buffer is after a memcpy. *)
PutInto(new, old, D, at, bytes) ==
  \A i \in D : new[i] = IF i - at + 1 \in 1..Len(bytes) THEN bytes[i - at + 1] ELSE old[i]

LEMMA PutAt ==
  ASSUME NEW D, NEW V, NEW buf \in [D -> V], D \subseteq Int, NEW at \in Int, NEW bytes \in Seq(V)
  PROVE  Put(buf, at, bytes) \in [D -> V] /\ PutInto(Put(buf, at, bytes), buf, D, at, bytes)
<1>1. DOMAIN buf = D
  OBVIOUS
<1>2. Put(buf, at, bytes) = [i \in D |-> IF i - at + 1 \in 1..Len(bytes) THEN bytes[i - at + 1] ELSE buf[i]]
  BY <1>1 DEF Put
<1>3. ASSUME NEW i \in D
      PROVE  (IF i - at + 1 \in 1..Len(bytes) THEN bytes[i - at + 1] ELSE buf[i]) \in V
  BY ElementOfSeq
<1> QED BY <1>2, <1>3 DEF PutInto

(* A sequence over a set is one over a larger set. *)
LEMMA SeqOfMore ==
  ASSUME NEW S, NEW T, S \subseteq T, NEW s \in Seq(S)
  PROVE  s \in Seq(T)
<1>1. \A i \in 1..Len(s) : s[i] \in T
  BY ElementOfSeq
<1>2. s = [i \in 1..Len(s) |-> s[i]] /\ Len(s) \in Nat
  OBVIOUS
<1> QED BY <1>1, <1>2

(* BuildChunk stays within the buffer, and returns the text of the chunk.  *)
Slice(buf, first, last) == [i \in 1..(last - first + 1) |-> buf[first + i - 1]]

LEMMA ChunkBuilt ==
  ASSUME NEW V, Int \subseteq V, NEW buf \in [0..(BufferSize - 1) -> V],
         NEW data \in Seq(Nat), Len(data) <= MaxChunkSize,
         NEW built, NEW first, NEW last,
         BuildChunk(Put(buf, ChunkOffset, data), Len(data)) = [buffer |-> built, first |-> first, last |-> last]
  PROVE  /\ first \in 0..(BufferSize - 1) /\ last \in 0..(BufferSize - 1)
         /\ built \in [0..(BufferSize - 1) -> V]
         /\ ChunkText(Slice(built, first, last), Digits[Len(data)], data)
<1>1. PICK B0 \in Nat, F \in Nat, n \in Nat :
        /\ B0 = BufferSize /\ F = ChunkOffset /\ n = Len(data) /\ n <= MaxChunkSize
        /\ MaxChunkSize \in Nat /\ F + MaxChunkSize + 2 <= B0
  <2>1. Len(data) \in Nat
    OBVIOUS
  <2> QED BY <2>1, RenderingAssumption, ChunkAssumption
<1>2. PICK digits \in Seq(Nat), m \in Nat : digits = Digits[n] /\ m = Len(digits) /\ m >= 1
  <2>1. Digits[n] \in Seq(Nat)
    BY DigitsDefined
  <2>2. Len(Digits[n]) \in Nat \ {0}
    BY DigitsReadBack DEF ReadBack
  <2> QED BY <2>1, <2>2
<1>3. m + 2 <= F
  <2>1. PICK M \in Nat : M = MaxChunkSize /\ n \in 0..M
    BY <1>1
  <2>2. Len(Digits[n]) <= Len(Digits[M])
    BY <2>1, DigitsMonotone DEF NoLonger
  <2>3. Len(Digits[M]) + 2 <= F
    BY <1>1, <2>1, ChunkAssumption
  <2>4. Len(Digits[M]) \in Nat
    BY DigitsReadBack DEF ReadBack
  <2> QED BY <1>2, <2>2, <2>3, <2>4
<1>4. PICK end \in Seq(Int) : end = <<CR, LF>> /\ Len(end) = 2 /\ end[1] = CR /\ end[2] = LF
  <2>1. <<CR, LF>> \in Seq(Int) /\ Len(<<CR, LF>>) = 2 /\ <<CR, LF>>[1] = CR /\ <<CR, LF>>[2] = LF
    BY DEF CR, LF
  <2> QED BY <2>1
<1>5. PICK line \in Seq(Int) :
        /\ line = digits \o end /\ Len(line) = m + 2
        /\ \A i \in 1..m : line[i] = digits[i]
        /\ line[m + 1] = CR /\ line[m + 2] = LF
  <2>1. digits \in Seq(Int)
    BY SeqOfMore
  <2>2. PICK line \in Seq(Int) : line = digits \o end
    <3>1. digits \o end \in Seq(Int)
      BY <2>1
    <3> QED BY <3>1
  <2>3. Len(line) = m + 2
    BY <1>2, <1>4, <2>1, <2>2
  <2>4. \A i \in 1..(m + 2) : line[i] = IF i <= m THEN digits[i] ELSE end[i - m]
    BY <1>2, <1>4, <2>1, <2>2
  <2>5. m + 1 \in 1..(m + 2) /\ m + 2 \in 1..(m + 2) /\ m + 1 - m = 1 /\ m + 2 - m = 2
        /\ ~(m + 1 <= m) /\ ~(m + 2 <= m)
    OBVIOUS
  <2>6. \A i \in 1..m : i \in 1..(m + 2) /\ i <= m
    OBVIOUS
  <2>7. \A i \in 1..m : line[i] = digits[i]
    BY <2>4, <2>6
  <2>8. line[m + 1] = CR /\ line[m + 2] = LF
    BY <1>4, <2>4, <2>5
  <2> QED BY <2>2, <2>3, <2>7, <2>8
<1> DEFINE D == 0..(B0 - 1)
<1>6. D \subseteq Int /\ buf \in [D -> V] /\ data \in Seq(V) /\ line \in Seq(V) /\ end \in Seq(V)
  <2>1. Nat \subseteq V
    OBVIOUS
  <2> QED BY <1>1, <2>1, SeqOfMore
<1> HIDE DEF D
<1>7. PICK b1 \in [D -> V] : b1 = Put(buf, F, data)
        /\ \A i \in D : b1[i] = IF i - F + 1 \in 1..n THEN data[i - F + 1] ELSE buf[i]
  <2>0. F \in Int
    OBVIOUS
  <2>1. Put(buf, F, data) \in [D -> V] /\ PutInto(Put(buf, F, data), buf, D, F, data)
    BY <1>6, <2>0, PutAt
  <2> QED BY <1>1, <2>1 DEF PutInto
<1>8. PICK b2 \in [D -> V] : b2 = Put(b1, F - (m + 2), line)
        /\ \A i \in D : b2[i] = IF i - (F - (m + 2)) + 1 \in 1..(m + 2) THEN line[i - (F - (m + 2)) + 1] ELSE b1[i]
  <2>0. F - (m + 2) \in Int
    OBVIOUS
  <2>1. /\ Put(b1, F - (m + 2), line) \in [D -> V]
        /\ PutInto(Put(b1, F - (m + 2), line), b1, D, F - (m + 2), line)
    BY <1>6, <2>0, PutAt
  <2> QED BY <1>5, <2>1 DEF PutInto
<1>9. PICK b3 \in [D -> V] : b3 = Put(b2, F + n, end)
        /\ \A i \in D : b3[i] = IF i - (F + n) + 1 \in 1..2 THEN end[i - (F + n) + 1] ELSE b2[i]
  <2>0. F + n \in Int
    OBVIOUS
  <2>1. /\ Put(b2, F + n, end) \in [D -> V]
        /\ PutInto(Put(b2, F + n, end), b2, D, F + n, end)
    BY <1>6, <2>0, PutAt
  <2> QED BY <1>4, <2>1 DEF PutInto
<1>10. built = b3 /\ first = F - (m + 2) /\ last = F + n + 1
  <2>1. BuildChunk(b1, n) = [buffer |-> b3, first |-> F - Len(line), last |-> F + n + 1]
    BY <1>1, <1>2, <1>4, <1>5, <1>8, <1>9 DEF BuildChunk
  <2>2. [buffer |-> built, first |-> first, last |-> last] = [buffer |-> b3, first |-> F - Len(line), last |-> F + n + 1]
    BY <1>1, <1>7, <2>1
  <2> QED BY <1>5, <2>2
<1>11. first \in 0..(B0 - 1) /\ last \in 0..(B0 - 1) /\ last - first + 1 = m + n + 4
  BY <1>1, <1>3, <1>10
<1>12. PICK t : t = [i \in 1..(m + n + 4) |-> b3[first + i - 1]]
  OBVIOUS
<1>13. ASSUME NEW i \in 1..(m + n + 4)
       PROVE  /\ i <= m + 2 => t[i] = line[i]
              /\ m + 2 < i /\ i <= m + 2 + n => t[i] = data[i - (m + 2)]
              /\ m + 2 + n < i => t[i] = end[i - (m + 2 + n)]
  <2>0. PICK p \in Int : p = F - (m + 2) + i - 1
    <3>1. F - (m + 2) + i - 1 \in Int
      OBVIOUS
    <3> QED BY <3>1
  <2>1. p = first + i - 1 /\ p \in D
    BY <1>1, <1>3, <1>10, <2>0 DEF D
  <2>2. t[i] = b3[p]
    BY <1>12, <2>1
  <2>3. CASE i <= m + 2
    <3>1. ~(p - (F + n) + 1 \in 1..2) /\ p - (F - (m + 2)) + 1 \in 1..(m + 2) /\ p - (F - (m + 2)) + 1 = i
      BY <2>0, <2>3
    <3>2. b3[p] = b2[p] /\ b2[p] = line[i]
      BY <1>8, <1>9, <2>1, <3>1
    <3> QED BY <2>2, <2>3, <3>2
  <2>4. CASE m + 2 < i /\ i <= m + 2 + n
    <3>1. ~(p - (F + n) + 1 \in 1..2) /\ ~(p - (F - (m + 2)) + 1 \in 1..(m + 2))
          /\ p - F + 1 \in 1..n /\ p - F + 1 = i - (m + 2)
      BY <2>0, <2>4
    <3>2. b3[p] = b2[p] /\ b2[p] = b1[p] /\ b1[p] = data[i - (m + 2)]
      BY <1>7, <1>8, <1>9, <2>1, <3>1
    <3> QED BY <2>2, <2>4, <3>2
  <2>5. CASE m + 2 + n < i
    <3>1. p - (F + n) + 1 \in 1..2 /\ p - (F + n) + 1 = i - (m + 2 + n)
      BY <2>0, <2>5
    <3>2. b3[p] = end[i - (m + 2 + n)]
      BY <1>9, <2>1, <3>1
    <3> QED BY <2>2, <2>5, <3>2
  <2> QED BY <2>3, <2>4, <2>5
<1>14. t \in Seq(Int) /\ Len(t) = m + n + 4
  <2>1. ASSUME NEW i \in 1..(m + n + 4) PROVE t[i] \in Int
    <3>1. CASE i <= m + 2
      <4>1. i \in 1..Len(line)
        BY <1>5, <3>1
      <4>2. line[i] \in Int
        BY <4>1, ElementOfSeq
      <4> QED BY <1>13, <3>1, <4>2
    <3>2. CASE m + 2 < i /\ i <= m + 2 + n
      <4>1. i - (m + 2) \in 1..Len(data)
        BY <1>1, <3>2
      <4>2. data[i - (m + 2)] \in Nat
        BY <4>1, ElementOfSeq
      <4> QED BY <1>13, <3>2, <4>2
    <3>3. CASE m + 2 + n < i
      <4>1. i - (m + 2 + n) \in 1..Len(end)
        BY <1>4, <3>3
      <4>2. end[i - (m + 2 + n)] \in Int
        BY <4>1, ElementOfSeq
      <4> QED BY <1>13, <3>3, <4>2
    <3> QED BY <3>1, <3>2, <3>3
  <2>2. m + n + 4 \in Nat
    OBVIOUS
  <2> QED BY <1>12, <2>1, <2>2
<1>15. ChunkText(t, digits, data)
  <2>1. \A i \in 1..m : t[i] = digits[i]
    <3> SUFFICES ASSUME NEW i \in 1..m PROVE t[i] = digits[i]
      OBVIOUS
    <3>1. i \in 1..(m + n + 4) /\ i <= m + 2
      OBVIOUS
    <3> QED BY <1>5, <1>13, <3>1
  <2>2. t[m + 1] = CR /\ t[m + 2] = LF
    <3>1. m + 1 \in 1..(m + n + 4) /\ m + 2 \in 1..(m + n + 4) /\ m + 1 <= m + 2 /\ m + 2 <= m + 2
      OBVIOUS
    <3> QED BY <1>5, <1>13, <3>1
  <2>3. \A i \in 1..n : t[m + 2 + i] = data[i]
    <3> SUFFICES ASSUME NEW i \in 1..n PROVE t[m + 2 + i] = data[i]
      OBVIOUS
    <3>1. m + 2 + i \in 1..(m + n + 4) /\ m + 2 < m + 2 + i /\ m + 2 + i <= m + 2 + n /\ m + 2 + i - (m + 2) = i
      OBVIOUS
    <3> QED BY <1>13, <3>1
  <2>4. t[m + n + 3] = CR /\ t[m + n + 4] = LF
    <3>1. /\ m + n + 3 \in 1..(m + n + 4) /\ m + n + 4 \in 1..(m + n + 4)
          /\ m + 2 + n < m + n + 3 /\ m + 2 + n < m + n + 4
          /\ m + n + 3 - (m + 2 + n) = 1 /\ m + n + 4 - (m + 2 + n) = 2
      OBVIOUS
    <3>2. t[m + n + 3] = end[m + n + 3 - (m + 2 + n)]
      BY <1>13, <3>1
    <3>3. t[m + n + 4] = end[m + n + 4 - (m + 2 + n)]
      BY <1>13, <3>1
    <3> QED BY <1>4, <3>1, <3>2, <3>3
  <2> QED BY <1>1, <1>2, <1>14, <2>1, <2>2, <2>3, <2>4 DEF ChunkText
<1>16. Slice(built, first, last) = t
  BY <1>10, <1>11, <1>12 DEF Slice
<1> QED BY <1>1, <1>2, <1>10, <1>11, <1>15, <1>16 DEF D

(* A size line has one end: an end of a line is no digit. *)
LEMMA OneEnd ==
  ASSUME NEW w, NEW at \in Int, NEW d \in Int, NEW e \in Int, ChunkAt(w, at, d), ChunkAt(w, at, e)
  PROVE  d = e
<1>1. w[d] = CR /\ w[e] = CR /\ at < d /\ at < e
      /\ (\A i \in at..(d - 1) : w[i] \in 0..(Base - 1)) /\ \A i \in at..(e - 1) : w[i] \in 0..(Base - 1)
  BY DEF ChunkAt, LineEnd
<1>2. ~(CR \in 0..(Base - 1))
  BY RenderingAssumption DEF CR
<1>3. ~(d < e)
  <2> SUFFICES ASSUME d < e PROVE FALSE
    OBVIOUS
  <2>1. d \in at..(e - 1)
    BY <1>1
  <2> QED BY <1>1, <1>2, <2>1
<1>4. ~(e < d)
  <2> SUFFICES ASSUME e < d PROVE FALSE
    OBVIOUS
  <2>1. e \in at..(d - 1)
    BY <1>1
  <2> QED BY <1>1, <1>2, <2>1
<1> QED BY <1>3, <1>4

(* A part of a sequence, byte by byte. *)
LEMMA Part ==
  ASSUME NEW S, NEW s \in Seq(S), NEW a \in Nat, NEW n \in Nat, a + n <= Len(s)
  PROVE  /\ SubSeq(s, a + 1, a + n) \in Seq(S) /\ Len(SubSeq(s, a + 1, a + n)) = n
         /\ SubSeq(s, a + 1, a + n) = [i \in 1..n |-> s[a + i]]
<1>1. PICK t : t = SubSeq(s, a + 1, a + n)
  OBVIOUS
<1>2. t = [i \in 1..n |-> s[a + i]]
  BY <1>1
<1>3. \A i \in 1..n : s[a + i] \in S
  <2> SUFFICES ASSUME NEW i \in 1..n PROVE s[a + i] \in S
    OBVIOUS
  <2>1. a + i \in 1..Len(s)
    OBVIOUS
  <2> QED BY <2>1, ElementOfSeq
<1>4. t \in Seq(S) /\ Len(t) = n
  BY <1>2, <1>3
<1> QED BY <1>1, <1>2, <1>4

LEMMA IntPart ==
  ASSUME NEW s \in Seq(Int), NEW a \in Nat, NEW n \in Nat, a + n <= Len(s)
  PROVE  SubSeq(s, a + 1, a + n) = [i \in 1..n |-> s[a + i]]
BY Part

(* The size of a complete chunk, and where it ends. *)
LEMMA ChunkSize ==
  ASSUME NEW w \in Seq(Int), NEW at \in Nat \ {0}, NEW end \in Nat, ChunkAt(w, at, end)
  PROVE  /\ SizeAt(w, at, end) \in Nat /\ end + SizeAt(w, at, end) + 3 <= Len(w)
         /\ end \in at..Len(w) /\ SubSeq(w, at, end - 1) = [i \in 1..(end - at) |-> w[at - 1 + i]]
<1>1. at < end /\ (\A i \in at..(end - 1) : w[i] \in 0..(Base - 1)) /\ end < Len(w)
      /\ end + 2 + SizeAt(w, at, end) < Len(w)
  BY DEF ChunkAt, LineEnd
<1>2. PICK a \in Nat, n \in Nat, L \in Nat : a = at - 1 /\ n = end - at /\ L = Len(w) /\ at = a + 1
                                /\ end - 1 = a + n /\ a + n <= L
  <2>1. at - 1 \in Nat /\ end - at \in Nat /\ Len(w) \in Nat /\ at = at - 1 + 1 /\ end - 1 = at - 1 + (end - at)
        /\ at - 1 + (end - at) <= Len(w)
    BY <1>1
  <2> QED BY <2>1
<1>3. PICK digits \in Seq(Int) : digits = SubSeq(w, at, end - 1) /\ Len(digits) = n
                            /\ digits = [i \in 1..n |-> w[a + i]]
  <2>1. a + n <= Len(w)
    BY <1>2
  <2>2. /\ SubSeq(w, a + 1, a + n) \in Seq(Int) /\ Len(SubSeq(w, a + 1, a + n)) = n
        /\ SubSeq(w, a + 1, a + n) = [i \in 1..n |-> w[a + i]]
    BY <2>1, Part
  <2> QED BY <1>2, <2>2
<1>4. digits \in Seq(Nat)
  <2>1. ASSUME NEW i \in 1..n PROVE digits[i] \in Nat
    <3>1. a + i \in at..(end - 1)
      BY <1>2
    <3>2. w[a + i] \in 0..(Base - 1)
      BY <1>1, <3>1
    <3>3. digits[i] = w[a + i]
      BY <1>3
    <3>4. \A x \in 0..(Base - 1) : x \in Nat
      BY RenderingAssumption
    <3> QED BY <3>2, <3>3, <3>4
  <2>2. [i \in 1..n |-> digits[i]] \in Seq(Nat)
    BY <2>1
  <2>3. digits = [i \in 1..n |-> digits[i]]
    BY <1>3
  <2> QED BY ONLY <2>2, <2>3
<1>5. SizeAt(w, at, end) \in Nat
  BY <1>3, <1>4, NumberType DEF SizeAt
<1>6. SubSeq(w, at, end - 1) = [i \in 1..(end - at) |-> w[at - 1 + i]]
  BY <1>2, <1>3
<1>7. end + SizeAt(w, at, end) + 3 <= Len(w)
  <2>1. PICK z \in Nat : z = SizeAt(w, at, end)
    BY <1>5
  <2> QED BY <1>1, <1>2, <2>1
<1>8. end \in at..Len(w)
  BY <1>1, <1>2
<1> QED BY <1>5, <1>6, <1>7, <1>8

Readings == [at : Nat \ {0}, data : Seq(Int), open : BOOLEAN]

(* What was read once is read the same when more has arrived. *)
LEMMA ReadAgain ==
  ASSUME NEW w \in Seq(Int), NEW t \in Seq(Int), NEW r \in Readings, NEW end \in Nat, ChunkAt(w, r.at, end)
  PROVE  ChunkAt(w \o t, r.at, end) /\ AfterChunk(w \o t, r, end) = AfterChunk(w, r, end)
<1>1. PICK at \in Nat \ {0}, z \in Nat : at = r.at /\ z = SizeAt(w, at, end) /\ end + z + 3 <= Len(w)
         /\ end \in at..Len(w) /\ SubSeq(w, at, end - 1) = [i \in 1..(end - at) |-> w[at - 1 + i]]
  <2>1. r.at \in Nat \ {0}
    BY DEF Readings
  <2> QED BY <2>1, ChunkSize
<1>2. at < end /\ (\A i \in at..(end - 1) : w[i] \in 0..(Base - 1)) /\ w[end] = CR /\ w[end + 1] = LF
      /\ w[end + 2 + z] = CR /\ w[end + 2 + z + 1] = LF
  BY <1>1 DEF ChunkAt, LineEnd
<1>3. PICK u \in Seq(Int), L \in Nat, M \in Nat : u = w \o t /\ L = Len(w) /\ M = Len(u) /\ L <= M
         /\ \A i \in 1..L : u[i] = w[i]
  <2>1. w \o t \in Seq(Int) /\ Len(w) \in Nat /\ Len(w \o t) \in Nat /\ Len(w) <= Len(w \o t)
    OBVIOUS
  <2>2. \A i \in 1..Len(w) : (w \o t)[i] = w[i]
    OBVIOUS
  <2> QED BY <2>1, <2>2
<1>4. end + z + 3 <= L /\ end <= L /\ at <= end
  BY <1>1, <1>3
<1>5. \A i \in at..(end - 1) : u[i] = w[i]
  BY <1>3, <1>4
<1>6. u[end] = CR /\ u[end + 1] = LF /\ u[end + 2 + z] = CR /\ u[end + 2 + z + 1] = LF
  BY <1>2, <1>3, <1>4
<1>7. SizeAt(u, at, end) = z
  <2>1. PICK a \in Nat, n \in Nat : at = a + 1 /\ end - 1 = a + n /\ n = end - at /\ a = at - 1 /\ a + n <= M
    <3>1. at - 1 \in Nat /\ end - at \in Nat /\ at = at - 1 + 1 /\ end - 1 = at - 1 + (end - at)
          /\ at - 1 + (end - at) <= M
      BY <1>3, <1>4
    <3> QED BY <3>1
  <2>2. SubSeq(u, a + 1, a + n) = [i \in 1..n |-> u[a + i]]
    <3>1. a + n <= Len(u)
      BY <1>3, <2>1
    <3> QED BY <2>1, <3>1, IntPart
  <2>3. \A i \in 1..n : u[a + i] = w[a + i]
    <3> SUFFICES ASSUME NEW i \in 1..n PROVE u[a + i] = w[a + i]
      OBVIOUS
    <3>1. a + i \in at..(end - 1)
      BY <2>1
    <3> QED BY <1>5, <3>1
  <2>4. SubSeq(w, at, end - 1) = [i \in 1..n |-> w[a + i]]
    BY <1>1, <2>1
  <2>5. SubSeq(u, at, end - 1) = SubSeq(w, at, end - 1)
    <3>1. [i \in 1..n |-> u[a + i]] = [i \in 1..n |-> w[a + i]]
      BY <2>3
    <3>2. SubSeq(u, at, end - 1) = SubSeq(u, a + 1, a + n)
      BY <2>1
    <3> QED BY <2>2, <2>4, <3>1, <3>2
  <2> QED BY <1>1, <2>5 DEF SizeAt
<1>8. ChunkAt(u, at, end)
  <2>1. end < M /\ end + 2 + z < M
    BY <1>3, <1>4
  <2> QED BY <1>2, <1>5, <1>6, <1>7, <1>3, <2>1 DEF ChunkAt, LineEnd
<1>9. SubSeq(u, end + 2, end + 1 + z) = SubSeq(w, end + 2, end + 1 + z)
  <2>1. PICK b \in Nat : b = end + 1
    OBVIOUS
  <2>2. b + z <= L /\ b + z <= M
    BY <1>3, <1>4, <2>1
  <2>3. SubSeq(u, b + 1, b + z) = [i \in 1..z |-> u[b + i]]
    <3>1. b + z <= Len(u)
      BY <1>3, <2>2
    <3> QED BY <3>1, IntPart
  <2>4. SubSeq(w, b + 1, b + z) = [i \in 1..z |-> w[b + i]]
    <3>1. b + z <= Len(w)
      BY <1>3, <2>2
    <3> QED BY <3>1, IntPart
  <2>5. \A i \in 1..z : u[b + i] = w[b + i]
    <3> SUFFICES ASSUME NEW i \in 1..z PROVE u[b + i] = w[b + i]
      OBVIOUS
    <3>1. b + i \in 1..L
      BY <2>2
    <3> QED BY <1>3, <3>1
  <2>6. b + 1 = end + 2
    BY <2>1
  <2> QED BY <2>1, <2>3, <2>4, <2>5, <2>6
<1>10. AfterChunk(u, r, end) = AfterChunk(w, r, end)
  BY <1>1, <1>7, <1>9 DEF AfterChunk
<1> QED BY <1>1, <1>3, <1>8, <1>10

(* A client reads the chunk that is there. *)
LEMMA NextChunkIs ==
  ASSUME NEW w \in Seq(Int), NEW r \in Readings, NEW end \in Nat, r.open, ChunkAt(w, r.at, end)
  PROVE  NextChunk(w, r) = AfterChunk(w, r, end)
<1>1. r.at \in Nat \ {0}
  BY DEF Readings
<1>2. end \in r.at..Len(w)
  BY <1>1, ChunkSize
<1>3. PICK ends : ends = {e \in r.at..Len(w) : r.open /\ ChunkAt(w, r.at, e)}
  OBVIOUS
<1>4. end \in ends
  BY <1>2, <1>3
<1>5. \A e \in ends : e = end
  <2> SUFFICES ASSUME NEW e \in ends PROVE e = end
    OBVIOUS
  <2>1. e \in Int /\ ChunkAt(w, r.at, e) /\ r.at \in Int /\ end \in Int
    BY <1>1, <1>3
  <2> QED BY <2>1, OneEnd
<1>6. (CHOOSE e \in ends : TRUE) = end
  BY <1>4, <1>5
<1> QED BY <1>3, <1>4, <1>6 DEF NextChunk

(* What has been read after a chunk, and after one more step. *)
LEMMA AfterChunkType ==
  ASSUME NEW w \in Seq(Int), NEW r \in Readings, NEW end \in Nat, ChunkAt(w, r.at, end)
  PROVE  AfterChunk(w, r, end) \in Readings
<1>1. PICK at \in Nat \ {0}, z \in Nat : at = r.at /\ z = SizeAt(w, at, end) /\ end + z + 3 <= Len(w)
  <2>1. r.at \in Nat \ {0}
    BY DEF Readings
  <2> QED BY <2>1, ChunkSize
<1>2. PICK b \in Nat : b = end + 1 /\ b + 1 = end + 2 /\ b + z = end + 1 + z /\ b + z <= Len(w)
  <2>1. end + 1 \in Nat /\ end + 1 + 1 = end + 2 /\ Len(w) \in Nat /\ end + 1 + z <= Len(w)
    BY <1>1
  <2> QED BY <2>1
<1>3. PICK d \in Seq(Int) : d = SubSeq(w, end + 2, end + 1 + z)
  BY <1>2, Part
<1>4. PICK x \in Seq(Int) : x = r.data
  BY DEF Readings
<1>5. x \o d \in Seq(Int) /\ end + z + 4 \in Nat \ {0} /\ (z # 0) \in BOOLEAN
  OBVIOUS
<1>6. AfterChunk(w, r, end) = [at |-> end + z + 4, data |-> x \o d, open |-> z # 0]
  BY <1>1, <1>3, <1>4 DEF AfterChunk
<1> QED BY <1>5, <1>6 DEF Readings

LEMMA NextChunkType ==
  ASSUME NEW w \in Seq(Int), NEW r \in Readings
  PROVE  NextChunk(w, r) \in Readings
<1>1. PICK ends : ends = {e \in r.at..Len(w) : r.open /\ ChunkAt(w, r.at, e)}
  OBVIOUS
<1>2. CASE ends = {}
  BY <1>1, <1>2 DEF NextChunk
<1>3. CASE ends # {}
  <2>1. PICK end \in ends : end = CHOOSE e \in ends : TRUE
    BY <1>3
  <2>2. r.at \in Nat \ {0} /\ Len(w) \in Nat
    BY DEF Readings
  <2>3. end \in Nat /\ ChunkAt(w, r.at, end)
    BY <1>1, <2>2
  <2>4. NextChunk(w, r) = AfterChunk(w, r, end)
    BY <1>1, <1>3, <2>1 DEF NextChunk
  <2> QED BY <2>3, <2>4, AfterChunkType
<1> QED BY <1>2, <1>3

(* What a client reads from a part of a body that ends with a chunk: one   *)
(* chunk after the other.                                                  *)
Reads(w, r, q) == r.open /\ \E end \in Nat : ChunkAt(w, r.at, end) /\ q = AfterChunk(w, r, end)
Transcript(w, s) ==
  /\ s \in Seq(Readings) /\ Len(s) \in 1..(Len(w) + 1) /\ s[1] = NothingRead
  /\ \A k \in 1..(Len(s) - 1) : Reads(w, s[k], s[k + 1])
ReadSoFar(w, r) == \E s : Transcript(w, s) /\ r = s[Len(s)]

(* Before the first chunk. *)
LEMMA NothingReadYet == ReadSoFar(<<>>, NothingRead)
<1>1. NothingRead \in Readings
  <2>1. <<>> \in Seq(Int) /\ 1 \in Nat \ {0} /\ TRUE \in BOOLEAN
    OBVIOUS
  <2> QED BY <2>1 DEF NothingRead, Readings
<1>2. PICK s \in Seq(Readings) : s = <<NothingRead>> /\ Len(s) = 1 /\ s[1] = NothingRead
  <2>1. PICK n \in Readings : n = NothingRead
    BY <1>1
  <2>2. <<n>> \in Seq(Readings) /\ Len(<<n>>) = 1 /\ <<n>>[1] = n
    OBVIOUS
  <2> QED BY <2>1, <2>2
<1>3. Len(<<>>) + 1 = 1 /\ 1 \in 1..1
  OBVIOUS
<1>4. \A k \in 1..(Len(s) - 1) : FALSE
  BY <1>2
<1>5. Transcript(<<>>, s)
  BY <1>2, <1>3, <1>4 DEF Transcript
<1> QED BY <1>2, <1>5 DEF ReadSoFar

(* Another chunk is read after those before it. *)
LEMMA ChunkRead ==
  ASSUME NEW w \in Seq(Int), NEW t, NEW data \in Seq(Nat), ChunkText(t, Digits[Len(data)], data),
         NEW x \in Seq(Int), NEW r, r = [at |-> Len(w) + 1, data |-> x, open |-> TRUE]
  PROVE  Reads(w \o t, r, [at |-> Len(w \o t) + 1, data |-> x \o data, open |-> data # <<>>])
<1>1. PICK n \in Nat, digits \in Seq(Nat), m \in Nat, L \in Nat :
        n = Len(data) /\ digits = Digits[n] /\ m = Len(digits) /\ L = Len(w) /\ m >= 1
  <2>1. Len(data) \in Nat /\ Len(w) \in Nat
    OBVIOUS
  <2>2. Len(Digits[Len(data)]) \in Nat \ {0}
    BY <2>1, DigitsReadBack DEF ReadBack
  <2>3. PICK m \in Nat : m = Len(Digits[Len(data)]) /\ m >= 1
    BY <2>2
  <2>4. PICK digits \in Seq(Nat) : digits = Digits[Len(data)]
    BY <2>1, DigitsDefined
  <2> QED BY <2>1, <2>3, <2>4
<1>2. digits \in Seq(0..(Base - 1)) /\ Number(digits) = n
  BY <1>1, DigitsReadBack DEF ReadBack
<1>3. /\ t \in Seq(Int) /\ Len(t) = m + n + 4
      /\ \A i \in 1..m : t[i] = digits[i]
      /\ t[m + 1] = CR /\ t[m + 2] = LF
      /\ \A i \in 1..n : t[m + 2 + i] = data[i]
      /\ t[m + n + 3] = CR /\ t[m + n + 4] = LF
  BY <1>1 DEF ChunkText
<1>4. PICK u \in Seq(Int) : u = w \o t /\ Len(u) = L + (m + n + 4)
                       /\ \A i \in 1..(m + n + 4) : u[L + i] = t[i]
  <2>0. t \in Seq(Int) /\ Len(t) = m + n + 4 /\ Len(w) = L
    BY <1>1, <1>3
  <2>1. w \o t \in Seq(Int) /\ Len(w \o t) = L + (m + n + 4)
    <3>1. PICK v \in Seq(Int) : v = t
      BY <2>0
    <3>2. w \o v \in Seq(Int) /\ Len(w \o v) = Len(w) + Len(v)
      OBVIOUS
    <3> QED BY <2>0, <3>1, <3>2
  <2>2. ASSUME NEW i \in 1..(m + n + 4) PROVE (w \o t)[L + i] = t[i]
    <3>1. L + i \in 1..(L + (m + n + 4)) /\ L + i > L /\ L + i - L = i
      OBVIOUS
    <3> QED BY <1>1, <1>3, <3>1
  <2> QED BY <2>1, <2>2
<1>5. PICK at \in Nat \ {0}, end \in Nat, M \in Nat :
        at = L + 1 /\ end = L + m + 1 /\ at < end /\ M = Len(u) /\ M = L + (m + n + 4)
  <2>1. L + 1 \in Nat \ {0} /\ L + m + 1 \in Nat /\ L + 1 < L + m + 1 /\ L + (m + n + 4) \in Nat
    BY <1>1
  <2> QED BY <1>4, <2>1
<1>6. SubSeq(u, at, end - 1) = digits
  <2>1. L + m <= Len(u)
    BY <1>5
  <2>2. SubSeq(u, L + 1, L + m) = [i \in 1..m |-> u[L + i]]
    BY <2>1, Part
  <2>3. \A i \in 1..m : u[L + i] = digits[i]
    <3> SUFFICES ASSUME NEW i \in 1..m PROVE u[L + i] = digits[i]
      OBVIOUS
    <3>1. i \in 1..(m + n + 4)
      OBVIOUS
    <3> QED BY <1>3, <1>4, <3>1
  <2>4. digits = [i \in 1..m |-> digits[i]]
    BY <1>1, <1>2
  <2>5. [i \in 1..m |-> u[L + i]] = [i \in 1..m |-> digits[i]]
    BY <2>3
  <2>6. at = L + 1 /\ end - 1 = L + m
    BY <1>5
  <2> QED BY <2>2, <2>4, <2>5, <2>6
<1>7. SizeAt(u, at, end) = n
  BY <1>2, <1>6 DEF SizeAt
<1>8. ASSUME NEW i \in at..(end - 1) PROVE u[i] \in 0..(Base - 1)
  <2>1. PICK j \in 1..m : i = L + j
    <3>1. i - L \in 1..m /\ i = L + (i - L)
      BY <1>5
    <3> QED BY <3>1
  <2>2. j \in 1..(m + n + 4) /\ j \in 1..Len(digits)
    BY <1>1
  <2>3. u[i] = digits[j]
    BY <1>3, <1>4, <2>1, <2>2
  <2>4. digits[j] \in 0..(Base - 1)
    BY <1>2, <2>2, ElementOfSeq
  <2> QED BY <2>3, <2>4
<1>9. /\ u[end] = CR /\ u[end + 1] = LF /\ u[end + 2 + n] = CR /\ u[end + 2 + n + 1] = LF
  <2>1. /\ end = L + (m + 1) /\ end + 1 = L + (m + 2) /\ end + 2 + n = L + (m + n + 3)
        /\ end + 2 + n + 1 = L + (m + n + 4)
        /\ m + 1 \in 1..(m + n + 4) /\ m + 2 \in 1..(m + n + 4) /\ m + n + 3 \in 1..(m + n + 4)
        /\ m + n + 4 \in 1..(m + n + 4)
    BY <1>5
  <2> QED BY <1>3, <1>4, <2>1
<1>10. ChunkAt(u, at, end)
  <2>1. end < M /\ end + 2 + n < M
    BY <1>5
  <2> QED BY <1>5, <1>7, <1>8, <1>9, <2>1 DEF ChunkAt, LineEnd
<1>11. SubSeq(u, end + 2, end + 1 + n) = data
  <2>1. PICK b \in Nat : b = L + (m + 2) /\ b + 1 = end + 2 /\ b + n = end + 1 + n /\ b + n <= Len(u)
    <3>1. L + (m + 2) \in Nat /\ L + (m + 2) + 1 = end + 2 /\ L + (m + 2) + n = end + 1 + n
          /\ L + (m + 2) + n <= Len(u)
      BY <1>5
    <3> QED BY <3>1
  <2>2. SubSeq(u, b + 1, b + n) = [i \in 1..n |-> u[b + i]]
    BY <2>1, Part
  <2>3. \A i \in 1..n : u[b + i] = data[i]
    <3> SUFFICES ASSUME NEW i \in 1..n PROVE u[b + i] = data[i]
      OBVIOUS
    <3>1. m + 2 + i \in 1..(m + n + 4) /\ b + i = L + (m + 2 + i)
      BY <2>1
    <3> QED BY <1>3, <1>4, <3>1
  <2>4. data = [i \in 1..n |-> data[i]]
    BY <1>1
  <2>5. [i \in 1..n |-> u[b + i]] = [i \in 1..n |-> data[i]]
    BY <2>3
  <2> QED BY <2>1, <2>2, <2>4, <2>5
<1>12. AfterChunk(u, r, end) = [at |-> end + n + 4, data |-> x \o data, open |-> n # 0]
  <2>1. r.at = at /\ r.data = x
    BY <1>1, <1>5
  <2> QED BY <1>7, <1>11, <2>1 DEF AfterChunk
<1>13. end + n + 4 = Len(u) + 1
  BY <1>5
<1>14. (n # 0) <=> (data # <<>>)
  BY <1>1
<1>15. AfterChunk(u, r, end) = [at |-> Len(u) + 1, data |-> x \o data, open |-> data # <<>>]
  BY <1>12, <1>13, <1>14
<1>16. r.open /\ r.at = at
  BY <1>1, <1>5
<1> QED BY <1>4, <1>10, <1>15, <1>16 DEF Reads

(* The reading of a body goes on with the chunk that is sent next. *)
LEMMA ReadMore ==
  ASSUME NEW w \in Seq(Int), NEW t, NEW data \in Seq(Nat), ChunkText(t, Digits[Len(data)], data),
         NEW x \in Seq(Int), ReadSoFar(w, [at |-> Len(w) + 1, data |-> x, open |-> TRUE])
  PROVE  ReadSoFar(w \o t, [at |-> Len(w \o t) + 1, data |-> x \o data, open |-> data # <<>>])
<1>1. PICK r, q : /\ r = [at |-> Len(w) + 1, data |-> x, open |-> TRUE]
                  /\ q = [at |-> Len(w \o t) + 1, data |-> x \o data, open |-> data # <<>>]
  OBVIOUS
<1>2. PICK s : Transcript(w, s) /\ r = s[Len(s)]
  BY <1>1 DEF ReadSoFar
<1>3. PICK k \in Nat, L \in Nat : k = Len(s) /\ k >= 1 /\ L = Len(w) /\ k <= L + 1 /\ s \in Seq(Readings)
  <2>1. Len(s) \in 1..(Len(w) + 1) /\ Len(w) \in Nat /\ s \in Seq(Readings)
    BY <1>2 DEF Transcript
  <2> QED BY <2>1
<1>4. PICK u \in Seq(Int), M \in Nat : u = w \o t /\ M = Len(u) /\ M >= L + 1 /\ t \in Seq(Int)
  <2>1. t \in Seq(Int) /\ Len(t) = Len(Digits[Len(data)]) + Len(data) + 4
    BY DEF ChunkText
  <2>a. Len(w) \in Nat
    OBVIOUS
  <2>2. Len(data) \in Nat
    OBVIOUS
  <2>3. Len(Digits[Len(data)]) \in Nat
    BY <2>2, DigitsReadBack DEF ReadBack
  <2>4. w \o t \in Seq(Int) /\ Len(w \o t) = Len(w) + Len(t)
    <3>1. t \in Seq(Int)
      BY <2>1
    <3> QED BY <3>1
  <2>5. Len(w \o t) \in Nat /\ Len(w \o t) >= L + 1
    BY <1>3, <2>1, <2>2, <2>3, <2>4
  <2> QED BY <2>1, <2>4, <2>5
<1>5. Reads(u, r, q)
  BY <1>1, <1>4, ChunkRead
<1>6. q \in Readings
  <2>1. x \o data \in Seq(Int)
    <3>1. data \in Seq(Int)
      BY SeqOfMore
    <3> QED BY <3>1
  <2>2. M + 1 \in Nat \ {0} /\ (data # <<>>) \in BOOLEAN
    OBVIOUS
  <2> QED BY <1>1, <1>4, <2>1, <2>2 DEF Readings
<1>7. PICK z \in Seq(Readings) : z = Append(s, q) /\ Len(z) = k + 1 /\ z[k + 1] = q
                            /\ \A i \in 1..k : z[i] = s[i]
  <2>1. Append(s, q) \in Seq(Readings) /\ Len(Append(s, q)) = k + 1 /\ Append(s, q)[k + 1] = q
    BY <1>3, <1>6
  <2>2. \A i \in 1..k : Append(s, q)[i] = s[i]
    BY <1>3, <1>6
  <2> QED BY <2>1, <2>2
<1>8. ASSUME NEW i \in 1..k PROVE Reads(u, z[i], z[i + 1])
  <2>1. CASE i = k
    <3>1. z[i] = r /\ z[i + 1] = q
      BY <1>2, <1>3, <1>7, <2>1
    <3> QED BY <1>5, <3>1
  <2>2. CASE i # k
    <3>1. i \in 1..(Len(s) - 1) /\ i + 1 \in 1..k /\ i \in 1..Len(s)
      BY <1>3, <2>2
    <3>2. Reads(w, s[i], s[i + 1])
      BY <1>2, <3>1 DEF Transcript
    <3>3. s[i] \in Readings
      BY <1>3, <3>1, ElementOfSeq
    <3>4. PICK end \in Nat : s[i].open /\ ChunkAt(w, s[i].at, end) /\ s[i + 1] = AfterChunk(w, s[i], end)
      BY <3>2 DEF Reads
    <3>5. ChunkAt(u, s[i].at, end) /\ AfterChunk(u, s[i], end) = AfterChunk(w, s[i], end)
      BY <1>4, <3>3, <3>4, ReadAgain
    <3>6. Reads(u, s[i], s[i + 1])
      BY <3>4, <3>5 DEF Reads
    <3> QED BY <1>7, <3>1, <3>6
  <2> QED BY <2>1, <2>2
<1>9. Transcript(u, z)
  <2>1. Len(z) \in 1..(Len(u) + 1) /\ Len(z) - 1 = k
    BY <1>3, <1>4, <1>7
  <2>2. z[1] = NothingRead
    <3>1. 1 \in 1..k /\ s[1] = NothingRead
      BY <1>2, <1>3 DEF Transcript
    <3> QED BY <1>7, <3>1
  <2> QED BY <1>7, <1>8, <2>1, <2>2 DEF Transcript
<1>10. ReadSoFar(u, q)
  BY <1>7, <1>9 DEF ReadSoFar
<1> QED BY <1>1, <1>4, <1>10

(* What was read to the last chunk is what the body decodes to. *)
LEMMA DechunkIs ==
  ASSUME NEW w \in Seq(Int), NEW r, ReadSoFar(w, r), ~r.open
  PROVE  Dechunk(w) = r
<1>1. PICK s : Transcript(w, s) /\ r = s[Len(s)]
  BY DEF ReadSoFar
<1>2. PICK k \in Nat, L \in Nat : k = Len(s) /\ k >= 1 /\ L = Len(w) /\ k <= L + 1 /\ s \in Seq(Readings)
  <2>1. Len(s) \in 1..(Len(w) + 1) /\ Len(w) \in Nat /\ s \in Seq(Readings)
    BY <1>1 DEF Transcript
  <2> QED BY <2>1
<1>3. NothingRead \in Readings
  <2>1. 1 \in 1..Len(s) /\ s[1] = NothingRead
    BY <1>1, <1>2 DEF Transcript
  <2> QED BY <1>2, <2>1, ElementOfSeq
<1>4. PICK next : next = [q \in Readings |-> NextChunk(w, q)]
  OBVIOUS
<1>5. next \in [Readings -> Readings]
  BY <1>4, NextChunkType
<1>6. PICK f \in [Nat -> Readings] : Repeats(f, NothingRead, next)
  BY <1>3, <1>5, Repeat
<1>7. f = [n \in Nat |-> IF n = 0 THEN NothingRead ELSE NextChunk(w, f[n - 1])]
  <2>1. ASSUME NEW n \in Nat PROVE f[n] = IF n = 0 THEN NothingRead ELSE NextChunk(w, f[n - 1])
    <3>1. CASE n = 0
      BY <1>6, <3>1 DEF Repeats
    <3>2. CASE n # 0
      <4>1. n - 1 \in Nat /\ n - 1 + 1 = n
        BY <3>2
      <4>2. f[n - 1 + 1] = next[f[n - 1]]
        BY <1>6, <4>1 DEF Repeats
      <4>3. next[f[n - 1]] = NextChunk(w, f[n - 1])
        BY <1>4, <4>1
      <4> QED BY <3>2, <4>1, <4>2, <4>3
    <3> QED BY <3>1, <3>2
  <2> QED BY <2>1
<1>8. PICK g : /\ g = [n \in Nat |-> IF n = 0 THEN NothingRead ELSE NextChunk(w, g[n - 1])]
               /\ Dechunk(w) = g[Len(w)]
  <2>1. \E g : g = [n \in Nat |-> IF n = 0 THEN NothingRead ELSE NextChunk(w, g[n - 1])]
    BY <1>7
  <2> QED BY <2>1, Zenon DEF Dechunk
<1>9. \A n \in Nat : g[n] = IF n = 0 THEN NothingRead ELSE NextChunk(w, g[n - 1])
  BY <1>8
<1> DEFINE T == {n \in Nat : g[n] = IF n < k THEN s[n + 1] ELSE r}
<1>10. 0 \in T
  <2>1. g[0] = NothingRead
    BY <1>9
  <2>2. s[0 + 1] = NothingRead /\ 0 < k
    BY <1>1, <1>2 DEF Transcript
  <2> QED BY <2>1, <2>2
<1>11. ASSUME NEW n \in Nat, n \in T PROVE n + 1 \in T
  <2>1. g[n + 1] = NextChunk(w, g[n])
    <3>1. n + 1 \in Nat /\ n + 1 # 0 /\ n + 1 - 1 = n
      OBVIOUS
    <3> QED BY <1>9, <3>1
  <2>2. CASE n + 1 < k
    <3>1. n + 1 \in 1..(Len(s) - 1) /\ n + 1 \in 1..Len(s) /\ n < k
      BY <1>2, <2>2
    <3>2. PICK a, b : a = s[n + 1] /\ b = s[n + 1 + 1]
      OBVIOUS
    <3>3. Reads(w, a, b)
      BY <1>1, <3>1, <3>2 DEF Transcript
    <3>4. a \in Readings
      BY <1>2, <3>1, <3>2, ElementOfSeq
    <3>5. NextChunk(w, a) = b
      BY <3>3, <3>4, NextChunkIs DEF Reads
    <3>6. g[n] = a
      BY <1>11, <3>1, <3>2
    <3> QED BY <2>1, <2>2, <3>2, <3>5, <3>6
  <2>3. CASE ~(n + 1 < k)
    <3>1. g[n] = r
      <4>1. CASE n < k
        <5>1. n + 1 = k
          BY <1>2, <2>3, <4>1
        <5> QED BY <1>1, <1>2, <1>11, <4>1, <5>1
      <4>2. CASE ~(n < k)
        BY <1>11, <4>2
      <4> QED BY <4>1, <4>2
    <3>2. NextChunk(w, r) = r
      <4>1. {end \in r.at..Len(w) : r.open /\ ChunkAt(w, r.at, end)} = {}
        OBVIOUS
      <4> QED BY <4>1 DEF NextChunk
    <3> QED BY <2>1, <2>3, <3>1, <3>2
  <2> QED BY <2>2, <2>3
<1>12. \A n \in Nat : n \in T
  <2> HIDE DEF T
  <2> QED BY <1>10, <1>11, Induction
<1>13. g[L] = r
  <2>1. g[L] = IF L < k THEN s[L + 1] ELSE r
    BY <1>12
  <2>2. L < k => L + 1 = k
    BY <1>2
  <2> QED BY <1>1, <1>2, <2>1, <2>2
<1> QED BY <1>2, <1>8, <1>13

(* The stream and libjpeg's buffer hold the first n bytes, in order.       *)
Flows == [buf : Seq(Nat), out : B!StreamsOver(Nat)]
Counted(s, from) == \A i \in 1..Len(s) : s[i] = from + i
HoldsBytes(d, n) ==
  /\ d \in Flows /\ d.out.offset = Len(d.out.data)
  /\ Len(d.out.data) + Len(d.buf) = n
  /\ Counted(d.out.data, 0) /\ Counted(d.buf, Len(d.out.data))

(* What is appended at the end of a stream. *)
LEMMA StreamWritten ==
  ASSUME NEW n \in Nat, NEW d, HoldsBytes(d, n)
  PROVE  /\ HoldsBytes([buf |-> <<>>, out |-> B!Write(d.out, d.buf)], n)
         /\ B!Write(d.out, d.buf) \in B!StreamsOver(Nat)
<1>1. PICK s \in Seq(Nat), b \in Seq(Nat) : s = d.out.data /\ b = d.buf
  BY DEF HoldsBytes, Flows, B!StreamsOver
<1>2. PICK m \in Nat, k \in Nat : m = Len(s) /\ k = Len(b)
  OBVIOUS
<1>3. m + k = n /\ d.out.offset = m /\ Counted(s, 0) /\ Counted(b, m)
  BY <1>1, <1>2 DEF HoldsBytes
<1>4. (\A i \in 1..m : s[i] = i) /\ \A i \in 1..k : b[i] = m + i
  BY <1>2, <1>3 DEF Counted
<1>5. PICK t \in Seq(Nat) : t = s \o b /\ Len(t) = n /\ Counted(t, 0)
  <2>1. s \o b \in Seq(Nat) /\ Len(s \o b) = m + k
    BY <1>2
  <2>2. ASSUME NEW i \in 1..(m + k) PROVE (s \o b)[i] = 0 + i
    <3>1. (s \o b)[i] = IF i <= m THEN s[i] ELSE b[i - m]
      BY <1>2
    <3>2. i <= m => i \in 1..m
      OBVIOUS
    <3>3. ~(i <= m) => i - m \in 1..k /\ m + (i - m) = i
      OBVIOUS
    <3> QED BY <1>4, <3>1, <3>2, <3>3
  <2>3. Counted(s \o b, 0)
    BY <2>1, <2>2 DEF Counted
  <2>4. Len(s \o b) = n
    BY <1>3, <2>1
  <2> QED BY <2>1, <2>3, <2>4
<1>6. B!Write(d.out, d.buf) = [data |-> t, offset |-> n]
  <2>1. B!AtEnd(d.out) /\ B!Size(d.out) = m
    BY <1>1, <1>2, <1>3 DEF B!AtEnd, B!Size
  <2>2. B!Write(d.out, d.buf) = [data |-> s \o b, offset |-> m + k]
    BY <1>1, <1>2, <2>1 DEF B!Write
  <2> QED BY <1>3, <1>5, <2>2
<1>7. PICK e : e = [buf |-> <<>>, out |-> [data |-> t, offset |-> n]]
  OBVIOUS
<1>8. e.out.data = t /\ e.out.offset = n /\ e.buf = <<>> /\ Len(<<>>) = 0 /\ <<>> \in Seq(Nat)
  BY <1>7
<1>9. e \in Flows
  BY <1>7, <1>8 DEF Flows, B!StreamsOver
<1>10. HoldsBytes(e, n)
  <2>1. Counted(e.buf, n) /\ n + 0 = n
    BY <1>8 DEF Counted
  <2> QED BY <1>5, <1>8, <1>9, <2>1 DEF HoldsBytes
<1> QED BY <1>6, <1>7, <1>10 DEF B!StreamsOver

(* The next byte follows what is held, and the manager may empty itself. *)
LEMMA ByteEmitted ==
  ASSUME NEW n \in Nat, NEW d, HoldsBytes(d, n)
  PROVE  HoldsBytes(EmitByte(d, n + 1), n + 1)
<1>1. PICK s \in Seq(Nat), b \in Seq(Nat), stream \in B!StreamsOver(Nat) :
        s = d.out.data /\ b = d.buf /\ stream = d.out /\ s = stream.data /\ d = [buf |-> b, out |-> stream]
  BY DEF HoldsBytes, Flows, B!StreamsOver
<1>2. PICK m \in Nat, k \in Nat : m = Len(s) /\ k = Len(b)
  OBVIOUS
<1>3. m + k = n /\ stream.offset = m /\ Counted(s, 0) /\ Counted(b, m)
  BY <1>1, <1>2 DEF HoldsBytes
<1>4. \A i \in 1..k : b[i] = m + i
  BY <1>2, <1>3 DEF Counted
<1>5. m + (k + 1) = n + 1
  BY <1>3
<1>6. PICK full \in Seq(Nat) : full = Append(b, n + 1) /\ Len(full) = k + 1 /\ Counted(full, m)
  <2>1. PICK full \in Seq(Nat) : full = Append(b, n + 1) /\ Len(full) = k + 1 /\ full[k + 1] = n + 1
                             /\ \A i \in 1..k : full[i] = b[i]
    <3>1. Append(b, n + 1) \in Seq(Nat) /\ Len(Append(b, n + 1)) = k + 1 /\ Append(b, n + 1)[k + 1] = n + 1
      BY <1>2
    <3>2. \A i \in 1..k : Append(b, n + 1)[i] = b[i]
      BY <1>2
    <3> QED BY <3>1, <3>2
  <2>2. ASSUME NEW i \in 1..(k + 1) PROVE full[i] = m + i
    <3>1. CASE i = k + 1
      BY <1>5, <2>1, <3>1
    <3>2. CASE i # k + 1
      <4>1. i \in 1..k
        BY <3>2
      <4> QED BY <1>4, <2>1, <4>1
    <3> QED BY <3>1, <3>2
  <2>3. Counted(full, m)
    BY <2>1, <2>2 DEF Counted
  <2> QED BY <2>1, <2>3
<1>7. PICK e : e = [buf |-> full, out |-> stream]
  OBVIOUS
<1>8. e.out = stream /\ e.buf = full /\ e \in Flows
  BY <1>6, <1>7 DEF Flows
<1>9. HoldsBytes(e, n + 1)
  BY <1>1, <1>2, <1>3, <1>5, <1>6, <1>8 DEF HoldsBytes
<1>10. CASE k + 1 = DestSize
  <2>1. EmitByte(d, n + 1) = [buf |-> <<>>, out |-> B!Write(stream, full)]
    BY <1>1, <1>6, <1>10 DEF EmitByte
  <2>2. HoldsBytes([buf |-> <<>>, out |-> B!Write(e.out, e.buf)], n + 1)
    BY <1>9, StreamWritten
  <2> QED BY <1>8, <2>1, <2>2
<1>11. CASE k + 1 # DestSize
  <2>1. EmitByte(d, n + 1) = [d EXCEPT !.buf = full]
    BY <1>1, <1>6, <1>11 DEF EmitByte
  <2>2. [d EXCEPT !.buf = full] = e
    BY <1>1, <1>7
  <2> QED BY <1>9, <2>1, <2>2
<1> QED BY <1>10, <1>11

LEMMA EmitByteType ==
  ASSUME NEW d \in Flows, NEW byte \in Nat
  PROVE  EmitByte(d, byte) \in Flows
<1>1. PICK s \in Seq(Nat), b \in Seq(Nat), o \in Nat, stream \in B!StreamsOver(Nat) :
        /\ stream = d.out /\ s = stream.data /\ b = d.buf /\ o = stream.offset
        /\ d = [buf |-> b, out |-> stream] /\ stream = [data |-> s, offset |-> o]
  BY DEF Flows, B!StreamsOver
<1>2. PICK full \in Seq(Nat) : full = Append(b, byte)
  <2>1. Append(b, byte) \in Seq(Nat)
    OBVIOUS
  <2> QED BY <2>1
<1>3. B!Write(stream, full) \in B!StreamsOver(Nat)
  <2>1. s \o full \in Seq(Nat) /\ Len(s) + Len(full) \in Nat
    OBVIOUS
  <2> QED BY <1>1, <2>1 DEF B!Write, B!AtEnd, B!Size, B!StreamsOver
<1>4. CASE Len(full) = DestSize
  <2>1. EmitByte(d, byte) = [buf |-> <<>>, out |-> B!Write(stream, full)]
    BY <1>1, <1>2, <1>4 DEF EmitByte
  <2>2. <<>> \in Seq(Nat)
    OBVIOUS
  <2> QED BY <1>3, <2>1, <2>2 DEF Flows
<1>5. CASE Len(full) # DestSize
  <2>1. EmitByte(d, byte) = [d EXCEPT !.buf = full]
    BY <1>1, <1>2, <1>5 DEF EmitByte
  <2> QED BY <1>1, <2>1 DEF Flows
<1> QED BY <1>4, <1>5

(* A burst of libjpeg's output follows what is held. *)
LEMMA BytesEmitted ==
  ASSUME NEW n \in Nat, n = cinfo.bytes, NEW d, HoldsBytes(d, n), NEW burst \in Nat
  PROVE  HoldsBytes(Emitted(d, burst), n + burst)
<1>1. d \in Flows
  BY DEF HoldsBytes
<1>2. PICK step : step = [x \in Nat \X Flows |-> EmitByte(x[2], n + x[1])]
  OBVIOUS
<1>3. step \in [Nat \X Flows -> Flows]
  <2>1. ASSUME NEW x \in Nat \X Flows PROVE step[x] \in Flows
    <3>1. x[2] \in Flows /\ n + x[1] \in Nat
      OBVIOUS
    <3>2. EmitByte(x[2], n + x[1]) \in Flows
      BY <3>1, EmitByteType
    <3> QED BY <1>2, <3>2
  <2> QED BY <1>2, <2>1
<1>4. PICK f \in [Nat -> Flows] : Loops(f, d, step)
  BY <1>1, <1>3, Loop
<1>5. f = [k \in Nat |-> IF k = 0 THEN d ELSE EmitByte(f[k - 1], cinfo.bytes + k)]
  <2>1. ASSUME NEW k \in Nat PROVE f[k] = IF k = 0 THEN d ELSE EmitByte(f[k - 1], cinfo.bytes + k)
    <3>1. f[k] = IF k = 0 THEN d ELSE step[<<k, f[k - 1]>>]
      BY <1>4 DEF Loops
    <3>2. k # 0 => step[<<k, f[k - 1]>>] = EmitByte(f[k - 1], n + k)
      <4> SUFFICES ASSUME k # 0 PROVE step[<<k, f[k - 1]>>] = EmitByte(f[k - 1], n + k)
        OBVIOUS
      <4>1. k - 1 \in Nat
        OBVIOUS
      <4>2. <<k, f[k - 1]>> \in Nat \X Flows
        BY <4>1
      <4> QED BY <1>2, <4>2
    <3> QED BY <3>1, <3>2
  <2> QED BY <2>1
<1>6. PICK g : /\ g = [k \in Nat |-> IF k = 0 THEN d ELSE EmitByte(g[k - 1], cinfo.bytes + k)]
               /\ Emitted(d, burst) = g[burst]
  <2>1. \E g : g = [k \in Nat |-> IF k = 0 THEN d ELSE EmitByte(g[k - 1], cinfo.bytes + k)]
    BY <1>5
  <2> QED BY <2>1, Zenon DEF Emitted
<1>7. \A k \in Nat : g[k] = IF k = 0 THEN d ELSE EmitByte(g[k - 1], n + k)
  BY <1>6
<1> DEFINE T == {k \in Nat : HoldsBytes(g[k], n + k)}
<1>8. 0 \in T
  <2>1. g[0] = d /\ n + 0 = n
    BY <1>7
  <2> QED BY <2>1
<1>9. ASSUME NEW k \in Nat, k \in T PROVE k + 1 \in T
  <2>1. k + 1 \in Nat /\ k + 1 # 0 /\ k + 1 - 1 = k /\ n + (k + 1) = n + k + 1 /\ n + k \in Nat
    OBVIOUS
  <2>2. g[k + 1] = EmitByte(g[k], n + k + 1)
    BY <1>7, <2>1
  <2>3. HoldsBytes(EmitByte(g[k], n + k + 1), n + k + 1)
    BY <1>9, <2>1, ByteEmitted
  <2> QED BY <2>1, <2>2, <2>3
<1>10. \A k \in Nat : k \in T
  <2> HIDE DEF T
  <2> QED BY <1>8, <1>9, Induction
<1> QED BY <1>6, <1>10

-----------------------------------------------------------------------------
Sweeping == pc \in {"plugin", "paint"}
Responding == pc \in {"write", "sent", "closed"}
Pixel == Nat \cup {Junk}

RenderingType ==
  /\ order \in {"down", "up"} /\ swept \in Nat
  /\ device \in [height : Nat, components : {1, 3}, initialized : BOOLEAN,
                 write_scanline : BOOLEAN, flip : BOOLEAN]
  /\ scanline_buf \in [data : Seq(Pixel), size : Nat]
  /\ cinfo \in [components : Nat, height : Nat, rows : Seq(Seq(Pixel)), bytes : Nat]

(* A row painted with a value. *)
RowOf(components, v) == [i \in 1..components |-> v]

(* What libjpeg has been given is a part of the page, from the top. *)
RowsGiven ==
  /\ Len(cinfo.rows) <= cinfo.height
  /\ \A y \in 1..Len(cinfo.rows) : cinfo.rows[y] = RowOf(cinfo.components, y - 1)

(* Before the first row nothing has been done. *)
NotStarted ==
  Sweeping /\ ~device.initialized =>
    /\ pc = "plugin" /\ swept = 0
    /\ cinfo.rows = <<>> /\ scanline_buf = [data |-> <<>>, size |-> 0]

(* The parameters libjpeg was started with are the device's. *)
Started ==
  Sweeping /\ device.initialized =>
    /\ cinfo.components = device.components /\ cinfo.height = Height
    /\ swept <= Height
    /\ pc = "paint" => swept < Height
    /\ pc = "plugin" => swept >= 1

(* A page that is swept upwards is kept: the rows painted so far are where *)
(* they belong.                                                            *)
Kept ==
  Sweeping /\ device.initialized /\ device.flip =>
    /\ order = "up" /\ cinfo.rows = <<>>
    /\ Len(scanline_buf.data) = Height * device.components
    /\ \A y \in Nat, i \in 1..device.components :
         Height - swept <= y /\ y < Height => scanline_buf.data[y * device.components + i] = y

(* Of a page that is swept downwards all rows but the last one painted     *)
(* have been given to libjpeg, and that one is in memory.                  *)
Streamed ==
  Sweeping /\ device.initialized /\ ~device.flip =>
    /\ order = "down" \/ Height = 1
    /\ device.write_scanline
    /\ scanline_buf.size = device.components /\ Len(scanline_buf.data) = device.components
    /\ Len(cinfo.rows) = IF pc = "paint" THEN swept ELSE swept - 1
    /\ pc = "plugin" => \A i \in 1..device.components : scanline_buf.data[i] = swept - 1

PageInv == RenderingType /\ RowsGiven /\ NotStarted /\ Started /\ Kept /\ Streamed

(* A body is of a page that was rendered: only Render leaves bytes of a    *)
(* page that counts as rendered.                                           *)
BodyInv ==
  /\ wire # <<>> => status = 200
  /\ status # 0 => Responding
  /\ status = 200 => jexit = "Render" /\ cinfo.bytes > 0
  /\ Sweeping /\ ~device.initialized => out.data = <<>>
  /\ pc = "give up" => out.data = <<>>
  /\ pc = "rendered" /\ out.data # <<>> => jexit = "Render"

(* Render is what counts a page as rendered, and leaves no row out unless  *)
(* an error was ignored.                                                   *)
WholeInv ==
  (pc = "rendered" /\ jexit = "Render") \/ status = 200 => ignored \/ Len(cinfo.rows) = cinfo.height

(* The bytes that libjpeg has given out: while the page is being made they *)
(* are in the stream and the manager's buffer, and after Render all in the *)
(* stream.                                                                 *)
FlowInv ==
  /\ Sweeping \/ pc = "give up" => jexit # "Render"
  /\ Sweeping /\ ~device.initialized => cinfo.bytes = 0
  /\ Sweeping => HoldsBytes(Destination, cinfo.bytes)
  /\ pc = "rendered" /\ jexit = "Render" => HoldsBytes([buf |-> <<>>, out |-> out], cinfo.bytes)

(* A body that is being sent is read as the bytes that were taken from the *)
(* stream, and one that was sent to its end as all of them.                *)
FirstBytes(n) == [k \in 1..n |-> k]
SentInv ==
  /\ buffer \in [0..(BufferSize - 1) -> Int \cup {Junk}]
  /\ status = 200 => /\ out = [data |-> FirstBytes(cinfo.bytes), offset |-> out.offset]
                     /\ out.offset \in 0..cinfo.bytes
  /\ pc = "write" /\ status = 200 =>
       /\ wire \in Seq(Int)
       /\ ReadSoFar(wire, [at |-> Len(wire) + 1, data |-> FirstBytes(out.offset), open |-> TRUE])
  /\ pc = "sent" =>
       /\ status = 200
       /\ Dechunk(wire) = [at |-> Len(wire) + 1, data |-> FirstBytes(cinfo.bytes), open |-> FALSE]
-----------------------------------------------------------------------------
(* Where a row of a kept page is. *)
LEMMA RowPlaces ==
  ASSUME NEW c \in {1, 3}, NEW h \in Nat, NEW y \in Nat, NEW z \in Nat, NEW i \in 1..c, z < h
  PROVE  /\ y * c \in Nat /\ h * c \in Nat
         /\ z * c + i \in 1..(h * c)
         /\ z = y => z * c + i - y * c = i
         /\ z > y => z * c + i - y * c > c
<1>1. CASE c = 1
  BY <1>1
<1>2. CASE c = 3
  BY <1>2
<1> QED
  BY <1>1, <1>2

(* Steps after which the plugin is not sweeping, and that leave the pages. *)
LEMMA PageLeft ==
  ASSUME PageInv, ~Sweeping', UNCHANGED <<order, swept, device, scanline_buf, cinfo>>
  PROVE  PageInv'
  BY DEF PageInv, RenderingType, RowsGiven, NotStarted, Started, Kept, Streamed

(* A row painted into a page that is kept. *)
LEMMA PaintKept ==
  ASSUME PageInv, Paint, device.flip, device.initialized
  PROVE  Kept'
<1>1. PICK c \in {1, 3}, h \in Nat, z \in Nat : c = device.components /\ h = Height /\ z = NextRow
  <2>1. device.components \in {1, 3} /\ Height \in Nat /\ swept < Height /\ swept \in Nat /\ order = "up"
    BY DEF PageInv, RenderingType, Started, Kept, Paint, Sweeping
  <2>2. NextRow \in Nat
    BY <2>1 DEF NextRow
  <2> QED
    BY <2>1, <2>2
<1>2. /\ order = "up" /\ z = h - 1 - swept /\ swept \in Nat /\ swept < h /\ cinfo.rows = <<>>
      /\ Len(scanline_buf.data) = h * c
      /\ \A y \in Nat, i \in 1..c : h - swept <= y /\ y < h => scanline_buf.data[y * c + i] = y
  BY <1>1 DEF PageInv, RenderingType, Started, Kept, Paint, Sweeping, NextRow
<1>3. PICK old : old = scanline_buf.data
  OBVIOUS
<1>4. PICK new : new = [i \in 1..(h * c) |-> IF i - z * c \in 1..c THEN z ELSE old[i]]
  OBVIOUS
<1>5. /\ scanline_buf' = [scanline_buf EXCEPT !.data = new]
      /\ swept' = swept + 1 /\ UNCHANGED <<order, device, cinfo>>
  BY <1>1, <1>2, <1>3, <1>4 DEF Paint
<1>6. scanline_buf'.data = new
  BY <1>5 DEF PageInv, RenderingType
<1>7. Len(new) = h * c
  <2>1. h * c \in Nat
    BY <1>1
  <2> QED
    BY <1>4, <2>1
<1>8. ASSUME NEW y \in Nat, NEW i \in 1..c, h - (swept + 1) <= y, y < h
      PROVE  new[y * c + i] = y
  <2>1. y * c + i \in 1..(h * c) /\ (y = z => y * c + i - z * c = i) /\ (y > z => y * c + i - z * c > c)
    BY <1>8, RowPlaces
  <2>2. y = z \/ (y > z /\ h - swept <= y)
    BY <1>1, <1>2, <1>8
  <2>3. CASE y = z
    BY <1>4, <2>1, <2>3
  <2>4. CASE y > z /\ h - swept <= y
    <3>1. y * c + i - z * c \notin 1..c
      BY <1>1, <2>1, <2>4
    <3>2. new[y * c + i] = old[y * c + i]
      BY <1>4, <2>1, <3>1
    <3> QED
      BY <1>2, <1>3, <1>8, <2>4, <3>2
  <2> QED
    BY <2>2, <2>3, <2>4
<1> QED
  BY <1>1, <1>2, <1>5, <1>6, <1>7, <1>8 DEF Kept, Height

(* A row painted over the one before it. *)
LEMMA PaintStreamed ==
  ASSUME PageInv, Paint, ~device.flip, device.initialized
  PROVE  Streamed'
<1>1. PICK c \in {1, 3} : c = device.components
  BY DEF PageInv, RenderingType
<1>2. /\ swept \in Nat /\ swept < Height /\ Height \in Nat /\ NextRow = swept
      /\ order = "down" \/ Height = 1
    <2>1. swept \in Nat /\ Height \in Nat /\ order \in {"down", "up"}
      BY DEF PageInv, RenderingType, Height
    <2>2. swept < Height /\ (order = "down" \/ Height = 1)
      BY DEF PageInv, Started, Streamed, Paint, Sweeping
    <2> QED
      BY <2>1, <2>2 DEF NextRow
<1>3. /\ device.write_scanline
      /\ scanline_buf.size = c /\ Len(scanline_buf.data) = c
      /\ Len(cinfo.rows) = swept
  BY <1>1 DEF PageInv, Streamed, Paint, Sweeping
<1>4. PICK old : old = scanline_buf.data
  OBVIOUS
<1>5. PICK new : new = [i \in 1..c |-> IF i - 0 \in 1..c THEN swept ELSE old[i]]
  OBVIOUS
<1>6. /\ scanline_buf' = [scanline_buf EXCEPT !.data = new]
      /\ swept' = swept + 1 /\ UNCHANGED <<order, device, cinfo>> /\ pc' = "plugin"
  BY <1>1, <1>2, <1>3, <1>4, <1>5 DEF Paint
<1>7. scanline_buf'.data = new /\ scanline_buf'.size = c
  BY <1>3, <1>6 DEF PageInv, RenderingType
<1>8. Len(new) = c /\ \A i \in 1..c : new[i] = swept
  <2>1. c \in Nat
    OBVIOUS
  <2> QED
    BY <1>5, <2>1
<1>9. Len(cinfo'.rows) = swept' - 1 /\ \A i \in 1..c : new[i] = swept' - 1
  BY <1>2, <1>3, <1>6, <1>8
<1> QED
  BY <1>1, <1>2, <1>3, <1>6, <1>7, <1>8, <1>9 DEF Streamed, Height

LEMMA PaintType ==
  ASSUME PageInv, Paint
  PROVE  RenderingType' /\ RowsGiven' /\ NotStarted' /\ Started' /\ device.initialized
<1>1. /\ device.initialized /\ swept \in Nat /\ Height \in Nat /\ swept < Height
      /\ order \in {"down", "up"} /\ scanline_buf.data \in Seq(Pixel)
  BY DEF PageInv, RenderingType, NotStarted, Started, Paint, Sweeping, Height
<1>2. NextRow \in Pixel
  BY <1>1 DEF NextRow, Pixel
<1>3. PICK offset : offset = IF device.flip THEN NextRow * device.components ELSE 0
  OBVIOUS
<1>4. PICK new : new = [i \in 1..Len(scanline_buf.data) |->
                          IF i - offset \in 1..device.components THEN NextRow ELSE scanline_buf.data[i]]
  OBVIOUS
<1>5. new \in Seq(Pixel)
  <2>1. PICK n \in Nat : n = Len(scanline_buf.data)
    BY <1>1
  <2>2. \A i \in 1..n : scanline_buf.data[i] \in Pixel
    BY <1>1, <2>1
  <2>3. new \in [1..n -> Pixel]
    BY <1>2, <1>4, <2>1, <2>2
  <2> QED
    BY <2>3
<1>6. /\ scanline_buf' = [scanline_buf EXCEPT !.data = new] /\ swept' = swept + 1
      /\ pc' = "plugin" /\ UNCHANGED <<order, device, cinfo>>
  BY <1>3, <1>4 DEF Paint
<1>7. RenderingType'
  <2>1. scanline_buf' \in [data : Seq(Pixel), size : Nat]
    <3> HIDE DEF Pixel
    <3> QED
      BY <1>5, <1>6 DEF PageInv, RenderingType
  <2>2. swept' \in Nat
    BY <1>1, <1>6
  <2> QED
    BY <1>6, <2>1, <2>2 DEF PageInv, RenderingType
<1>8. RowsGiven'
  BY <1>6 DEF PageInv, RowsGiven
<1>9. Started' /\ NotStarted'
  BY <1>1, <1>6 DEF PageInv, Started, NotStarted, Sweeping, Paint, Height
<1> QED
  BY <1>1, <1>7, <1>8, <1>9

LEMMA PaintPage == ASSUME PageInv, Paint PROVE PageInv'
<1>1. RenderingType' /\ RowsGiven' /\ NotStarted' /\ Started' /\ device.initialized /\ UNCHANGED device
  BY PaintType DEF Paint
<1>2. CASE device.flip
  BY <1>1, <1>2, PaintKept DEF PageInv, Streamed
<1>3. CASE ~device.flip
  BY <1>1, <1>3, PaintStreamed DEF PageInv, Kept
<1> QED
  BY <1>2, <1>3

(* The plugin has not begun: format and size. *)
LEMMA ChoosePage ==
  ASSUME PageInv, (\E c \in {1, 3} : Pixfmt(c)) \/ \E h \in Heights : SetViewport(h)
  PROVE  PageInv'
<1>1. pc = "plugin" /\ swept = 0 /\ ~device.initialized
  BY DEF PageInv, Pixfmt, SetViewport, Started, Sweeping
<1>2. /\ device' \in [height : Nat, components : {1, 3}, initialized : BOOLEAN,
                      write_scanline : BOOLEAN, flip : BOOLEAN]
      /\ ~device'.initialized
  <2>1. ASSUME NEW c \in {1, 3}, Pixfmt(c)
        PROVE  /\ device' \in [height : Nat, components : {1, 3}, initialized : BOOLEAN,
                      write_scanline : BOOLEAN, flip : BOOLEAN]
               /\ ~device'.initialized
    BY <1>1, <2>1 DEF PageInv, RenderingType, Pixfmt
  <2>2. ASSUME NEW h \in Heights, SetViewport(h)
        PROVE  /\ device' \in [height : Nat, components : {1, 3}, initialized : BOOLEAN,
                      write_scanline : BOOLEAN, flip : BOOLEAN]
               /\ ~device'.initialized
    <3>1. h \in Nat
      BY RenderingAssumption
    <3> QED
      BY <1>1, <2>2, <3>1 DEF PageInv, RenderingType, SetViewport
  <2> QED
    BY <2>1, <2>2
<1>3. UNCHANGED <<pc, order, swept, scanline_buf, cinfo>>
  BY DEF Pixfmt, SetViewport
<1>4. RenderingType' /\ RowsGiven'
  BY <1>2, <1>3 DEF PageInv, RenderingType, RowsGiven
<1>5. NotStarted' /\ Started' /\ Kept' /\ Streamed'
  BY <1>1, <1>2, <1>3 DEF PageInv, NotStarted, Started, Kept, Streamed, Sweeping
<1> QED
  BY <1>4, <1>5 DEF PageInv

(* The first row: libjpeg is started, and there is memory for the page, or *)
(* for a row.                                                              *)
LEMMA FirstPage ==
  ASSUME PageInv, NEW burst \in 0..MaxBurst, SweepFirst(burst)
  PROVE  PageInv'
<1>1. /\ ~device.initialized /\ pc = "plugin" /\ swept = 0 /\ scanline_buf = [data |-> <<>>, size |-> 0]
  BY DEF SweepFirst, StartCompress, PageInv, NotStarted, Sweeping
<1>2. PICK c \in {1, 3}, h \in Nat \ {0} : c = device.components /\ h = Height
  BY DEF SweepFirst, StartCompress, PageInv, RenderingType, Height
<1>3. PICK z \in Nat : z = NextRow /\ (order = "down" => z = 0) /\ (order = "up" => z = h - 1) /\ order \in {"down", "up"}
  <2>1. order \in {"down", "up"} /\ (order = "down" => NextRow = 0) /\ (order = "up" => NextRow = h - 1)
    BY <1>1, <1>2 DEF NextRow, PageInv, RenderingType
  <2> QED
    BY <1>2, <2>1
<1>4. PICK flip \in BOOLEAN : flip <=> z # 0
  OBVIOUS
<1>5. PICK n : n = c * (IF flip THEN h ELSE 1)
  OBVIOUS
<1>6. n \in Nat \ {0} /\ (flip => n = h * c) /\ (~flip => n = c)
  <2>1. CASE c = 1
    BY <1>2, <1>4, <1>5, <2>1
  <2>2. CASE c = 3
    BY <1>2, <1>4, <1>5, <2>2
  <2> QED
    BY <2>1, <2>2
<1>7. /\ device' = [device EXCEPT !.initialized = TRUE, !.flip = (z # 0), !.write_scanline = ~(z # 0)]
      /\ scanline_buf' = Alloc(scanline_buf, n)
      /\ cinfo' = [components |-> c, height |-> h, rows |-> <<>>, bytes |-> burst]
      /\ pc' = "paint" /\ UNCHANGED <<order, swept>>
  BY <1>2, <1>3, <1>4, <1>5 DEF SweepFirst, StartCompress
<1>8. /\ device'.height = h /\ device'.components = c
      /\ device'.initialized /\ (device'.flip <=> flip) /\ (device'.write_scanline <=> ~flip)
      /\ device' \in [height : Nat, components : {1, 3}, initialized : BOOLEAN,
                      write_scanline : BOOLEAN, flip : BOOLEAN]
  BY <1>2, <1>4, <1>7 DEF PageInv, RenderingType, Height
<1>9. scanline_buf' = [data |-> JunkOf(n), size |-> n]
  BY <1>1, <1>6, <1>7 DEF Alloc
<1>10. JunkOf(n) \in Seq(Pixel) /\ Len(JunkOf(n)) = n
  BY <1>6 DEF JunkOf, Pixel
<1>11. /\ cinfo'.components = c /\ cinfo'.height = h /\ cinfo'.rows = <<>>
       /\ cinfo' \in [components : Nat, height : Nat, rows : Seq(Seq(Pixel)), bytes : Nat]
  BY <1>2, <1>7
<1>12. RenderingType'
  BY <1>6, <1>7, <1>8, <1>9, <1>10, <1>11 DEF PageInv, RenderingType
<1>13. Len(<<>>) = 0
  OBVIOUS
<1>14. RowsGiven'
  BY <1>2, <1>11, <1>13 DEF RowsGiven
<1>15. NotStarted' /\ Started'
  BY <1>1, <1>2, <1>7, <1>8, <1>11 DEF NotStarted, Started, Sweeping, Height
<1>16. Kept'
  <2> SUFFICES ASSUME flip PROVE Kept'
    BY <1>8 DEF Kept
  <2>1. order' = "up" /\ cinfo'.rows = <<>> /\ Len(scanline_buf'.data) = h * c
    BY <1>3, <1>4, <1>6, <1>7, <1>9, <1>10, <1>11
  <2>2. \A y \in Nat : ~(h - swept' <= y /\ y < h)
    BY <1>1, <1>2, <1>7
  <2> QED
    BY <1>2, <1>8, <2>1, <2>2 DEF Kept, Height
<1>17. Streamed'
  <2> SUFFICES ASSUME ~flip PROVE Streamed'
    BY <1>8 DEF Streamed
  <2>1. order' = "down" \/ h = 1
    BY <1>2, <1>3, <1>4, <1>7
  <2>2. device'.write_scanline /\ scanline_buf'.size = c /\ Len(scanline_buf'.data) = c
    BY <1>6, <1>8, <1>9, <1>10
  <2>3. Len(cinfo'.rows) = swept' /\ pc' = "paint"
    BY <1>1, <1>7, <1>11, <1>13
  <2> QED
    BY <1>2, <1>8, <2>1, <2>2, <2>3 DEF Streamed, Height
<1> QED
  BY <1>12, <1>14, <1>15, <1>16, <1>17 DEF PageInv

(* Rows appended to those that libjpeg has been given. *)
LEMMA MoreRows ==
  ASSUME RenderingType, RowsGiven, NEW more, more \in Seq(Seq(Pixel)),
         Len(cinfo.rows) + Len(more) <= cinfo.height,
         \A k \in 1..Len(more) :
           more[k] = RowOf(cinfo.components, Len(cinfo.rows) + k - 1),
         NEW burst \in Nat,
         cinfo' = [cinfo EXCEPT !.rows = cinfo.rows \o more, !.bytes = cinfo.bytes + burst]
  PROVE  /\ RowsGiven' /\ cinfo'.components = cinfo.components /\ cinfo'.height = cinfo.height
         /\ cinfo'.rows = cinfo.rows \o more /\ Len(cinfo'.rows) = Len(cinfo.rows) + Len(more)
         /\ cinfo' \in [components : Nat, height : Nat, rows : Seq(Seq(Pixel)), bytes : Nat]
<1> DEFINE Row == Seq(Pixel)
<1>1. PICK rows \in Seq(Row) : rows = cinfo.rows
  BY DEF RenderingType
<1>2. PICK all : all = rows \o more
  OBVIOUS
<1> HIDE DEF Row
<1>3. /\ all \in Seq(Row) /\ Len(all) = Len(rows) + Len(more) /\ Len(rows) \in Nat /\ Len(more) \in Nat
      /\ \A y \in 1..Len(all) : all[y] = IF y <= Len(rows) THEN rows[y] ELSE more[y - Len(rows)]
  BY <1>1, <1>2 DEF Row
<1>4. cinfo.components \in Nat /\ cinfo.height \in Nat /\ cinfo.bytes \in Nat /\ cinfo.bytes + burst \in Nat
  BY DEF RenderingType
<1>5. /\ cinfo'.components = cinfo.components /\ cinfo'.height = cinfo.height /\ cinfo'.rows = all
      /\ cinfo' \in [components : Nat, height : Nat, rows : Seq(Row), bytes : Nat]
  BY <1>1, <1>2, <1>3, <1>4 DEF RenderingType
<1>6. ASSUME NEW y \in 1..Len(all)
      PROVE  all[y] = RowOf(cinfo.components, y - 1)
  <2>1. CASE y <= Len(rows)
    BY <1>1, <1>3, <2>1 DEF RowsGiven
  <2>2. CASE y > Len(rows)
    <3>1. PICK k : k = y - Len(rows)
      OBVIOUS
    <3>2. k \in 1..Len(more) /\ Len(rows) + k - 1 = y - 1
      BY <1>3, <2>2, <3>1
    <3>3. all[y] = more[k]
      BY <1>3, <2>2, <3>1
    <3> QED
      BY <1>1, <3>2, <3>3
  <2> QED
    BY <1>3, <2>1, <2>2
<1>7. RowsGiven'
  BY <1>1, <1>3, <1>5, <1>6 DEF RowsGiven
<1> QED
  BY <1>1, <1>2, <1>3, <1>5, <1>7 DEF Row

(* Memory holds a row of v at an offset. *)
Filled(buf, offset, v) ==
  /\ buf.data \in Seq(Pixel) /\ offset \in Nat /\ cinfo.components \in Nat
  /\ offset + cinfo.components <= Len(buf.data)
  /\ \A i \in 1..cinfo.components : buf.data[offset + i] = v

(* The row that libjpeg reads there. *)
LEMMA RowRead ==
  ASSUME NEW buf, NEW offset, NEW v, Filled(buf, offset, v)
  PROVE  RowAt(buf, offset) = RowOf(cinfo.components, v) /\ RowAt(buf, offset) \in Seq(Pixel)
<1>1. PICK row : row = RowAt(buf, offset)
  OBVIOUS
<1>a. PICK c \in Nat, d \in Seq(Pixel) :
        /\ c = cinfo.components /\ d = buf.data /\ offset \in Nat /\ offset + c <= Len(d)
        /\ \A i \in 1..c : d[offset + i] = v
  BY DEF Filled
<1>2. row = SubSeq(d, offset + 1, offset + c)
  BY <1>1, <1>a DEF RowAt
<1> HIDE DEF Pixel
<1>3. offset + 1 \in Nat /\ offset + c \in Nat /\ offset + c - (offset + 1) + 1 = c /\ Len(d) \in Nat
  BY <1>a
<1>4. /\ row \in Seq(Pixel) /\ Len(row) = c
      /\ \A i \in 1..c : row[i] = d[offset + i]
  <2>1. PICK o \in Nat : o = offset /\ o + c <= Len(d)
    BY <1>a
  <2>2. row = SubSeq(d, o + 1, o + c)
    BY <1>2, <2>1
  <2>3. row \in Seq(Pixel) /\ Len(row) = c
    BY <2>1, <2>2
  <2>4. \A i \in 1..c : row[i] = d[o + i]
    BY <2>1, <2>2
  <2> QED
    BY <2>1, <2>3, <2>4
<1>6. row = [i \in 1..c |-> row[i]]
  BY <1>4
<1>7. \A i \in 1..c : row[i] = v
  BY <1>a, <1>4
<1> QED
  BY <1>1, <1>a, <1>4, <1>6, <1>7 DEF RowOf

(* Another row asked for: the one painted before is written. *)
LEMMA WritePage ==
  ASSUME PageInv, NEW burst \in 0..MaxBurst, SweepWrite(burst)
  PROVE  PageInv'
<1>1. PICK c \in {1, 3}, h \in Nat : c = device.components /\ h = Height
  BY DEF PageInv, RenderingType, Height
<1>2. /\ device.initialized /\ ~device.flip /\ pc = "plugin" /\ swept < h /\ swept \in Nat /\ swept >= 1
      /\ cinfo.components = c /\ cinfo.height = h /\ (order = "down" \/ h = 1)
      /\ device.write_scanline
  BY <1>1 DEF SweepWrite, PageInv, RenderingType, Started, Streamed, Sweeping
<1>3. /\ scanline_buf.size = c /\ Len(scanline_buf.data) = c /\ Len(cinfo.rows) = swept - 1
      /\ \A i \in 1..c : scanline_buf.data[i] = swept - 1
      /\ scanline_buf.data \in Seq(Pixel)
  BY <1>1, <1>2 DEF PageInv, RenderingType, Streamed, Sweeping
<1>4. /\ scanline_buf' = scanline_buf /\ pc' = "paint" /\ UNCHANGED <<order, swept, device>>
      /\ cinfo' = [cinfo EXCEPT !.rows = Append(cinfo.rows, RowAt(scanline_buf, 0)),
                                !.bytes = cinfo.bytes + burst]
  BY <1>1, <1>3 DEF SweepWrite
<1>5. PICK row : row = RowAt(scanline_buf, 0)
  OBVIOUS
<1>6. row = RowOf(c, swept - 1) /\ row \in Seq(Pixel)
  <2>0. PICK v : v = swept - 1
    OBVIOUS
  <2>1. Filled(scanline_buf, 0, v)
    BY <1>2, <1>3, <2>0 DEF Filled
  <2>2. RowAt(scanline_buf, 0) = RowOf(cinfo.components, v) /\ RowAt(scanline_buf, 0) \in Seq(Pixel)
    BY <2>1, RowRead
  <2> QED
    BY <1>2, <1>5, <2>0, <2>2
<1>7. PICK more : more = <<row>>
  OBVIOUS
<1>8. more \in Seq(Seq(Pixel)) /\ Len(more) = 1 /\ more[1] = row
  BY <1>6, <1>7
<1>9. cinfo.rows \in Seq(Seq(Pixel)) /\ Append(cinfo.rows, row) = cinfo.rows \o more
  <2>1. cinfo.rows \in Seq(Seq(Pixel))
    BY DEF PageInv, RenderingType
  <2> QED
    BY <1>6, <1>7, <2>1, AppendIsConcat
<1>10. cinfo' = [cinfo EXCEPT !.rows = cinfo.rows \o more, !.bytes = cinfo.bytes + burst]
  BY <1>4, <1>5, <1>9
<1>11. /\ burst \in Nat /\ Len(cinfo.rows) + Len(more) <= cinfo.height
       /\ \A k \in 1..Len(more) : more[k] = RowOf(cinfo.components, Len(cinfo.rows) + k - 1)
  BY <1>2, <1>3, <1>6, <1>8
<1>12. RenderingType /\ RowsGiven
  BY DEF PageInv
<1>13. /\ RowsGiven' /\ cinfo'.components = cinfo.components /\ cinfo'.height = cinfo.height
       /\ Len(cinfo'.rows) = Len(cinfo.rows) + Len(more)
       /\ cinfo' \in [components : Nat, height : Nat, rows : Seq(Seq(Pixel)), bytes : Nat]
  BY <1>8, <1>10, <1>11, <1>12, MoreRows
<1>14. RenderingType'
  BY <1>4, <1>12, <1>13 DEF RenderingType
<1>15. NotStarted' /\ Started' /\ Kept'
  BY <1>1, <1>2, <1>4, <1>13 DEF NotStarted, Started, Kept, Sweeping, Height
<1>16. Len(cinfo'.rows) = swept
  BY <1>2, <1>3, <1>8, <1>13
<1>17. Streamed'
  BY <1>1, <1>2, <1>3, <1>4, <1>16 DEF Streamed, Height
<1> QED
  BY <1>13, <1>14, <1>15, <1>17 DEF PageInv

(* The rows of a kept page, as Render reads them. *)
Placed(d, components, h) ==
  \A y \in Nat, i \in 1..components : y < h => d[y * components + i] = y

LEMMA KeptRow ==
  ASSUME NEW c \in {1, 3}, NEW h \in Nat, cinfo.components = c,
         NEW d \in Seq(Pixel), scanline_buf.data = d, Len(d) = h * c,
         Placed(d, c, h), NEW y \in 1..h
  PROVE  /\ RowAt(scanline_buf, (y - 1) * c) = RowOf(c, y - 1)
         /\ RowAt(scanline_buf, (y - 1) * c) \in Seq(Pixel)
<1>1. PICK z \in Nat : z = y - 1 /\ z < h
  OBVIOUS
<1>2. PICK offset \in Nat : offset = z * c /\ offset + c <= h * c
  <2>1. CASE c = 1
    BY <1>1, <2>1
  <2>2. CASE c = 3
    BY <1>1, <2>2
  <2> QED
    BY <2>1, <2>2
<1>3. \A i \in 1..c : d[offset + i] = z
  BY <1>1, <1>2 DEF Placed
<1>4. Filled(scanline_buf, offset, z)
  BY <1>2, <1>3 DEF Filled
<1>5. /\ RowAt(scanline_buf, offset) = RowOf(cinfo.components, z)
      /\ RowAt(scanline_buf, offset) \in Seq(Pixel)
  BY <1>4, RowRead
<1> QED
  BY <1>1, <1>2, <1>5

(* What Render writes is all that is missing. *)
LEMMA LastRowsGiven ==
  ASSUME PageInv, pc = "plugin", device.initialized, swept = Height
  PROVE  /\ LastRows \in Seq(Seq(Pixel)) /\ Len(cinfo.rows) + Len(LastRows) = cinfo.height
         /\ \A k \in 1..Len(LastRows) :
              LastRows[k] = RowOf(cinfo.components, Len(cinfo.rows) + k - 1)
<1>1. PICK c \in {1, 3}, h \in Nat : c = device.components /\ h = Height
  BY DEF PageInv, RenderingType, Height
<1>2. cinfo.components = c /\ cinfo.height = h /\ h >= 1 /\ c \in Nat /\ scanline_buf.data \in Seq(Pixel)
  BY <1>1 DEF PageInv, RenderingType, Started, Sweeping
<1>3. CASE device.flip
  <2>1. /\ cinfo.rows = <<>> /\ Len(scanline_buf.data) = h * c
        /\ \A y \in Nat, i \in 1..c : h - h <= y /\ y < h => scanline_buf.data[y * c + i] = y
    BY <1>1, <1>3 DEF PageInv, Kept, Sweeping
  <2>2. PICK last : last = LastRows
    OBVIOUS
  <2> DEFINE Row(y) == RowAt(scanline_buf, (y - 1) * c)
  <2>3. last = [y \in 1..h |-> Row(y)]
    BY <1>1, <1>3, <2>2 DEF LastRows
  <2>4. ASSUME NEW y \in 1..h
        PROVE  Row(y) = RowOf(c, y - 1) /\ Row(y) \in Seq(Pixel)
    <3>1. PICK d \in Seq(Pixel) : d = scanline_buf.data
      BY <1>2
    <3>2. Placed(d, c, h)
      BY <1>1, <2>1, <3>1 DEF Placed
    <3>3. Len(d) = h * c
      BY <2>1, <3>1
    <3>4. Row(y) = RowOf(c, y - 1)
      BY <1>2, <3>1, <3>2, <3>3, KeptRow
    <3>5. Row(y) \in Seq(Pixel)
      BY <1>2, <3>1, <3>2, <3>3, KeptRow
    <3> QED
      BY <3>4, <3>5
  <2> HIDE DEF Row
  <2>5. last \in Seq(Seq(Pixel)) /\ Len(last) = h
    <3>1. last \in [1..h -> Seq(Pixel)]
      BY <2>3, <2>4
    <3> QED
      BY <3>1
  <2>6. \A k \in 1..h : last[k] = RowOf(c, k - 1)
    BY <2>3, <2>4
  <2>7. Len(<<>>) = 0 /\ \A k \in 1..h : 0 + k - 1 = k - 1
    OBVIOUS
  <2> QED
    BY <1>2, <2>1, <2>2, <2>5, <2>6, <2>7
<1>4. CASE ~device.flip
  <2>1. /\ Len(scanline_buf.data) = c /\ Len(cinfo.rows) = h - 1
        /\ \A i \in 1..c : scanline_buf.data[i] = h - 1
    BY <1>1, <1>4 DEF PageInv, Streamed, Sweeping
  <2>2. PICK row : row = RowAt(scanline_buf, 0)
    OBVIOUS
  <2>3. row = RowOf(c, h - 1) /\ row \in Seq(Pixel)
    <3>0. PICK v : v = h - 1
      OBVIOUS
    <3>1. Filled(scanline_buf, 0, v)
      BY <1>2, <2>1, <3>0 DEF Filled
    <3>2. /\ RowAt(scanline_buf, 0) = RowOf(cinfo.components, v)
          /\ RowAt(scanline_buf, 0) \in Seq(Pixel)
      BY <3>1, RowRead
    <3> QED
      BY <1>2, <2>2, <3>0, <3>2
  <2>4. LastRows = <<row>>
    BY <1>1, <1>2, <1>4, <2>1, <2>2 DEF LastRows
  <2>5. LastRows \in Seq(Seq(Pixel)) /\ Len(LastRows) = 1 /\ LastRows[1] = row
    BY <2>3, <2>4
  <2> QED
    BY <1>1, <1>2, <2>1, <2>3, <2>5
<1> QED
  BY <1>3, <1>4

LEMMA RenderedPage ==
  ASSUME PageInv, NEW burst \in 0..MaxBurst, RenderPage(burst) \/ RenderWithoutLast(burst)
  PROVE  PageInv' /\ (ignored' \/ Len(cinfo'.rows) = cinfo'.height)
<1>1. PICK more : Finish(more, burst) /\ (more = LastRows \/ (ignored' /\ more = <<>>))
  BY DEF RenderPage, RenderWithoutLast
<1>4. RenderingType /\ RowsGiven /\ burst \in Nat /\ cinfo.height \in Nat
  BY DEF PageInv, RenderingType
<1>2. /\ more \in Seq(Seq(Pixel)) /\ Len(cinfo.rows) + Len(more) <= cinfo.height
      /\ \A k \in 1..Len(more) : more[k] = RowOf(cinfo.components, Len(cinfo.rows) + k - 1)
      /\ ignored' \/ Len(cinfo.rows) + Len(more) = cinfo.height
  <2>1. CASE more = LastRows
    <3>1. pc = "plugin" /\ device.initialized /\ swept = Height
      BY <1>1 DEF Finish
    <3>2. /\ more \in Seq(Seq(Pixel)) /\ Len(cinfo.rows) + Len(more) = cinfo.height
          /\ \A k \in 1..Len(more) : more[k] = RowOf(cinfo.components, Len(cinfo.rows) + k - 1)
      BY <2>1, <3>1, LastRowsGiven
    <3> QED BY <1>4, <3>2
  <2>2. CASE ignored' /\ more = <<>>
    <3>1. <<>> \in Seq(Seq(Pixel)) /\ Len(<<>>) = 0 /\ Len(cinfo.rows) \in Nat
      BY <1>4 DEF RenderingType
    <3>2. Len(cinfo.rows) + Len(<<>>) <= cinfo.height
      BY <1>4, <3>1 DEF RowsGiven
    <3> QED BY <2>2, <3>1, <3>2
  <2> QED BY <1>1, <2>1, <2>2
<1>3. /\ cinfo' = [cinfo EXCEPT !.rows = cinfo.rows \o more, !.bytes = cinfo.bytes + burst]
      /\ device' = [device EXCEPT !.initialized = FALSE, !.write_scanline = FALSE, !.flip = FALSE]
      /\ pc' = "rendered" /\ UNCHANGED <<order, swept, scanline_buf>>
  BY <1>1 DEF Finish
<1>5. Len(cinfo.rows) + Len(more) <= cinfo.height
  BY <1>2, <1>4
<1>6. /\ RowsGiven' /\ cinfo'.height = cinfo.height
      /\ Len(cinfo'.rows) = Len(cinfo.rows) + Len(more)
      /\ cinfo' \in [components : Nat, height : Nat, rows : Seq(Seq(Pixel)), bytes : Nat]
  BY <1>2, <1>3, <1>4, <1>5, MoreRows
<1>7. device' \in [height : Nat, components : {1, 3}, initialized : BOOLEAN,
                   write_scanline : BOOLEAN, flip : BOOLEAN]
  BY <1>3, <1>4 DEF RenderingType
<1>8. RenderingType'
  BY <1>3, <1>4, <1>6, <1>7 DEF RenderingType
<1>9. NotStarted' /\ Started' /\ Kept' /\ Streamed'
  BY <1>3 DEF NotStarted, Started, Kept, Streamed, Sweeping
<1> QED
  BY <1>2, <1>6, <1>8, <1>9 DEF PageInv

LEMMA PageStep == ASSUME PageInv, [Next]_vars PROVE PageInv'
<1>1. CASE UNCHANGED vars
  BY <1>1 DEF vars, PageInv, RenderingType, RowsGiven, NotStarted, Started, Kept, Streamed,
              Sweeping, Height
<1>2. CASE (\E c \in {1, 3} : Pixfmt(c)) \/ \E h \in Heights : SetViewport(h)
  BY <1>2, ChoosePage
<1>3. CASE \E burst \in 0..MaxBurst :
            SweepFirst(burst) \/ SweepWrite(burst) \/ RenderPage(burst) \/ RenderWithoutLast(burst)
  BY <1>3, FirstPage, WritePage, RenderedPage
<1>4. CASE SweepKept
  <2>1. pc = "plugin" /\ device.initialized /\ swept < Height /\ device.flip /\ pc' = "paint"
        /\ UNCHANGED <<order, swept, device, scanline_buf, cinfo>>
    BY <1>4 DEF SweepKept, rendering
  <2> QED
    BY <2>1 DEF PageInv, RenderingType, RowsGiven, NotStarted, Started, Kept, Streamed, Sweeping, Height
<1>5. CASE Paint
  BY <1>5, PaintPage
<1>6. CASE SweepRefused
  <2>1. pc' = "give up" /\ swept' = 1 /\ UNCHANGED <<order, device, scanline_buf, cinfo>>
    BY <1>6 DEF SweepRefused
  <2> QED
    BY <2>1 DEF PageInv, RenderingType, RowsGiven, NotStarted, Started, Kept, Streamed, Sweeping
<1>7. CASE \/ InitFails \/ WriteFails \/ RowRefused \/ Throw \/ PluginReturns \/ PluginThrows
           \/ SendResponse \/ HandleWriteResponse \/ EndResponse
  <2>1. ~Sweeping' /\ UNCHANGED <<order, swept, device, scanline_buf, cinfo>>
    BY <1>7 DEF InitFails, WriteFails, RowRefused, Throw, PluginReturns, PluginThrows, SendResponse,
                HandleWriteResponse, EndResponse, Sweeping, rendering
  <2> QED
    BY <2>1, PageLeft
<1> QED
  BY <1>1, <1>2, <1>3, <1>4, <1>5, <1>6, <1>7 DEF Next

LEMMA PageInit == Init => PageInv
<1> SUFFICES ASSUME Init PROVE PageInv
  OBVIOUS
<1>1. device \in [height : Nat, components : {1, 3}, initialized : BOOLEAN,
                  write_scanline : BOOLEAN, flip : BOOLEAN] /\ ~device.initialized
  BY DEF Init
<1>2. cinfo.components = 0 /\ cinfo.height = 0 /\ cinfo.rows = <<>> /\ Len(<<>>) = 0
  BY DEF Init
<1>3. RenderingType /\ RowsGiven
  BY <1>1, <1>2 DEF Init, RenderingType, RowsGiven
<1>4. NotStarted /\ Started /\ Kept /\ Streamed
  BY <1>1, <1>2 DEF Init, NotStarted, Started, Kept, Streamed
<1> QED
  BY <1>3, <1>4 DEF PageInv

(* Between any two calls of the plugin, libjpeg has been given the rows    *)
(* above the current one, and the row (or, swept upwards, the page) in the *)
(* buffer is what SweepScanline and Pixel have put there.                  *)
THEOREM PageInvariant == Spec => []PageInv
  BY PageInit, PageStep, PTL DEF Spec

(* RowsInOrder: whichever way the plugin sweeps, libjpeg is given the rows *)
(* of the page from the top down, each once and as it was painted.         *)
THEOREM TopDown == Spec => []RowsInOrder
<1>1. PageInv => RowsInOrder
  <2> SUFFICES ASSUME PageInv PROVE RowsInOrder
    OBVIOUS
  <2>0. PICK rows \in Seq(Seq(Pixel)), h \in Nat : rows = cinfo.rows /\ h = cinfo.height
    BY DEF PageInv, RenderingType
  <2>1. PICK page : rows = cinfo.rows /\ h = cinfo.height /\ page = Page(h, cinfo.components)
    BY <2>0
  <2>2. page = [y \in 1..h |-> RowOf(cinfo.components, y - 1)]
    BY <2>1 DEF Page, RowOf
  <2>3. Len(rows) \in Nat /\ Len(rows) <= h /\ \A y \in 1..Len(rows) : rows[y] = RowOf(cinfo.components, y - 1)
    BY <2>1 DEF PageInv, RowsGiven
  <2>4. Len(page) = h
    BY <2>1, <2>2
  <2>5. SubSeq(rows, 1, Len(rows)) = SubSeq(page, 1, Len(rows))
    <3>1. PICK n \in Nat : n = Len(rows) /\ n <= h
      BY <2>3
    <3>2. SubSeq(rows, 1, n) = [y \in 1..n |-> rows[y]]
      BY <3>1
    <3>3. SubSeq(page, 1, n) = [y \in 1..n |-> page[y]]
      BY <2>2, <2>4, <3>1
    <3>4. \A y \in 1..n : rows[y] = page[y]
      BY <2>2, <2>3, <3>1
    <3> QED
      BY <3>1, <3>2, <3>3, <3>4
  <2> QED
    BY <2>1, <2>3, <2>4, <2>5 DEF RowsInOrder, IsPrefix
<1> QED
  BY <1>1, PageInvariant, PTL

LEMMA FlowInit == Init => FlowInv
<1> SUFFICES ASSUME Init PROVE FlowInv
  OBVIOUS
<1>1. /\ pc = "plugin" /\ jexit = "none" /\ cinfo.bytes = 0
      /\ Destination = [buf |-> <<>>, out |-> [data |-> <<>>, offset |-> 0]]
  BY DEF Init, Destination, B!EmptyStream
<1>2. PICK d : d = Destination
  OBVIOUS
<1>3. d.buf = <<>> /\ d.out = [data |-> <<>>, offset |-> 0] /\ d.out.data = <<>> /\ d.out.offset = 0
  BY <1>1, <1>2
<1>4. <<>> \in Seq(Nat) /\ Len(<<>>) = 0 /\ 0 + 0 = 0
  OBVIOUS
<1>5. d \in Flows
  BY <1>1, <1>2, <1>4 DEF Flows, B!StreamsOver
<1>6. Counted(<<>>, 0)
  BY <1>4 DEF Counted
<1>7. HoldsBytes(d, 0)
  BY <1>3, <1>4, <1>5, <1>6 DEF HoldsBytes
<1> QED
  BY <1>1, <1>2, <1>7 DEF FlowInv, Sweeping

(* What is held after a call in which libjpeg gives out a burst. *)
LEMMA BurstHeld ==
  ASSUME NEW n \in Nat, n = cinfo.bytes, NEW d, HoldsBytes(d, n), NEW burst \in Nat, Flow(Emitted(d, burst))
  PROVE  HoldsBytes(Destination', n + burst)
<1>1. PICK e : e = Emitted(d, burst) /\ HoldsBytes(e, n + burst)
  BY BytesEmitted
<1>2. e = [buf |-> e.buf, out |-> e.out]
  BY <1>1 DEF HoldsBytes, Flows
<1>3. Destination' = e
  BY <1>1, <1>2 DEF Flow, Destination
<1> QED
  BY <1>1, <1>3

(* Only the calls in which libjpeg gives out bytes move them. *)
LEMMA FlowStep == ASSUME PageInv, FlowInv, [Next]_vars PROVE FlowInv'
<1>0. cinfo.bytes \in Nat
  BY DEF PageInv, RenderingType
<1>1. CASE UNCHANGED vars
  BY <1>1 DEF vars, FlowInv, Sweeping, Destination
<1>2. CASE (\E c \in {1, 3} : Pixfmt(c)) \/ \E h \in Heights : SetViewport(h)
  <2>1. pc = "plugin" /\ swept = 0 /\ UNCHANGED <<pc, cinfo, jexit, dest, out>>
    BY <1>2 DEF Pixfmt, SetViewport
  <2>2. ~device.initialized
    BY <2>1 DEF PageInv, Started, Sweeping
  <2> QED
    BY <2>1, <2>2 DEF FlowInv, Sweeping, Destination
<1>3. ASSUME NEW burst \in 0..MaxBurst, SweepFirst(burst) PROVE FlowInv'
  <2>1. /\ pc = "plugin" /\ ~device.initialized /\ pc' = "paint" /\ device'.initialized
        /\ jexit' = jexit /\ cinfo'.bytes = burst
        /\ Flow(Emitted([Destination EXCEPT !.buf = <<>>], burst))
    BY <1>3 DEF SweepFirst, StartCompress, PageInv, RenderingType
  <2>2. cinfo.bytes = 0 /\ HoldsBytes(Destination, 0) /\ jexit # "Render"
    BY <2>1 DEF FlowInv, Sweeping
  <2>3. [Destination EXCEPT !.buf = <<>>] = Destination
    <3>1. PICK d : d = Destination
      OBVIOUS
    <3>2. PICK s \in Seq(Nat), b \in Seq(Nat) : s = d.out.data /\ b = d.buf
      BY <2>2, <3>1 DEF HoldsBytes, Flows, B!StreamsOver
    <3>3. Len(s) \in Nat /\ Len(b) \in Nat /\ Len(s) + Len(b) = 0
      <4>1. Len(d.out.data) + Len(d.buf) = 0
        BY <2>2, <3>1 DEF HoldsBytes
      <4>2. Len(s) \in Nat /\ Len(b) \in Nat
        OBVIOUS
      <4> QED
        BY <3>2, <4>1, <4>2
    <3>4. Len(b) = 0
      BY <3>3
    <3>5. d.buf = <<>>
      BY <3>2, <3>4
    <3> QED
      BY <3>1, <3>5 DEF Destination
  <2>4. burst \in Nat /\ 0 + burst = burst
    OBVIOUS
  <2>5. HoldsBytes(Destination', 0 + burst)
    BY <2>1, <2>2, <2>3, <2>4, BurstHeld
  <2> QED
    BY <2>1, <2>2, <2>4, <2>5 DEF FlowInv, Sweeping
<1>4. ASSUME NEW burst \in 0..MaxBurst, SweepWrite(burst) PROVE FlowInv'
  <2>1. /\ pc = "plugin" /\ device.initialized /\ pc' = "paint" /\ device' = device
        /\ jexit' = "SweepScanline" /\ cinfo'.bytes = cinfo.bytes + burst
        /\ Flow(Emitted(Destination, burst))
    BY <1>4 DEF SweepWrite, PageInv, RenderingType
  <2>2. HoldsBytes(Destination, cinfo.bytes)
    BY <2>1 DEF FlowInv, Sweeping
  <2>3. HoldsBytes(Destination', cinfo.bytes + burst)
    <3>1. burst \in Nat
      OBVIOUS
    <3> QED
      BY <1>0, <2>1, <2>2, <3>1, BurstHeld
  <2> QED
    BY <2>1, <2>3 DEF FlowInv, Sweeping
<1>5. ASSUME NEW burst \in 0..MaxBurst, RenderPage(burst) \/ RenderWithoutLast(burst) PROVE FlowInv'
  <2>1. /\ pc = "plugin" /\ pc' = "rendered" /\ cinfo'.bytes = cinfo.bytes + burst
        /\ Flow(TermDestination(Emitted(Destination, burst)))
    <3>1. PICK more : Finish(more, burst)
      BY <1>5 DEF RenderPage, RenderWithoutLast
    <3> QED BY <3>1 DEF Finish, PageInv, RenderingType
  <2>2. HoldsBytes(Destination, cinfo.bytes)
    BY <2>1 DEF FlowInv, Sweeping
  <2>a. PICK n \in Nat : n = cinfo.bytes + burst /\ burst \in Nat
    BY <1>0
  <2>b. HoldsBytes(Emitted(Destination, burst), cinfo.bytes + burst)
    BY <1>0, <2>2, <2>a, BytesEmitted
  <2>3. PICK e : e = Emitted(Destination, burst) /\ n = cinfo.bytes + burst /\ HoldsBytes(e, n)
    BY <2>a, <2>b
  <2>4. HoldsBytes([buf |-> <<>>, out |-> out'], n)
    <3>1. CASE e.buf # <<>>
      <4>1. out' = B!Write(e.out, e.buf)
        BY <2>1, <2>3, <3>1 DEF Flow, TermDestination
      <4> QED
        BY <2>3, <4>1, StreamWritten
    <3>2. CASE e.buf = <<>>
      <4>1. out' = e.out
        BY <2>1, <2>3, <3>2 DEF Flow, TermDestination
      <4>2. e = [buf |-> e.buf, out |-> e.out]
        BY <2>3 DEF HoldsBytes, Flows
      <4> QED
        BY <2>3, <3>2, <4>1, <4>2
    <3> QED
      BY <3>1, <3>2
  <2>5. HoldsBytes([buf |-> <<>>, out |-> out'], cinfo'.bytes)
    BY <2>1, <2>3, <2>4
  <2> QED
    BY <2>1, <2>5 DEF FlowInv, Sweeping
<1>6. CASE SweepKept \/ Paint
  <2>1. Sweeping /\ Sweeping' /\ UNCHANGED <<device, cinfo, jexit, dest, out>> /\ pc' # "rendered"
    BY <1>6 DEF SweepKept, Paint, Sweeping, rendering
  <2> QED
    BY <2>1 DEF FlowInv, Destination
<1>7. CASE InitFails \/ SweepRefused \/ WriteFails \/ RowRefused \/ Throw \/ PluginThrows
           \/ SendResponse \/ HandleWriteResponse \/ EndResponse
  <2>1. ~Sweeping' /\ pc' # "rendered" /\ (pc' = "give up" => Sweeping /\ jexit' = jexit)
    BY <1>7 DEF InitFails, SweepRefused, WriteFails, RowRefused, Throw, PluginThrows, SendResponse,
                HandleWriteResponse, EndResponse, Sweeping
  <2> QED
    BY <2>1 DEF FlowInv
<1>8. CASE PluginReturns
  <2>1. pc = "give up" /\ pc' = "rendered" /\ jexit' = jexit
    BY <1>8 DEF PluginReturns, rendering
  <2> QED
    BY <2>1 DEF FlowInv, Sweeping
<1> QED
  BY <1>1, <1>2, <1>3, <1>4, <1>5, <1>6, <1>7, <1>8 DEF Next

LEMMA BodyInit == Init => BodyInv
  BY DEF Init, BodyInv, Responding, Sweeping, B!EmptyStream

LEMMA BodyStep == ASSUME PageInv, FlowInv, BodyInv, [Next]_vars PROVE BodyInv'
<1>1. CASE UNCHANGED vars
  BY <1>1 DEF vars, BodyInv, Responding, Sweeping
<1>2. CASE (\E c \in {1, 3} : Pixfmt(c)) \/ \E h \in Heights : SetViewport(h)
  <2>1. pc = "plugin" /\ swept = 0 /\ UNCHANGED <<pc, cinfo, jexit, dest, out, response>>
    BY <1>2 DEF Pixfmt, SetViewport
  <2>2. ~device.initialized
    BY <2>1 DEF PageInv, Started, Sweeping
  <2> QED
    BY <2>1, <2>2 DEF BodyInv, Responding, Sweeping, response
<1>3. ASSUME NEW burst \in 0..MaxBurst,
             SweepFirst(burst) \/ SweepWrite(burst) \/ RenderPage(burst) \/ RenderWithoutLast(burst)
      PROVE  BodyInv'
  <2>1. /\ pc = "plugin" /\ UNCHANGED response
        /\ (pc' = "paint" /\ device'.initialized) \/ (pc' = "rendered" /\ jexit' = "Render")
    BY <1>3 DEF SweepFirst, StartCompress, SweepWrite, RenderPage, RenderWithoutLast, Finish,
                PageInv, RenderingType
  <2>2. ~Responding
    BY <2>1 DEF Responding
  <2>3. status' = 0 /\ wire' = <<>>
    <3>1. (status # 0 => Responding) /\ (wire # <<>> => status = 200)
      BY DEF BodyInv
    <3> QED
      BY <2>1, <2>2, <3>1 DEF response
  <2>4. /\ ~(Sweeping' /\ ~device'.initialized) /\ pc' # "give up"
        /\ pc' = "rendered" => jexit' = "Render"
    BY <2>1 DEF Sweeping
  <2>5. status' # 200 /\ ~(status' # 0) /\ ~(wire' # <<>>)
    BY <2>3
  <2> QED
    BY <2>4, <2>5 DEF BodyInv
<1>4. CASE \/ InitFails \/ SweepRefused \/ SweepKept \/ Paint \/ WriteFails \/ RowRefused \/ Throw
           \/ PluginThrows
  <2>1. /\ pc \in {"plugin", "paint", "longjmp"}
        /\ pc' \in {"longjmp", "give up", "paint", "plugin", "threw"}
        /\ UNCHANGED <<device, out, response>>
        /\ (Sweeping' => Sweeping) /\ (pc' = "give up" => Sweeping /\ ~device.initialized)
    BY <1>4 DEF InitFails, SweepRefused, SweepKept, Paint, WriteFails, RowRefused, Throw, PluginThrows,
                SweepInit, rendering, Sweeping
  <2>2. ~Responding /\ ~Responding' /\ pc' # "rendered"
    BY <2>1 DEF Responding
  <2>3. status = 0 /\ wire = <<>> /\ status' = status /\ wire' = wire /\ out' = out
    <3>1. (status # 0 => Responding) /\ (wire # <<>> => status = 200)
      BY DEF BodyInv
    <3>2. status = 0 /\ wire = <<>>
      BY <2>2, <3>1
    <3> QED
      BY <2>1, <3>2 DEF response
  <2>4. Sweeping /\ ~device.initialized => out.data = <<>>
    BY DEF BodyInv
  <2>5. /\ Sweeping' /\ ~device'.initialized => out'.data = <<>>
        /\ pc' = "give up" => out'.data = <<>>
    BY <2>1, <2>3, <2>4
  <2>6. wire' = <<>> /\ status' = 0 /\ status' # 200
    BY <2>3
  <2> QED
    BY <2>2, <2>5, <2>6 DEF BodyInv
<1>5. CASE PluginReturns
  BY <1>5 DEF PluginReturns, BodyInv, Responding, Sweeping, response, rendering
<1>6. CASE SendResponse
  <2>1. /\ pc \in {"rendered", "threw"} /\ pc' = "write" /\ UNCHANGED <<jexit, cinfo, wire>>
        /\ status' = IF pc = "rendered" /\ B!Size(out) > 0 THEN 200 ELSE 500
    BY <1>6 DEF SendResponse, rendering
  <2>2. B!Size(out) > 0 => out.data # <<>>
    <3>1. Len(<<>>) = 0
      OBVIOUS
    <3> QED
      BY <3>1 DEF B!Size
  <2>3. status = 0 /\ wire = <<>>
    <3>1. (status # 0 => Responding) /\ (wire # <<>> => status = 200)
      BY DEF BodyInv
    <3>2. ~Responding
      BY <2>1 DEF Responding
    <3> QED
      BY <3>1, <3>2
  <2>4. status' = 200 => pc = "rendered" /\ B!Size(out) > 0 /\ out.data # <<>>
    BY <2>1, <2>2
  <2>5. ASSUME status' = 200 PROVE jexit = "Render" /\ cinfo.bytes > 0
    <3>1. pc = "rendered" /\ B!Size(out) > 0 /\ jexit = "Render"
      BY <2>4, <2>5 DEF BodyInv
    <3>2. PICK d : d = [buf |-> <<>>, out |-> out]
      OBVIOUS
    <3>3. Len(out.data) + Len(<<>>) = cinfo.bytes /\ out.data \in Seq(Nat)
      <4>1. HoldsBytes(d, cinfo.bytes)
        BY <3>1, <3>2 DEF FlowInv
      <4> QED
        BY <3>2, <4>1 DEF HoldsBytes, Flows, B!StreamsOver
    <3>4. Len(<<>>) = 0 /\ Len(out.data) \in Nat
      BY <3>3
    <3> QED
      BY <3>1, <3>3, <3>4 DEF B!Size
  <2>6. wire' = <<>> /\ Responding' /\ ~Sweeping' /\ pc' = "write" /\ jexit' = jexit /\ cinfo' = cinfo
    BY <2>1, <2>3 DEF Responding, Sweeping
  <2> QED
    BY <2>5, <2>6 DEF BodyInv
<1>7. CASE HandleWriteResponse \/ EndResponse
  <2>1. /\ pc = "write" /\ pc' \in {"write", "sent", "closed"}
        /\ UNCHANGED <<jexit, cinfo, status>> /\ (wire' # <<>> => wire # <<>> \/ status = 200)
    BY <1>7 DEF HandleWriteResponse, EndResponse, rendering, response
  <2> QED
    BY <2>1 DEF BodyInv, Responding, Sweeping
<1> QED
  BY <1>1, <1>2, <1>3, <1>4, <1>5, <1>6, <1>7 DEF Next

LEMMA WholeInit == Init => WholeInv
  BY DEF Init, WholeInv, Sweeping

LEMMA WholeStep == ASSUME PageInv, FlowInv, BodyInv, WholeInv, [Next]_vars PROVE WholeInv'
<1>1. CASE UNCHANGED vars
  BY <1>1 DEF vars, WholeInv, Sweeping
<1>2. CASE Sweeping
  <2>1. status = 0 /\ jexit # "Render"
    BY <1>2 DEF BodyInv, FlowInv, Sweeping, Responding
  <2>2. CASE \E burst \in 0..MaxBurst : RenderPage(burst) \/ RenderWithoutLast(burst)
    <3>1. PICK burst \in 0..MaxBurst : RenderPage(burst) \/ RenderWithoutLast(burst)
      BY <2>2
    <3>2. ignored' \/ Len(cinfo'.rows) = cinfo'.height
      BY <3>1, RenderedPage
    <3>3. pc' = "rendered"
      BY <3>1 DEF RenderPage, RenderWithoutLast, Finish
    <3> QED
      BY <3>2, <3>3 DEF WholeInv, Sweeping
  <2>3. CASE WriteFails \/ RowRefused
    BY <2>1, <2>3 DEF WriteFails, RowRefused, WholeInv, Sweeping, response
  <2>4. CASE \/ \E c \in {1, 3} : Pixfmt(c)
             \/ \E h \in Heights : SetViewport(h)
             \/ \E burst \in 0..MaxBurst : SweepFirst(burst) \/ SweepWrite(burst)
             \/ InitFails \/ SweepRefused \/ SweepKept \/ Paint \/ PluginThrows
    <3>1. status' = status /\ jexit' # "Render" /\ pc' # "rendered"
      BY <2>1, <2>4 DEF Pixfmt, SetViewport, SweepFirst, SweepWrite, InitFails, SweepRefused,
                        SweepKept, Paint, PluginThrows, response, rendering
    <3>2. status' # 200
      BY <2>1, <3>1
    <3> QED
      BY <3>1, <3>2 DEF WholeInv
  <2>5. CASE Throw \/ PluginReturns \/ SendResponse \/ HandleWriteResponse \/ EndResponse
    BY <1>2, <2>5 DEF Sweeping, Throw, PluginReturns, SendResponse, HandleWriteResponse, EndResponse
  <2> QED
    BY <1>1, <2>2, <2>3, <2>4, <2>5 DEF Next
<1>3. CASE ~Sweeping /\ ~UNCHANGED vars
  <2>1. Throw \/ PluginReturns \/ SendResponse \/ HandleWriteResponse \/ EndResponse
    <3>1. pc # "plugin" /\ pc # "paint"
      BY <1>3 DEF Sweeping
    <3> QED
      BY <1>3, <3>1 DEF Next, Pixfmt, SetViewport, SweepFirst, StartCompress, SweepWrite, RenderPage,
                        RenderWithoutLast, Finish, InitFails, SweepRefused, SweepKept, Paint, WriteFails,
                        RowRefused, PluginThrows
  <2>2. UNCHANGED <<cinfo, jexit, ignored>> /\ pc' \notin {"plugin", "paint", "give up"}
    BY <2>1 DEF Throw, PluginReturns, SendResponse, HandleWriteResponse, EndResponse, rendering
  <2>3. CASE Throw \/ PluginReturns
    <3>1. status' = status /\ (pc' = "rendered" => pc = "give up")
      BY <2>3 DEF Throw, PluginReturns, response
    <3> QED
      BY <2>2, <3>1 DEF WholeInv, FlowInv
  <2>4. CASE SendResponse
    <3>1. pc' = "write" /\ (status' = 200 => pc = "rendered" /\ B!Size(out) > 0)
      BY <2>4 DEF SendResponse
    <3>2. B!Size(out) > 0 => out.data # <<>>
      <4>1. Len(<<>>) = 0
        OBVIOUS
      <4> QED
        BY <4>1 DEF B!Size
    <3>3. status' = 200 => pc = "rendered" /\ jexit = "Render"
      BY <3>1, <3>2 DEF BodyInv
    <3> QED
      BY <2>2, <3>1, <3>3 DEF WholeInv, Sweeping
  <2>5. CASE HandleWriteResponse \/ EndResponse
    <3>1. status' = status /\ pc' # "rendered"
      BY <2>5 DEF HandleWriteResponse, EndResponse, response
    <3> QED
      BY <2>2, <3>1 DEF WholeInv, Sweeping
  <2> QED
    BY <2>1, <2>3, <2>4, <2>5
<1> QED
  BY <1>1, <1>2, <1>3

(* The rows of WholeImageSent: when a response with status 200 is begun,   *)
(* libjpeg has been given every row of the page, or an error was ignored.  *)
THEOREM AllRowsSent == Spec => [](status = 200 => ignored \/ Len(cinfo.rows) = cinfo.height)
<1>1. WholeInv => (status = 200 => ignored \/ Len(cinfo.rows) = cinfo.height)
  BY DEF WholeInv
<1>2. Spec => [](PageInv /\ FlowInv /\ BodyInv /\ WholeInv)
  BY PageInit, PageStep, FlowInit, FlowStep, BodyInit, BodyStep, WholeInit, WholeStep, PTL DEF Spec
<1> QED
  BY <1>1, <1>2, PTL

(* BodyOnlyOfRendered: after an exception, or without one byte of image,   *)
(* no byte of a body is sent, and without an ignored error none of a page  *)
(* that lacks a row.                                                       *)
THEOREM OnlyRendered == Spec => []BodyOnlyOfRendered
<1>1. BodyInv /\ WholeInv => BodyOnlyOfRendered
  BY DEF BodyInv, WholeInv, BodyOnlyOfRendered
<1>2. Spec => [](PageInv /\ FlowInv /\ BodyInv /\ WholeInv)
  BY PageInit, PageStep, FlowInit, FlowStep, BodyInit, BodyStep, WholeInit, WholeStep, PTL DEF Spec
<1> QED
  BY <1>1, <1>2, PTL

(* Before a response nothing is sent. *)
LEMMA SentInit == Init => SentInv
<1> SUFFICES ASSUME Init PROVE SentInv
  OBVIOUS
<1>1. pc = "plugin" /\ status = 0
  BY DEF Init
<1>2. buffer \in [0..(BufferSize - 1) -> Int \cup {Junk}]
  BY DEF Init
<1> QED
  BY <1>1, <1>2 DEF SentInv

(* SendResponse begins with nothing sent, at the start of the image. *)
LEMMA SendBegins ==
  ASSUME PageInv, FlowInv, BodyInv, SentInv, SendResponse
  PROVE  SentInv'
<1>1. /\ pc \in {"rendered", "threw"} /\ pc' = "write" /\ UNCHANGED <<jexit, cinfo, wire, buffer>>
      /\ status' = IF pc = "rendered" /\ B!Size(out) > 0 THEN 200 ELSE 500
      /\ out' = B!Rewind(out)
  BY DEF SendResponse, rendering
<1>2. buffer' \in [0..(BufferSize - 1) -> Int \cup {Junk}]
  BY <1>1 DEF SentInv
<1>3. CASE status' # 200
  BY <1>1, <1>2, <1>3 DEF SentInv
<1>4. CASE status' = 200
  <2>1. pc = "rendered" /\ B!Size(out) > 0
    BY <1>1, <1>4
  <2>2. out.data # <<>>
    <3>1. Len(<<>>) = 0
      OBVIOUS
    <3> QED
      BY <2>1, <3>1 DEF B!Size
  <2>3. jexit = "Render"
    BY <2>1, <2>2 DEF BodyInv
  <2>4. PICK d : d = [buf |-> <<>>, out |-> out]
    OBVIOUS
  <2>5. HoldsBytes(d, cinfo.bytes)
    BY <2>1, <2>3, <2>4 DEF FlowInv
  <2>6. PICK n \in Nat, s \in Seq(Nat) :
          n = cinfo.bytes /\ s = out.data /\ out = [data |-> s, offset |-> out.offset]
    <3>1. cinfo.bytes \in Nat
      BY DEF PageInv, RenderingType
    <3>2. out \in B!StreamsOver(Nat)
      BY <2>4, <2>5 DEF HoldsBytes, Flows
    <3> QED
      BY <3>1, <3>2 DEF B!StreamsOver
  <2>7. Len(s) + Len(<<>>) = n /\ Counted(s, 0)
    BY <2>4, <2>5, <2>6 DEF HoldsBytes
  <2>8. Len(s) = n
    <3>1. Len(<<>>) = 0 /\ Len(s) \in Nat
      OBVIOUS
    <3> QED
      BY <2>7, <3>1
  <2>9. s = FirstBytes(n)
    <3>1. \A i \in 1..n : s[i] = i
      BY <2>7, <2>8 DEF Counted
    <3>2. s = [i \in 1..n |-> s[i]]
      BY <2>8
    <3> QED
      BY <3>1, <3>2 DEF FirstBytes
  <2>10. out' = [data |-> s, offset |-> 0]
    <3>1. out' = [out EXCEPT !.offset = 0]
      BY <1>1, <2>6, <2>8 DEF B!Rewind, B!Seek, B!Size
    <3> QED
      BY <2>6, <3>1
  <2>11. out'.offset = 0 /\ 0 \in 0..n
    BY <2>10
  <2>12. wire' = <<>>
    <3>1. (status # 0 => Responding) /\ (wire # <<>> => status = 200)
      BY DEF BodyInv
    <3>2. ~Responding
      BY <1>1 DEF Responding
    <3> QED
      BY <1>1, <3>1, <3>2
  <2>13. ReadSoFar(wire', [at |-> Len(wire') + 1, data |-> FirstBytes(0), open |-> TRUE])
    <3>1. FirstBytes(0) = <<>>
      BY DEF FirstBytes
    <3>2. Len(<<>>) + 1 = 1
      OBVIOUS
    <3> QED
      BY <2>12, <3>1, <3>2, NothingReadYet DEF NothingRead
  <2>14. <<>> \in Seq(Int)
    OBVIOUS
  <2> QED
    BY <1>1, <1>2, <2>6, <2>9, <2>10, <2>11, <2>12, <2>13, <2>14 DEF SentInv
<1> QED
  BY <1>3, <1>4

(* Bytes taken from the stream follow those taken before. *)
Taken(n, o, M, k, data) ==
  /\ data = B!ReadBytes(out, M) /\ Len(data) = k /\ k <= M
  /\ B!AfterRead(out, M) = [data |-> FirstBytes(n), offset |-> o + k]
  /\ o + k \in 0..n /\ FirstBytes(o) \o data = FirstBytes(o + k)
  /\ data = <<>> => o = n

LEMMA BytesTaken ==
  ASSUME NEW n \in Nat, NEW o \in 0..n, NEW M \in Nat \ {0}, out = [data |-> FirstBytes(n), offset |-> o]
  PROVE  \E k \in Nat, data \in Seq(Nat) : Taken(n, o, M, k, data)
<1>1. PICK k \in Nat : k = (IF n - o < M THEN n - o ELSE M) /\ o + k <= n
  <2>1. (IF n - o < M THEN n - o ELSE M) \in Nat /\ o + (IF n - o < M THEN n - o ELSE M) <= n
    OBVIOUS
  <2> QED
    BY <2>1
<1>2. PICK s \in Seq(Nat) : s = FirstBytes(n) /\ Len(s) = n /\ \A i \in 1..n : s[i] = i
  <2>1. FirstBytes(n) \in Seq(Nat) /\ Len(FirstBytes(n)) = n /\ \A i \in 1..n : FirstBytes(n)[i] = i
    BY DEF FirstBytes
  <2> QED
    BY <2>1
<1>3. B!Available(out, M) = k
  BY <1>1, <1>2 DEF B!Available, B!Size
<1>4. PICK data \in Seq(Nat) : data = SubSeq(s, o + 1, o + k) /\ Len(data) = k /\ data = [i \in 1..k |-> s[o + i]]
  <2>1. o \in Nat /\ o + k <= Len(s)
    BY <1>1, <1>2
  <2>2. /\ SubSeq(s, o + 1, o + k) \in Seq(Nat) /\ Len(SubSeq(s, o + 1, o + k)) = k
        /\ SubSeq(s, o + 1, o + k) = [i \in 1..k |-> s[o + i]]
    BY <2>1, Part
  <2> QED
    BY <2>2
<1>5. data = B!ReadBytes(out, M)
  BY <1>2, <1>3, <1>4 DEF B!ReadBytes
<1>6. B!AfterRead(out, M) = [data |-> FirstBytes(n), offset |-> o + k]
  BY <1>3 DEF B!AfterRead
<1>7. \A i \in 1..k : data[i] = o + i
  <2>1. \A i \in 1..k : o + i \in 1..n
    BY <1>1
  <2> QED
    BY <1>2, <1>4, <2>1
<1>8. FirstBytes(o) \o data = FirstBytes(o + k)
  <2>1. PICK f \in Seq(Nat) : f = FirstBytes(o) /\ Len(f) = o /\ \A i \in 1..o : f[i] = i
    <3>1. o \in Nat
      OBVIOUS
    <3>2. FirstBytes(o) \in Seq(Nat) /\ Len(FirstBytes(o)) = o /\ \A i \in 1..o : FirstBytes(o)[i] = i
      BY <3>1 DEF FirstBytes
    <3> QED
      BY <3>2
  <2>2. PICK t \in Seq(Nat) : t = f \o data /\ Len(t) = o + k
    <3>1. f \o data \in Seq(Nat) /\ Len(f \o data) = Len(f) + Len(data)
      OBVIOUS
    <3>2. Len(f) = o /\ Len(data) = k
      BY <1>4, <2>1
    <3> QED
      BY <3>1, <3>2
  <2>3. ASSUME NEW i \in 1..(o + k) PROVE t[i] = i
    <3>1. t[i] = IF i <= o THEN f[i] ELSE data[i - o]
      BY <1>4, <2>1, <2>2
    <3>2. (i <= o => i \in 1..o) /\ (~(i <= o) => i - o \in 1..k /\ o + (i - o) = i)
      OBVIOUS
    <3> QED
      BY <1>7, <2>1, <3>1, <3>2
  <2>4. t = [i \in 1..(o + k) |-> t[i]]
    <3>1. t = [i \in 1..Len(t) |-> t[i]]
      OBVIOUS
    <3> QED
      BY <2>2, <3>1
  <2>5. t = FirstBytes(o + k)
    BY <2>3, <2>4 DEF FirstBytes
  <2> QED
    BY <2>1, <2>2, <2>5
<1>9. data = <<>> => o = n
  <2>1. data = <<>> => k = 0
    BY <1>4
  <2> QED
    BY <1>1, <2>1
<1>10. k <= M /\ o + k \in 0..n
  BY <1>1
<1> QED
  BY <1>4, <1>5, <1>6, <1>8, <1>9, <1>10 DEF Taken

(* handle_write_response sends the next bytes in a chunk of their size. *)
LEMMA SendsOn ==
  ASSUME PageInv, SentInv, HandleWriteResponse
  PROVE  SentInv'
<1>1. pc = "write" /\ status = 200 /\ UNCHANGED <<cinfo, status>>
  BY DEF HandleWriteResponse, rendering
<1>a. PICK n \in Nat : n = cinfo.bytes
  BY DEF PageInv, RenderingType
<1>2. PICK o \in 0..n : o = out.offset /\ out = [data |-> FirstBytes(n), offset |-> o]
  BY <1>1, <1>a DEF SentInv
<1>b. PICK k \in Nat, data \in Seq(Nat) : Taken(n, o, MaxChunkSize, k, data)
  <2>1. PICK M \in Nat \ {0} : M = MaxChunkSize
    BY RenderingAssumption
  <2> QED
    BY <1>2, <2>1, BytesTaken
<1>3.   /\ data = B!ReadBytes(out, MaxChunkSize) /\ Len(data) = k /\ k <= MaxChunkSize
        /\ B!AfterRead(out, MaxChunkSize) = [data |-> FirstBytes(n), offset |-> o + k]
        /\ o + k \in 0..n /\ FirstBytes(o) \o data = FirstBytes(o + k)
        /\ data = <<>> => o = n
  BY <1>b DEF Taken
<1>4. PICK built, first, last :
        BuildChunk(Put(buffer, ChunkOffset, data), Len(data)) = [buffer |-> built, first |-> first, last |-> last]
  BY DEF BuildChunk
<1>5. PICK text : text = Slice(built, first, last)
  OBVIOUS
<1>6. /\ out' = [data |-> FirstBytes(n), offset |-> o + k]
      /\ buffer' = built
      /\ wire' = wire \o text
      /\ pc' = IF data = <<>> THEN "sent" ELSE "write"
  <2>1. PICK chunk : /\ chunk = BuildChunk(Put(buffer, ChunkOffset, data), Len(data))
                     /\ chunk.buffer = built /\ chunk.first = first /\ chunk.last = last
    BY <1>4
  <2>2. text = [i \in 1..(chunk.last - chunk.first + 1) |-> chunk.buffer[chunk.first + i - 1]]
    BY <1>5, <2>1 DEF Slice
  <2> QED
    BY <1>3, <2>1, <2>2 DEF HandleWriteResponse
<1>7. PICK V : V = Int \cup {Junk}
  OBVIOUS
<1>8. built \in [0..(BufferSize - 1) -> V] /\ ChunkText(text, Digits[Len(data)], data)
  <2>1. buffer \in [0..(BufferSize - 1) -> V] /\ Int \subseteq V
    BY <1>7 DEF SentInv
  <2>2. Len(data) <= MaxChunkSize
    BY <1>3
  <2> QED
    BY <1>4, <1>5, <2>1, <2>2, ChunkBuilt
<1>9. /\ wire \in Seq(Int)
      /\ ReadSoFar(wire, [at |-> Len(wire) + 1, data |-> FirstBytes(o), open |-> TRUE])
  BY <1>1, <1>2 DEF SentInv
<1>10. FirstBytes(o) \in Seq(Int)
  BY DEF FirstBytes
<1>11. ReadSoFar(wire', [at |-> Len(wire') + 1, data |-> FirstBytes(o + k), open |-> data # <<>>])
  <2>1. ReadSoFar(wire \o text, [at |-> Len(wire \o text) + 1, data |-> FirstBytes(o) \o data, open |-> data # <<>>])
    BY <1>8, <1>9, <1>10, ReadMore
  <2> QED
    BY <1>3, <1>6, <2>1
<1>12. wire' \in Seq(Int)
  <2>1. PICK t \in Seq(Int) : t = text
    BY <1>8 DEF ChunkText
  <2>2. wire \o t \in Seq(Int)
    BY <1>9
  <2> QED
    BY <1>6, <2>1, <2>2
<1>13. out'.offset = o + k /\ out' = [data |-> FirstBytes(cinfo'.bytes), offset |-> out'.offset]
       /\ out'.offset \in 0..cinfo'.bytes /\ status' = 200
  BY <1>1, <1>a, <1>3, <1>6
<1>14. buffer' \in [0..(BufferSize - 1) -> Int \cup {Junk}]
  BY <1>6, <1>7, <1>8
<1>15. CASE data # <<>>
  <2>1. pc' = "write" /\ (data # <<>>) = TRUE
    BY <1>6, <1>15
  <2>2. ReadSoFar(wire', [at |-> Len(wire') + 1, data |-> FirstBytes(out'.offset), open |-> TRUE])
    BY <1>11, <1>13, <2>1
  <2> QED
    BY <1>12, <1>13, <1>14, <2>1, <2>2 DEF SentInv
<1>16. CASE data = <<>>
  <2>1. pc' = "sent" /\ (data # <<>>) = FALSE /\ o = n /\ o + k = n
    <3>1. k = 0
      BY <1>3, <1>16
    <3> QED
      BY <1>3, <1>6, <1>16, <3>1
  <2>2. PICK r : r = [at |-> Len(wire') + 1, data |-> FirstBytes(n), open |-> FALSE]
    OBVIOUS
  <2>3. ReadSoFar(wire', r) /\ ~r.open
    BY <1>11, <2>1, <2>2
  <2>4. Dechunk(wire') = r
    BY <1>12, <2>3, DechunkIs
  <2> QED
    BY <1>1, <1>a, <1>13, <1>14, <2>1, <2>2, <2>4 DEF SentInv
<1> QED
  BY <1>15, <1>16

LEMMA SentStep == ASSUME PageInv, FlowInv, BodyInv, SentInv, [Next]_vars PROVE SentInv'
<1>1. CASE UNCHANGED vars
  BY <1>1 DEF vars, SentInv
<1>2. CASE SendResponse
  BY <1>2, SendBegins
<1>3. CASE HandleWriteResponse
  BY <1>3, SendsOn
<1>4. CASE EndResponse
  <2>1. pc' = "closed" /\ UNCHANGED <<cinfo, out, buffer, status>>
    BY <1>4 DEF EndResponse, rendering, response
  <2> QED
    BY <2>1 DEF SentInv
<1>5. CASE \/ \E c \in {1, 3} : Pixfmt(c)
           \/ \E h \in Heights : SetViewport(h)
           \/ \E burst \in 0..MaxBurst :
                SweepFirst(burst) \/ SweepWrite(burst) \/ RenderPage(burst) \/ RenderWithoutLast(burst)
           \/ InitFails \/ SweepRefused \/ SweepKept \/ Paint \/ WriteFails \/ RowRefused \/ Throw
           \/ PluginReturns \/ PluginThrows
  <2>1. /\ pc \in {"plugin", "paint", "longjmp", "give up"}
        /\ pc' \in {"plugin", "paint", "longjmp", "give up", "threw", "rendered"}
        /\ UNCHANGED <<buffer, status>>
    BY <1>5 DEF Pixfmt, SetViewport, SweepFirst, StartCompress, SweepWrite, RenderPage, RenderWithoutLast,
                Finish, InitFails, SweepRefused, SweepKept, Paint, WriteFails, RowRefused, Throw,
                PluginReturns, PluginThrows, response
  <2>2. status' # 200
    <3>1. ~Responding /\ (status # 0 => Responding)
      BY <2>1 DEF BodyInv, Responding
    <3>2. status = 0 /\ status' = status
      BY <2>1, <3>1
    <3> QED
      BY <3>2
  <2> QED
    BY <2>1, <2>2 DEF SentInv
<1> QED
  BY <1>1, <1>2, <1>3, <1>4, <1>5 DEF Next

(* WholeImageSent: a body that was sent to its end is read by the client   *)
(* as every byte that libjpeg gave out for a page with all its rows,       *)
(* however those bytes were split over libjpeg's buffer and the chunks.    *)
THEOREM SentWhole == Spec => []WholeImageSent
<1>1. WholeInv /\ SentInv => WholeImageSent
  BY DEF WholeInv, SentInv, WholeImageSent, FirstBytes
<1>2. Spec => [](PageInv /\ FlowInv /\ BodyInv /\ WholeInv /\ SentInv)
  BY PageInit, PageStep, FlowInit, FlowStep, BodyInit, BodyStep, WholeInit, WholeStep,
     SentInit, SentStep, PTL DEF Spec
<1> QED
  BY <1>1, <1>2, PTL
=====================================================
