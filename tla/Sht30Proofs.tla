----------------------------- MODULE Sht30Proofs -----------------------------
(***************************************************************************)
(* The SHT30's answer, for every pair of words and every set of disturbed  *)
(* bits: sht30_crc8 computes the sensor's checksum, and the disturbances   *)
(* the checksum is there for are noticed.                                  *)
(*                                                                         *)
(* A checksum's bits are the parities of sums of the word's bits.  Each    *)
(* shift of sht30_crc8 only adds some of the sums to others, so the bits   *)
(* of a disturbance are added to the sums of the undisturbed word; what    *)
(* is left of the comparison are eight parities of the disturbance alone,  *)
(* and they are not all even when it has at most three bits or lies within *)
(* eight neighbouring ones.                                                *)
(***************************************************************************)
EXTENDS Sht30, FiniteSetTheorems, SequenceTheorems, TLAPS

Bit == {0, 1}

\* A function on the numbers up to n is a sequence of length n.
LEMMA IsASequence ==
  ASSUME NEW S, NEW n \in Nat, NEW f \in [1 .. n -> S]
  PROVE  f \in Seq(S) /\ Len(f) = n
OBVIOUS

-----------------------------------------------------------------------------
(* The checksum, as sums. *)

\* Eight sums, modulo 2.
Parities(s) == [j \in 1 .. 8 |-> s[j] % 2]

\* What a shift does to them.
ShiftSums(s) == <<s[2], s[3], s[4] + s[1], s[5] + s[1], s[6], s[7], s[8], s[1]>>

\* A number from 1 to 8.
LEMMA OneToEight ==
  ASSUME NEW j \in 1 .. 8
  PROVE  j = 1 \/ j = 2 \/ j = 3 \/ j = 4 \/ j = 5 \/ j = 6 \/ j = 7 \/ j = 8
OBVIOUS

\* Bytes that agree bit by bit.
LEMMA SameByte ==
  ASSUME NEW a, NEW b, a = [j \in 1 .. 8 |-> a[j]], b = [j \in 1 .. 8 |-> b[j]],
         a[1] = b[1], a[2] = b[2], a[3] = b[3], a[4] = b[4],
         a[5] = b[5], a[6] = b[6], a[7] = b[7], a[8] = b[8]
  PROVE  a = b
<1>1. \A j \in 1 .. 8 : a[j] = b[j]
  BY OneToEight
<1> QED BY <1>1

\* The sums are numbers.
LEMMA ShiftSumsType ==
  ASSUME NEW s \in [1 .. 8 -> Nat]
  PROVE  ShiftSums(s) \in [1 .. 8 -> Nat]
BY DEF ShiftSums

\* The bits shifted, and a zero.
LEMMA ShiftedBits ==
  ASSUME NEW c \in [1 .. 8 -> Bit]
  PROVE  /\ Tail(c) \o <<0>> = [j \in 1 .. 8 |-> IF j = 8 THEN 0 ELSE c[j + 1]]
<1>1. PICK n \in Nat : n = 8
  OBVIOUS
<1>2. c \in Seq(Bit) /\ Len(c) = n /\ c # <<>>
  <2>1. c \in Seq(Bit) /\ Len(c) = n
    BY <1>1, IsASequence
  <2>2. 0 # n /\ Len(<<>>) = 0
    BY <1>1, EmptySeq
  <2> QED BY <2>1, <2>2
<1>3. PICK t \in Seq(Bit) : t = Tail(c)
  BY <1>2, HeadTailProperties
<1>4. Len(t) = n - 1 /\ \A i \in 1 .. n - 1 : t[i] = c[i + 1]
  BY <1>2, <1>3, HeadTailProperties
<1>5. <<0>> \in Seq(Bit) /\ Len(<<0>>) = 1 /\ <<0>>[1] = 0
  BY DEF Bit
<1>6. PICK u \in Seq(Bit) : u = t \o <<0>>
  BY <1>5, ConcatProperties
<1>7. Len(u) = Len(t) + 1 /\ \A i \in 1 .. Len(t) + 1 : u[i] = IF i <= Len(t) THEN t[i] ELSE <<0>>[i - Len(t)]
  BY <1>5, <1>6, ConcatProperties
<1>8. Len(u) = n /\ \A i \in 1 .. n : u[i] = IF i = n THEN 0 ELSE c[i + 1]
  <2>1. Len(u) = n
    BY <1>4, <1>7
  <2>2. ASSUME NEW i \in 1 .. n - 1 PROVE u[i] = c[i + 1]
    BY <1>1, <1>4, <1>7
  <2>3. u[n] = 0
    <3>1. n \in 1 .. Len(t) + 1 /\ ~(n <= Len(t)) /\ n - Len(t) = 1
      BY <1>1, <1>4
    <3> QED BY <1>5, <1>7, <3>1
  <2> QED BY <1>1, <2>1, <2>2, <2>3
<1>9. u = [i \in 1 .. n |-> IF i = n THEN 0 ELSE c[i + 1]]
  BY <1>8
<1> QED BY <1>1, <1>3, <1>6, <1>9

\* A shift of parities.
LEMMA ShiftOfSums ==
  ASSUME NEW s \in [1 .. 8 -> Nat]
  PROVE  Shifted(Parities(s)) = Parities(ShiftSums(s))
<1>1. PICK c : c = Parities(s)
  OBVIOUS
<1>2. c \in [1 .. 8 -> Bit]
  BY <1>1 DEF Parities, Bit
<1>3. /\ c[1] = s[1] % 2 /\ c[2] = s[2] % 2 /\ c[3] = s[3] % 2 /\ c[4] = s[4] % 2
      /\ c[5] = s[5] % 2 /\ c[6] = s[6] % 2 /\ c[7] = s[7] % 2 /\ c[8] = s[8] % 2
  BY <1>1 DEF Parities
<1>4. /\ s[1] \in Nat /\ s[2] \in Nat /\ s[3] \in Nat /\ s[4] \in Nat
      /\ s[5] \in Nat /\ s[6] \in Nat /\ s[7] \in Nat /\ s[8] \in Nat
  OBVIOUS
<1>5. PICK r : r = Parities(ShiftSums(s))
  OBVIOUS
<1>6. /\ r[1] = s[2] % 2 /\ r[2] = s[3] % 2 /\ r[3] = (s[4] + s[1]) % 2 /\ r[4] = (s[5] + s[1]) % 2
      /\ r[5] = s[6] % 2 /\ r[6] = s[7] % 2 /\ r[7] = s[8] % 2 /\ r[8] = s[1] % 2
  BY <1>5 DEF Parities, ShiftSums
<1>7. r = [j \in 1 .. 8 |-> r[j]]
  BY <1>5 DEF Parities
<1>8. PICK d : d = Tail(c) \o <<0>>
  OBVIOUS
<1>9. d = [j \in 1 .. 8 |-> IF j = 8 THEN 0 ELSE c[j + 1]]
  BY <1>2, <1>8, ShiftedBits
<1>10. /\ d[1] = c[2] /\ d[2] = c[3] /\ d[3] = c[4] /\ d[4] = c[5]
       /\ d[5] = c[6] /\ d[6] = c[7] /\ d[7] = c[8] /\ d[8] = 0 /\ DOMAIN d = 1 .. 8
       /\ d = [j \in 1 .. 8 |-> d[j]]
  BY <1>9
<1>11. CASE c[1] = 1
  <2>1. PICK x : x = Xor(d, POLYNOMIAL)
    OBVIOUS
  <2>2. x = [j \in 1 .. 8 |-> (d[j] + POLYNOMIAL[j]) % 2]
    BY <1>10, <2>1 DEF Xor
  <2>3. /\ x[1] = (c[2] + 0) % 2 /\ x[2] = (c[3] + 0) % 2 /\ x[3] = (c[4] + 1) % 2
        /\ x[4] = (c[5] + 1) % 2 /\ x[5] = (c[6] + 0) % 2 /\ x[6] = (c[7] + 0) % 2
        /\ x[7] = (c[8] + 0) % 2 /\ x[8] = (0 + 1) % 2 /\ x = [j \in 1 .. 8 |-> x[j]]
    BY <1>10, <2>2 DEF POLYNOMIAL
  <2>4. /\ x[1] = r[1] /\ x[2] = r[2] /\ x[3] = r[3] /\ x[4] = r[4]
        /\ x[5] = r[5] /\ x[6] = r[6] /\ x[7] = r[7] /\ x[8] = r[8]
    BY <1>3, <1>4, <1>6, <1>11, <2>3
  <2>5. x = r
    BY <1>7, <2>3, <2>4, SameByte
  <2> QED BY <1>1, <1>5, <1>8, <1>11, <2>1, <2>5 DEF Shifted
<1>12. CASE c[1] # 1
  <2>1. c[1] = 0
    BY <1>2, <1>12 DEF Bit
  <2>2. /\ d[1] = r[1] /\ d[2] = r[2] /\ d[3] = r[3] /\ d[4] = r[4]
        /\ d[5] = r[5] /\ d[6] = r[6] /\ d[7] = r[7] /\ d[8] = r[8]
    BY <1>3, <1>4, <1>6, <1>10, <2>1
  <2>3. d = r
    BY <1>7, <1>10, <2>2, SameByte
  <2> QED BY <1>1, <1>5, <1>8, <1>12, <2>3 DEF Shifted
<1> QED BY <1>11, <1>12

\* What eight shifts do to the sums, modulo 2.
EightSums(s) ==
  <<s[3] + s[5] + s[6], s[1] + s[4] + s[6] + s[7], s[1] + s[2] + s[5] + s[7] + s[8],
    s[1] + s[2] + s[5] + s[8], s[1] + s[2] + s[5], s[2] + s[3] + s[6],
    s[1] + s[3] + s[4] + s[7], s[2] + s[4] + s[5] + s[8]>>

\* c holds the parities of EightSums(u), bit by bit.
EightParities(c, u) ==
  /\ c[1] = (u[3] + u[5] + u[6]) % 2
  /\ c[2] = (u[1] + u[4] + u[6] + u[7]) % 2
  /\ c[3] = (u[1] + u[2] + u[5] + u[7] + u[8]) % 2
  /\ c[4] = (u[1] + u[2] + u[5] + u[8]) % 2
  /\ c[5] = (u[1] + u[2] + u[5]) % 2
  /\ c[6] = (u[2] + u[3] + u[6]) % 2
  /\ c[7] = (u[1] + u[3] + u[4] + u[7]) % 2
  /\ c[8] = (u[2] + u[4] + u[5] + u[8]) % 2

\* The parities, bit by bit.
LEMMA EightParity ==
  ASSUME NEW u
  PROVE  EightParities(Parities(EightSums(u)), u)
<1>1. PICK s : s = EightSums(u)
  OBVIOUS
<1>2. s[1] = u[3] + u[5] + u[6]
  BY <1>1 DEF EightSums
<1>3. s[2] = u[1] + u[4] + u[6] + u[7]
  BY <1>1 DEF EightSums
<1>4. s[3] = u[1] + u[2] + u[5] + u[7] + u[8]
  BY <1>1 DEF EightSums
<1>5. s[4] = u[1] + u[2] + u[5] + u[8]
  BY <1>1 DEF EightSums
<1>6. s[5] = u[1] + u[2] + u[5]
  BY <1>1 DEF EightSums
<1>7. s[6] = u[2] + u[3] + u[6]
  BY <1>1 DEF EightSums
<1>8. s[7] = u[1] + u[3] + u[4] + u[7]
  BY <1>1 DEF EightSums
<1>9. s[8] = u[2] + u[4] + u[5] + u[8]
  BY <1>1 DEF EightSums
<1>10. PICK c : c = Parities(s)
  OBVIOUS
<1>11. /\ c[1] = s[1] % 2 /\ c[2] = s[2] % 2 /\ c[3] = s[3] % 2 /\ c[4] = s[4] % 2
       /\ c[5] = s[5] % 2 /\ c[6] = s[6] % 2 /\ c[7] = s[7] % 2 /\ c[8] = s[8] % 2
  BY <1>10 DEF Parities
<1>12. EightParities(c, u)
  BY <1>2, <1>3, <1>4, <1>5, <1>6, <1>7, <1>8, <1>9, <1>11, Zenon DEF EightParities
<1> QED BY <1>1, <1>10, <1>12

\* Eight shifts of parities.
LEMMA EightOfSums ==
  ASSUME NEW s \in [1 .. 8 -> Nat]
  PROVE  EightShifts(Parities(s)) = Parities(EightSums(s))
<1>1. PICK t1 \in [1 .. 8 -> Nat] : t1 = ShiftSums(s)
  BY ShiftSumsType
<1>2. PICK t2 \in [1 .. 8 -> Nat] : t2 = ShiftSums(t1)
  BY ShiftSumsType
<1>3. PICK t3 \in [1 .. 8 -> Nat] : t3 = ShiftSums(t2)
  BY ShiftSumsType
<1>4. PICK t4 \in [1 .. 8 -> Nat] : t4 = ShiftSums(t3)
  BY ShiftSumsType
<1>5. PICK t5 \in [1 .. 8 -> Nat] : t5 = ShiftSums(t4)
  BY ShiftSumsType
<1>6. PICK t6 \in [1 .. 8 -> Nat] : t6 = ShiftSums(t5)
  BY ShiftSumsType
<1>7. PICK t7 \in [1 .. 8 -> Nat] : t7 = ShiftSums(t6)
  BY ShiftSumsType
<1>8. PICK t8 \in [1 .. 8 -> Nat] : t8 = ShiftSums(t7)
  BY ShiftSumsType
<1>9. /\ s[1] \in Nat /\ s[2] \in Nat /\ s[3] \in Nat /\ s[4] \in Nat
      /\ s[5] \in Nat /\ s[6] \in Nat /\ s[7] \in Nat /\ s[8] \in Nat
  OBVIOUS
<1>10. /\ t1[1] = s[2] /\ t1[2] = s[3]
      /\ t1[3] = s[1] + s[4] /\ t1[4] = s[1] + s[5]
      /\ t1[5] = s[6] /\ t1[6] = s[7]
      /\ t1[7] = s[8] /\ t1[8] = s[1]
  BY <1>1, <1>9 DEF ShiftSums
<1>11. /\ t2[1] = s[3] /\ t2[2] = s[1] + s[4]
      /\ t2[3] = s[1] + s[2] + s[5] /\ t2[4] = s[2] + s[6]
      /\ t2[5] = s[7] /\ t2[6] = s[8]
      /\ t2[7] = s[1] /\ t2[8] = s[2]
  BY <1>2, <1>9, <1>10 DEF ShiftSums
<1>12. /\ t3[1] = s[1] + s[4] /\ t3[2] = s[1] + s[2] + s[5]
      /\ t3[3] = s[2] + s[3] + s[6] /\ t3[4] = s[3] + s[7]
      /\ t3[5] = s[8] /\ t3[6] = s[1]
      /\ t3[7] = s[2] /\ t3[8] = s[3]
  BY <1>3, <1>9, <1>11 DEF ShiftSums
<1>13. /\ t4[1] = s[1] + s[2] + s[5] /\ t4[2] = s[2] + s[3] + s[6]
      /\ t4[3] = s[1] + s[3] + s[4] + s[7] /\ t4[4] = s[1] + s[4] + s[8]
      /\ t4[5] = s[1] /\ t4[6] = s[2]
      /\ t4[7] = s[3] /\ t4[8] = s[1] + s[4]
  BY <1>4, <1>9, <1>12 DEF ShiftSums
<1>14. /\ t5[1] = s[2] + s[3] + s[6] /\ t5[2] = s[1] + s[3] + s[4] + s[7]
      /\ t5[3] = 2 * s[1] + s[2] + s[4] + s[5] + s[8] /\ t5[4] = 2 * s[1] + s[2] + s[5]
      /\ t5[5] = s[2] /\ t5[6] = s[3]
      /\ t5[7] = s[1] + s[4] /\ t5[8] = s[1] + s[2] + s[5]
  BY <1>5, <1>9, <1>13 DEF ShiftSums
<1>15. /\ t6[1] = s[1] + s[3] + s[4] + s[7] /\ t6[2] = 2 * s[1] + s[2] + s[4] + s[5] + s[8]
      /\ t6[3] = 2 * s[1] + 2 * s[2] + s[3] + s[5] + s[6] /\ t6[4] = 2 * s[2] + s[3] + s[6]
      /\ t6[5] = s[3] /\ t6[6] = s[1] + s[4]
      /\ t6[7] = s[1] + s[2] + s[5] /\ t6[8] = s[2] + s[3] + s[6]
  BY <1>6, <1>9, <1>14 DEF ShiftSums
<1>16. /\ t7[1] = 2 * s[1] + s[2] + s[4] + s[5] + s[8] /\ t7[2] = 2 * s[1] + 2 * s[2] + s[3] + s[5] + s[6]
      /\ t7[3] = s[1] + 2 * s[2] + 2 * s[3] + s[4] + s[6] + s[7] /\ t7[4] = s[1] + 2 * s[3] + s[4] + s[7]
      /\ t7[5] = s[1] + s[4] /\ t7[6] = s[1] + s[2] + s[5]
      /\ t7[7] = s[2] + s[3] + s[6] /\ t7[8] = s[1] + s[3] + s[4] + s[7]
  BY <1>7, <1>9, <1>15 DEF ShiftSums
<1>17. /\ t8[1] = 2 * s[1] + 2 * s[2] + s[3] + s[5] + s[6] /\ t8[2] = s[1] + 2 * s[2] + 2 * s[3] + s[4] + s[6] + s[7]
      /\ t8[3] = 3 * s[1] + s[2] + 2 * s[3] + 2 * s[4] + s[5] + s[7] + s[8] /\ t8[4] = 3 * s[1] + s[2] + 2 * s[4] + s[5] + s[8]
      /\ t8[5] = s[1] + s[2] + s[5] /\ t8[6] = s[2] + s[3] + s[6]
      /\ t8[7] = s[1] + s[3] + s[4] + s[7] /\ t8[8] = 2 * s[1] + s[2] + s[4] + s[5] + s[8]
  BY <1>8, <1>9, <1>16 DEF ShiftSums
<1>18. Parities(t8) = Parities(EightSums(s))
  <2>1. PICK a, b : a = Parities(t8) /\ b = Parities(EightSums(s))
    OBVIOUS
  <2>2. a = [j \in 1 .. 8 |-> a[j]] /\ b = [j \in 1 .. 8 |-> b[j]]
    BY <2>1 DEF Parities
  <2>3. /\ a[1] = t8[1] % 2 /\ a[2] = t8[2] % 2 /\ a[3] = t8[3] % 2 /\ a[4] = t8[4] % 2
        /\ a[5] = t8[5] % 2 /\ a[6] = t8[6] % 2 /\ a[7] = t8[7] % 2 /\ a[8] = t8[8] % 2
    BY <2>1 DEF Parities
  <2>4. /\ b[1] = (s[3] + s[5] + s[6]) % 2 /\ b[2] = (s[1] + s[4] + s[6] + s[7]) % 2
        /\ b[3] = (s[1] + s[2] + s[5] + s[7] + s[8]) % 2 /\ b[4] = (s[1] + s[2] + s[5] + s[8]) % 2
        /\ b[5] = (s[1] + s[2] + s[5]) % 2 /\ b[6] = (s[2] + s[3] + s[6]) % 2
        /\ b[7] = (s[1] + s[3] + s[4] + s[7]) % 2 /\ b[8] = (s[2] + s[4] + s[5] + s[8]) % 2
    <3>1. EightParities(b, s)
      BY <2>1, EightParity
    <3> QED BY <3>1, Zenon DEF EightParities
  <2>5. /\ a[1] = b[1] /\ a[2] = b[2] /\ a[3] = b[3] /\ a[4] = b[4]
        /\ a[5] = b[5] /\ a[6] = b[6] /\ a[7] = b[7] /\ a[8] = b[8]
    BY <1>9, <1>17, <2>3, <2>4
  <2> QED BY <2>1, <2>2, <2>5, SameByte
<1>19. EightShifts(Parities(s))
         = Shifted(Shifted(Shifted(Shifted(Shifted(Shifted(Shifted(Shifted(Parities(s)))))))))
  BY Zenon DEF EightShifts
<1>20. /\ Shifted(Parities(s)) = Parities(t1) /\ Shifted(Parities(t1)) = Parities(t2)
       /\ Shifted(Parities(t2)) = Parities(t3) /\ Shifted(Parities(t3)) = Parities(t4)
       /\ Shifted(Parities(t4)) = Parities(t5) /\ Shifted(Parities(t5)) = Parities(t6)
       /\ Shifted(Parities(t6)) = Parities(t7) /\ Shifted(Parities(t7)) = Parities(t8)
  BY <1>1, <1>2, <1>3, <1>4, <1>5, <1>6, <1>7, <1>8, ShiftOfSums
<1> QED BY <1>18, <1>19, <1>20

\* What the checksum of a word is the parity of.
CheckSums(u) ==
  <<u[2] + u[3] + u[6] + u[7] + u[8] + u[11] + u[13] + u[14],
    u[3] + u[4] + u[7] + u[8] + u[9] + u[12] + u[14] + u[15],
    u[1] + u[4] + u[5] + u[8] + u[9] + u[10] + u[13] + u[15] + u[16],
    u[3] + u[5] + u[7] + u[8] + u[9] + u[10] + u[13] + u[16],
    u[2] + u[3] + u[4] + u[7] + u[9] + u[10] + u[13],
    u[3] + u[4] + u[5] + u[8] + u[10] + u[11] + u[14],
    u[1] + u[4] + u[5] + u[6] + u[9] + u[11] + u[12] + u[15],
    u[1] + u[2] + u[5] + u[6] + u[7] + u[10] + u[12] + u[13] + u[16]>>

\* c holds the parities of CheckSums(u), bit by bit.
CheckParities(c, u) ==
  /\ c[1] = (u[2] + u[3] + u[6] + u[7] + u[8] + u[11] + u[13] + u[14]) % 2
  /\ c[2] = (u[3] + u[4] + u[7] + u[8] + u[9] + u[12] + u[14] + u[15]) % 2
  /\ c[3] = (u[1] + u[4] + u[5] + u[8] + u[9] + u[10] + u[13] + u[15] + u[16]) % 2
  /\ c[4] = (u[3] + u[5] + u[7] + u[8] + u[9] + u[10] + u[13] + u[16]) % 2
  /\ c[5] = (u[2] + u[3] + u[4] + u[7] + u[9] + u[10] + u[13]) % 2
  /\ c[6] = (u[3] + u[4] + u[5] + u[8] + u[10] + u[11] + u[14]) % 2
  /\ c[7] = (u[1] + u[4] + u[5] + u[6] + u[9] + u[11] + u[12] + u[15]) % 2
  /\ c[8] = (u[1] + u[2] + u[5] + u[6] + u[7] + u[10] + u[12] + u[13] + u[16]) % 2

\* The parities, bit by bit.
LEMMA CheckParity ==
  ASSUME NEW u
  PROVE  CheckParities(Parities(CheckSums(u)), u)
<1>1. PICK s : s = CheckSums(u)
  OBVIOUS
<1>2. s[1] = u[2] + u[3] + u[6] + u[7] + u[8] + u[11] + u[13] + u[14]
  BY <1>1 DEF CheckSums
<1>3. s[2] = u[3] + u[4] + u[7] + u[8] + u[9] + u[12] + u[14] + u[15]
  BY <1>1 DEF CheckSums
<1>4. s[3] = u[1] + u[4] + u[5] + u[8] + u[9] + u[10] + u[13] + u[15] + u[16]
  BY <1>1 DEF CheckSums
<1>5. s[4] = u[3] + u[5] + u[7] + u[8] + u[9] + u[10] + u[13] + u[16]
  BY <1>1 DEF CheckSums
<1>6. s[5] = u[2] + u[3] + u[4] + u[7] + u[9] + u[10] + u[13]
  BY <1>1 DEF CheckSums
<1>7. s[6] = u[3] + u[4] + u[5] + u[8] + u[10] + u[11] + u[14]
  BY <1>1 DEF CheckSums
<1>8. s[7] = u[1] + u[4] + u[5] + u[6] + u[9] + u[11] + u[12] + u[15]
  BY <1>1 DEF CheckSums
<1>9. s[8] = u[1] + u[2] + u[5] + u[6] + u[7] + u[10] + u[12] + u[13] + u[16]
  BY <1>1 DEF CheckSums
<1>10. PICK c : c = Parities(s)
  OBVIOUS
<1>11. /\ c[1] = s[1] % 2 /\ c[2] = s[2] % 2 /\ c[3] = s[3] % 2 /\ c[4] = s[4] % 2
       /\ c[5] = s[5] % 2 /\ c[6] = s[6] % 2 /\ c[7] = s[7] % 2 /\ c[8] = s[8] % 2
  BY <1>10 DEF Parities
<1>12. CheckParities(c, u)
  BY <1>2, <1>3, <1>4, <1>5, <1>6, <1>7, <1>8, <1>9, <1>11, Zenon DEF CheckParities
<1> QED BY <1>1, <1>10, <1>12

\* A part of a sequence.
LEMMA Part ==
  ASSUME NEW S, NEW s \in Seq(S), NEW i \in Nat \ {0}, NEW j \in Nat, NEW n \in Nat \ {0},
         j = i + n - 1, j <= Len(s)
  PROVE  SubSeq(s, i, j) = [k \in 1 .. n |-> s[i + k - 1]]
<1>1. SubSeq(s, i, j) \in Seq(S) /\ Len(SubSeq(s, i, j)) = n
  OBVIOUS
<1>2. \A k \in 1 .. n : SubSeq(s, i, j)[k] = s[i + k - 1]
  OBVIOUS
<1>3. PICK p \in Seq(S) : p = SubSeq(s, i, j)
  BY <1>1
<1> QED BY <1>1, <1>2, <1>3

\* The two bytes of a word.
LEMMA TwoBytes ==
  ASSUME NEW S, NEW w \in [1 .. 16 -> S]
  PROVE  /\ SubSeq(w, 1, 8) = [j \in 1 .. 8 |-> w[j]]
         /\ SubSeq(w, 9, 16) = [j \in 1 .. 8 |-> w[8 + j]]
<1>1. PICK n \in Nat : n = 16
  OBVIOUS
<1>2. w \in Seq(S) /\ Len(w) = n
  BY <1>1, IsASequence
<1>3. PICK e \in Nat \ {0} : e = 8
  OBVIOUS
<1>4. /\ 1 \in Nat \ {0} /\ e \in Nat /\ n \in Nat /\ 9 \in Nat \ {0}
      /\ e = 1 + e - 1 /\ n = 9 + e - 1 /\ e <= Len(w) /\ n <= Len(w)
  BY <1>1, <1>2, <1>3
<1>5. SubSeq(w, 1, e) = [j \in 1 .. e |-> w[1 + j - 1]]
  BY <1>2, <1>4, Part
<1>6. SubSeq(w, 9, n) = [j \in 1 .. e |-> w[9 + j - 1]]
  BY <1>2, <1>4, Part
<1>7. \A j \in 1 .. e : w[1 + j - 1] = w[j] /\ w[9 + j - 1] = w[8 + j]
  <2>1. \A j \in 1 .. e : 1 + j - 1 = j /\ 9 + j - 1 = 8 + j
    BY <1>3
  <2> QED BY <2>1
<1> QED BY <1>1, <1>3, <1>5, <1>6, <1>7

\* The sum of two bytes, modulo 2.
LEMMA XorOfSums ==
  ASSUME NEW s \in [1 .. 8 -> Nat], NEW t \in [1 .. 8 -> Nat]
  PROVE  Xor(Parities(s), Parities(t)) = Parities([j \in 1 .. 8 |-> s[j] + t[j]])
<1>1. ASSUME NEW j \in 1 .. 8
      PROVE  (Parities(s)[j] + Parities(t)[j]) % 2 = (s[j] + t[j]) % 2
  <2>1. Parities(s)[j] = s[j] % 2 /\ Parities(t)[j] = t[j] % 2
    BY DEF Parities
  <2>2. PICK a, b \in Nat : a = s[j] /\ b = t[j]
    OBVIOUS
  <2>3. ((a % 2) + (b % 2)) % 2 = (a + b) % 2
    OBVIOUS
  <2> QED BY <2>1, <2>2, <2>3
<1>2. DOMAIN Parities(s) = 1 .. 8
  BY DEF Parities
<1>3. Xor(Parities(s), Parities(t)) = [j \in 1 .. 8 |-> (Parities(s)[j] + Parities(t)[j]) % 2]
  BY <1>2 DEF Xor
<1>4. Xor(Parities(s), Parities(t)) = [j \in 1 .. 8 |-> (s[j] + t[j]) % 2]
  BY <1>1, <1>3
<1> QED BY <1>4 DEF Parities

\* These are numbers.
LEMMA EightSumsType ==
  ASSUME NEW s \in [1 .. 8 -> Nat]
  PROVE  EightSums(s) \in [1 .. 8 -> Nat]
BY DEF EightSums

\* The sums for a word whose first byte is inverted.
FirstInverted(u) == [k \in 1 .. 16 |-> IF k <= 8 THEN u[k] + 1 ELSE u[k]]

\* Eight shifts, the second byte added, and eight shifts.
LEMMA TwiceEight ==
  ASSUME NEW v1 \in Nat, NEW v2 \in Nat, NEW v3 \in Nat, NEW v4 \in Nat, NEW v5 \in Nat, NEW v6 \in Nat, NEW v7 \in Nat, NEW v8 \in Nat,
         NEW v9 \in Nat, NEW v10 \in Nat, NEW v11 \in Nat, NEW v12 \in Nat, NEW v13 \in Nat, NEW v14 \in Nat, NEW v15 \in Nat, NEW v16 \in Nat,
         NEW r1, r1 = v3 + v5 + v6 + v9,
         NEW r2, r2 = v1 + v4 + v6 + v7 + v10,
         NEW r3, r3 = v1 + v2 + v5 + v7 + v8 + v11,
         NEW r4, r4 = v1 + v2 + v5 + v8 + v12,
         NEW r5, r5 = v1 + v2 + v5 + v13,
         NEW r6, r6 = v2 + v3 + v6 + v14,
         NEW r7, r7 = v1 + v3 + v4 + v7 + v15,
         NEW r8, r8 = v2 + v4 + v5 + v8 + v16
  PROVE  /\ (r3 + r5 + r6) % 2 = (v2 + v3 + v6 + v7 + v8 + v11 + v13 + v14) % 2
         /\ (r1 + r4 + r6 + r7) % 2 = (v3 + v4 + v7 + v8 + v9 + v12 + v14 + v15) % 2
         /\ (r1 + r2 + r5 + r7 + r8) % 2 = (v1 + v4 + v5 + v8 + v9 + v10 + v13 + v15 + v16) % 2
         /\ (r1 + r2 + r5 + r8) % 2 = (v3 + v5 + v7 + v8 + v9 + v10 + v13 + v16) % 2
         /\ (r1 + r2 + r5) % 2 = (v2 + v3 + v4 + v7 + v9 + v10 + v13) % 2
         /\ (r2 + r3 + r6) % 2 = (v3 + v4 + v5 + v8 + v10 + v11 + v14) % 2
         /\ (r1 + r3 + r4 + r7) % 2 = (v1 + v4 + v5 + v6 + v9 + v11 + v12 + v15) % 2
         /\ (r2 + r4 + r5 + r8) % 2 = (v1 + v2 + v5 + v6 + v7 + v10 + v12 + v13 + v16) % 2
<1>1. (r3 + r5 + r6) % 2 = (v2 + v3 + v6 + v7 + v8 + v11 + v13 + v14) % 2
  OBVIOUS
<1>2. (r1 + r4 + r6 + r7) % 2 = (v3 + v4 + v7 + v8 + v9 + v12 + v14 + v15) % 2
  OBVIOUS
<1>3. (r1 + r2 + r5 + r7 + r8) % 2 = (v1 + v4 + v5 + v8 + v9 + v10 + v13 + v15 + v16) % 2
  OBVIOUS
<1>4. (r1 + r2 + r5 + r8) % 2 = (v3 + v5 + v7 + v8 + v9 + v10 + v13 + v16) % 2
  OBVIOUS
<1>5. (r1 + r2 + r5) % 2 = (v2 + v3 + v4 + v7 + v9 + v10 + v13) % 2
  OBVIOUS
<1>6. (r2 + r3 + r6) % 2 = (v3 + v4 + v5 + v8 + v10 + v11 + v14) % 2
  OBVIOUS
<1>7. (r1 + r3 + r4 + r7) % 2 = (v1 + v4 + v5 + v6 + v9 + v11 + v12 + v15) % 2
  OBVIOUS
<1>8. (r2 + r4 + r5 + r8) % 2 = (v1 + v2 + v5 + v6 + v7 + v10 + v12 + v13 + v16) % 2
  OBVIOUS
<1> QED BY <1>1, <1>2, <1>3, <1>4, <1>5, <1>6, <1>7, <1>8

\* The same, for the elements of sequences.
LEMMA TwiceEightOf ==
  ASSUME NEW v, \A k \in 1 .. 16 : v[k] \in Nat,
         NEW r,
         r[1] = v[3] + v[5] + v[6] + v[9],
         r[2] = v[1] + v[4] + v[6] + v[7] + v[10],
         r[3] = v[1] + v[2] + v[5] + v[7] + v[8] + v[11],
         r[4] = v[1] + v[2] + v[5] + v[8] + v[12],
         r[5] = v[1] + v[2] + v[5] + v[13],
         r[6] = v[2] + v[3] + v[6] + v[14],
         r[7] = v[1] + v[3] + v[4] + v[7] + v[15],
         r[8] = v[2] + v[4] + v[5] + v[8] + v[16]
  PROVE  /\ (r[3] + r[5] + r[6]) % 2 = (v[2] + v[3] + v[6] + v[7] + v[8] + v[11] + v[13] + v[14]) % 2
         /\ (r[1] + r[4] + r[6] + r[7]) % 2 = (v[3] + v[4] + v[7] + v[8] + v[9] + v[12] + v[14] + v[15]) % 2
         /\ (r[1] + r[2] + r[5] + r[7] + r[8]) % 2 = (v[1] + v[4] + v[5] + v[8] + v[9] + v[10] + v[13] + v[15] + v[16]) % 2
         /\ (r[1] + r[2] + r[5] + r[8]) % 2 = (v[3] + v[5] + v[7] + v[8] + v[9] + v[10] + v[13] + v[16]) % 2
         /\ (r[1] + r[2] + r[5]) % 2 = (v[2] + v[3] + v[4] + v[7] + v[9] + v[10] + v[13]) % 2
         /\ (r[2] + r[3] + r[6]) % 2 = (v[3] + v[4] + v[5] + v[8] + v[10] + v[11] + v[14]) % 2
         /\ (r[1] + r[3] + r[4] + r[7]) % 2 = (v[1] + v[4] + v[5] + v[6] + v[9] + v[11] + v[12] + v[15]) % 2
         /\ (r[2] + r[4] + r[5] + r[8]) % 2 = (v[1] + v[2] + v[5] + v[6] + v[7] + v[10] + v[12] + v[13] + v[16]) % 2
<1>1. PICK v1 \in Nat : v1 = v[1]
  OBVIOUS
<1>2. PICK v2 \in Nat : v2 = v[2]
  OBVIOUS
<1>3. PICK v3 \in Nat : v3 = v[3]
  OBVIOUS
<1>4. PICK v4 \in Nat : v4 = v[4]
  OBVIOUS
<1>5. PICK v5 \in Nat : v5 = v[5]
  OBVIOUS
<1>6. PICK v6 \in Nat : v6 = v[6]
  OBVIOUS
<1>7. PICK v7 \in Nat : v7 = v[7]
  OBVIOUS
<1>8. PICK v8 \in Nat : v8 = v[8]
  OBVIOUS
<1>9. PICK v9 \in Nat : v9 = v[9]
  OBVIOUS
<1>10. PICK v10 \in Nat : v10 = v[10]
  OBVIOUS
<1>11. PICK v11 \in Nat : v11 = v[11]
  OBVIOUS
<1>12. PICK v12 \in Nat : v12 = v[12]
  OBVIOUS
<1>13. PICK v13 \in Nat : v13 = v[13]
  OBVIOUS
<1>14. PICK v14 \in Nat : v14 = v[14]
  OBVIOUS
<1>15. PICK v15 \in Nat : v15 = v[15]
  OBVIOUS
<1>16. PICK v16 \in Nat : v16 = v[16]
  OBVIOUS
<1>17. PICK r1 : r1 = r[1]
  OBVIOUS
<1>18. PICK r2 : r2 = r[2]
  OBVIOUS
<1>19. PICK r3 : r3 = r[3]
  OBVIOUS
<1>20. PICK r4 : r4 = r[4]
  OBVIOUS
<1>21. PICK r5 : r5 = r[5]
  OBVIOUS
<1>22. PICK r6 : r6 = r[6]
  OBVIOUS
<1>23. PICK r7 : r7 = r[7]
  OBVIOUS
<1>24. PICK r8 : r8 = r[8]
  OBVIOUS
<1>25. /\ r1 = v3 + v5 + v6 + v9
       /\ r2 = v1 + v4 + v6 + v7 + v10
       /\ r3 = v1 + v2 + v5 + v7 + v8 + v11
       /\ r4 = v1 + v2 + v5 + v8 + v12
       /\ r5 = v1 + v2 + v5 + v13
       /\ r6 = v2 + v3 + v6 + v14
       /\ r7 = v1 + v3 + v4 + v7 + v15
       /\ r8 = v2 + v4 + v5 + v8 + v16
  BY <1>1, <1>2, <1>3, <1>4, <1>5, <1>6, <1>7, <1>8, <1>9, <1>10, <1>11, <1>12, <1>13, <1>14, <1>15, <1>16, <1>17, <1>18, <1>19, <1>20, <1>21, <1>22, <1>23, <1>24, Zenon
<1>26. /\ (r3 + r5 + r6) % 2 = (v2 + v3 + v6 + v7 + v8 + v11 + v13 + v14) % 2
       /\ (r1 + r4 + r6 + r7) % 2 = (v3 + v4 + v7 + v8 + v9 + v12 + v14 + v15) % 2
       /\ (r1 + r2 + r5 + r7 + r8) % 2 = (v1 + v4 + v5 + v8 + v9 + v10 + v13 + v15 + v16) % 2
       /\ (r1 + r2 + r5 + r8) % 2 = (v3 + v5 + v7 + v8 + v9 + v10 + v13 + v16) % 2
       /\ (r1 + r2 + r5) % 2 = (v2 + v3 + v4 + v7 + v9 + v10 + v13) % 2
       /\ (r2 + r3 + r6) % 2 = (v3 + v4 + v5 + v8 + v10 + v11 + v14) % 2
       /\ (r1 + r3 + r4 + r7) % 2 = (v1 + v4 + v5 + v6 + v9 + v11 + v12 + v15) % 2
       /\ (r2 + r4 + r5 + r8) % 2 = (v1 + v2 + v5 + v6 + v7 + v10 + v12 + v13 + v16) % 2
  BY <1>25, TwiceEight
<1> QED BY <1>1, <1>2, <1>3, <1>4, <1>5, <1>6, <1>7, <1>8, <1>9, <1>10, <1>11, <1>12, <1>13, <1>14, <1>15, <1>16, <1>17, <1>18, <1>19, <1>20, <1>21, <1>22, <1>23, <1>24, <1>26, Zenon

\* sht30_crc8, as parities.
LEMMA CrcOfSums ==
  ASSUME NEW u \in [1 .. 16 -> Nat], NEW w, w = [k \in 1 .. 16 |-> u[k] % 2]
  PROVE  sht30_crc8(w) = Parities(CheckSums(FirstInverted(u)))
<1>1. w \in [1 .. 16 -> Nat]
  <2>1. \A k \in 1 .. 16 : u[k] % 2 \in Nat
    OBVIOUS
  <2> QED BY <2>1
<1>2. PICK a \in [1 .. 8 -> Nat] : a = [j \in 1 .. 8 |-> u[j]]
  <2>1. [j \in 1 .. 8 |-> u[j]] \in [1 .. 8 -> Nat]
    OBVIOUS
  <2> QED BY <2>1
<1>3. PICK b \in [1 .. 8 -> Nat] : b = [j \in 1 .. 8 |-> u[8 + j]]
  <2>1. [j \in 1 .. 8 |-> u[8 + j]] \in [1 .. 8 -> Nat]
    OBVIOUS
  <2> QED BY <2>1
<1>4. SubSeq(w, 1, 8) = Parities(a) /\ SubSeq(w, 9, 16) = Parities(b)
  <2>1. /\ SubSeq(w, 1, 8) = [j \in 1 .. 8 |-> w[j]]
        /\ SubSeq(w, 9, 16) = [j \in 1 .. 8 |-> w[8 + j]]
    BY <1>1, TwoBytes
  <2>2. \A j \in 1 .. 8 : w[j] = a[j] % 2 /\ w[8 + j] = b[j] % 2
    BY <1>2, <1>3
  <2> QED BY <2>1, <2>2 DEF Parities
<1>5. PICK one \in [1 .. 8 -> Nat] : one = [j \in 1 .. 8 |-> 1]
  OBVIOUS
<1>6. CRC_INIT = Parities(one)
  <2>1. PICK x, y : x = CRC_INIT /\ y = Parities(one)
    OBVIOUS
  <2>2. /\ y = [j \in 1 .. 8 |-> y[j]] /\ y[1] = 1 /\ y[2] = 1 /\ y[3] = 1 /\ y[4] = 1
        /\ y[5] = 1 /\ y[6] = 1 /\ y[7] = 1 /\ y[8] = 1
    BY <1>5, <2>1 DEF Parities
  <2>3. /\ x = [j \in 1 .. 8 |-> x[j]] /\ x[1] = 1 /\ x[2] = 1 /\ x[3] = 1 /\ x[4] = 1
        /\ x[5] = 1 /\ x[6] = 1 /\ x[7] = 1 /\ x[8] = 1
    BY <2>1 DEF CRC_INIT
  <2> QED BY <2>1, <2>2, <2>3, SameByte
<1>7. PICK s \in [1 .. 8 -> Nat] : s = [j \in 1 .. 8 |-> one[j] + a[j]]
  <2>1. [j \in 1 .. 8 |-> one[j] + a[j]] \in [1 .. 8 -> Nat]
    OBVIOUS
  <2> QED BY <2>1
<1>8. Xor(CRC_INIT, SubSeq(w, 1, 8)) = Parities(s)
  BY <1>4, <1>6, <1>7, XorOfSums
<1>9. PICK t \in [1 .. 8 -> Nat] : t = EightSums(s)
  BY EightSumsType
<1>10. EightShifts(Parities(s)) = Parities(t)
  BY <1>9, EightOfSums
<1>11. PICK r \in [1 .. 8 -> Nat] : r = [j \in 1 .. 8 |-> t[j] + b[j]]
  <2>1. [j \in 1 .. 8 |-> t[j] + b[j]] \in [1 .. 8 -> Nat]
    OBVIOUS
  <2> QED BY <2>1
<1>12. Xor(Parities(t), SubSeq(w, 9, 16)) = Parities(r)
  BY <1>4, <1>11, XorOfSums
<1>13. sht30_crc8(w) = Parities(EightSums(r))
  <2>1. EightShifts(Parities(r)) = Parities(EightSums(r))
    BY EightOfSums
  <2> QED BY <1>8, <1>10, <1>12, <2>1 DEF sht30_crc8
<1>14. PICK v : v = FirstInverted(u)
  OBVIOUS
<1>15. \A k \in 1 .. 16 : v[k] = (IF k <= 8 THEN u[k] + 1 ELSE u[k]) /\ v[k] \in Nat
  BY <1>14 DEF FirstInverted
<1>16. /\ v[1] \in Nat /\ v[2] \in Nat /\ v[3] \in Nat /\ v[4] \in Nat
       /\ v[5] \in Nat /\ v[6] \in Nat /\ v[7] \in Nat /\ v[8] \in Nat
       /\ v[9] \in Nat /\ v[10] \in Nat /\ v[11] \in Nat /\ v[12] \in Nat
       /\ v[13] \in Nat /\ v[14] \in Nat /\ v[15] \in Nat /\ v[16] \in Nat
  BY <1>15
<1>17. /\ s[1] = v[1] /\ s[2] = v[2] /\ s[3] = v[3] /\ s[4] = v[4]
       /\ s[5] = v[5] /\ s[6] = v[6] /\ s[7] = v[7] /\ s[8] = v[8]
  BY <1>2, <1>5, <1>7, <1>15
<1>18. /\ b[1] = v[9] /\ b[2] = v[10] /\ b[3] = v[11] /\ b[4] = v[12]
       /\ b[5] = v[13] /\ b[6] = v[14] /\ b[7] = v[15] /\ b[8] = v[16]
  BY <1>3, <1>15
<1>19. /\ t[1] = v[3] + v[5] + v[6]
       /\ t[2] = v[1] + v[4] + v[6] + v[7]
       /\ t[3] = v[1] + v[2] + v[5] + v[7] + v[8]
       /\ t[4] = v[1] + v[2] + v[5] + v[8]
       /\ t[5] = v[1] + v[2] + v[5]
       /\ t[6] = v[2] + v[3] + v[6]
       /\ t[7] = v[1] + v[3] + v[4] + v[7]
       /\ t[8] = v[2] + v[4] + v[5] + v[8]
  BY <1>9, <1>17 DEF EightSums
<1>20. /\ r[1] = v[3] + v[5] + v[6] + v[9]
       /\ r[2] = v[1] + v[4] + v[6] + v[7] + v[10]
       /\ r[3] = v[1] + v[2] + v[5] + v[7] + v[8] + v[11]
       /\ r[4] = v[1] + v[2] + v[5] + v[8] + v[12]
       /\ r[5] = v[1] + v[2] + v[5] + v[13]
       /\ r[6] = v[2] + v[3] + v[6] + v[14]
       /\ r[7] = v[1] + v[3] + v[4] + v[7] + v[15]
       /\ r[8] = v[2] + v[4] + v[5] + v[8] + v[16]
  BY <1>11, <1>18, <1>19
<1>21. /\ (r[3] + r[5] + r[6]) % 2 = (v[2] + v[3] + v[6] + v[7] + v[8] + v[11] + v[13] + v[14]) % 2
       /\ (r[1] + r[4] + r[6] + r[7]) % 2 = (v[3] + v[4] + v[7] + v[8] + v[9] + v[12] + v[14] + v[15]) % 2
       /\ (r[1] + r[2] + r[5] + r[7] + r[8]) % 2 = (v[1] + v[4] + v[5] + v[8] + v[9] + v[10] + v[13] + v[15] + v[16]) % 2
       /\ (r[1] + r[2] + r[5] + r[8]) % 2 = (v[3] + v[5] + v[7] + v[8] + v[9] + v[10] + v[13] + v[16]) % 2
       /\ (r[1] + r[2] + r[5]) % 2 = (v[2] + v[3] + v[4] + v[7] + v[9] + v[10] + v[13]) % 2
       /\ (r[2] + r[3] + r[6]) % 2 = (v[3] + v[4] + v[5] + v[8] + v[10] + v[11] + v[14]) % 2
       /\ (r[1] + r[3] + r[4] + r[7]) % 2 = (v[1] + v[4] + v[5] + v[6] + v[9] + v[11] + v[12] + v[15]) % 2
       /\ (r[2] + r[4] + r[5] + r[8]) % 2 = (v[1] + v[2] + v[5] + v[6] + v[7] + v[10] + v[12] + v[13] + v[16]) % 2
  BY <1>15, <1>20, TwiceEightOf
<1>22. PICK x, y : x = Parities(EightSums(r)) /\ y = Parities(CheckSums(v))
  OBVIOUS
<1>23. x = [j \in 1 .. 8 |-> x[j]] /\ y = [j \in 1 .. 8 |-> y[j]]
  BY <1>22 DEF Parities
<1>24. /\ x[1] = (r[3] + r[5] + r[6]) % 2
       /\ x[2] = (r[1] + r[4] + r[6] + r[7]) % 2
       /\ x[3] = (r[1] + r[2] + r[5] + r[7] + r[8]) % 2
       /\ x[4] = (r[1] + r[2] + r[5] + r[8]) % 2
       /\ x[5] = (r[1] + r[2] + r[5]) % 2
       /\ x[6] = (r[2] + r[3] + r[6]) % 2
       /\ x[7] = (r[1] + r[3] + r[4] + r[7]) % 2
       /\ x[8] = (r[2] + r[4] + r[5] + r[8]) % 2
  <2>1. EightParities(x, r)
    BY <1>22, EightParity
  <2> QED BY <2>1, Zenon DEF EightParities
<1>25. /\ y[1] = (v[2] + v[3] + v[6] + v[7] + v[8] + v[11] + v[13] + v[14]) % 2
       /\ y[2] = (v[3] + v[4] + v[7] + v[8] + v[9] + v[12] + v[14] + v[15]) % 2
       /\ y[3] = (v[1] + v[4] + v[5] + v[8] + v[9] + v[10] + v[13] + v[15] + v[16]) % 2
       /\ y[4] = (v[3] + v[5] + v[7] + v[8] + v[9] + v[10] + v[13] + v[16]) % 2
       /\ y[5] = (v[2] + v[3] + v[4] + v[7] + v[9] + v[10] + v[13]) % 2
       /\ y[6] = (v[3] + v[4] + v[5] + v[8] + v[10] + v[11] + v[14]) % 2
       /\ y[7] = (v[1] + v[4] + v[5] + v[6] + v[9] + v[11] + v[12] + v[15]) % 2
       /\ y[8] = (v[1] + v[2] + v[5] + v[6] + v[7] + v[10] + v[12] + v[13] + v[16]) % 2
  <2>1. CheckParities(y, v)
    BY <1>22, CheckParity
  <2> QED BY <2>1, Zenon DEF CheckParities
<1>26. /\ x[1] = y[1] /\ x[2] = y[2] /\ x[3] = y[3] /\ x[4] = y[4]
       /\ x[5] = y[5] /\ x[6] = y[6] /\ x[7] = y[7] /\ x[8] = y[8]
  BY <1>21, <1>24, <1>25, Zenon
<1>27. x = y
  BY <1>23, <1>26, SameByte
<1> QED BY <1>13, <1>14, <1>22, <1>27

-----------------------------------------------------------------------------
(* The sensor's checksum. *)

In(P, k) == IF k \in P THEN 1 ELSE 0

\* One more number to count.
LEMMA CountOne ==
  ASSUME NEW P, NEW n \in Nat
  PROVE  /\ Cardinality(P \cap (1 .. n + 1)) = Cardinality(P \cap (1 .. n)) + In(P, n + 1)
         /\ Cardinality(P \cap (1 .. n)) \in Nat
<1>1. IsFiniteSet(1 .. n)
  BY FS_Interval
<1>2. PICK Q : Q = P \cap (1 .. n)
  OBVIOUS
<1>3. IsFiniteSet(Q) /\ Cardinality(Q) \in Nat
  BY <1>1, <1>2, FS_Subset, FS_CardinalityType
<1>4. n + 1 \notin Q
  BY <1>2
<1>5. CASE n + 1 \in P
  <2>1. P \cap (1 .. n + 1) = Q \cup {n + 1}
    BY <1>2, <1>5
  <2>2. Cardinality(Q \cup {n + 1}) = Cardinality(Q) + 1
    BY <1>3, <1>4, FS_AddElement
  <2> QED BY <1>2, <1>3, <1>5, <2>1, <2>2 DEF In
<1>6. CASE n + 1 \notin P
  <2>1. P \cap (1 .. n + 1) = Q
    BY <1>2, <1>6
  <2> QED BY <1>2, <1>3, <1>6, <2>1 DEF In
<1> QED BY <1>5, <1>6

\* All that are counted.
LEMMA CountSixteen ==
  ASSUME NEW P \in SUBSET (1 .. 16)
  PROVE  Cardinality(P) = In(P, 1) + In(P, 2) + In(P, 3) + In(P, 4) +
                          In(P, 5) + In(P, 6) + In(P, 7) + In(P, 8) +
                          In(P, 9) + In(P, 10) + In(P, 11) + In(P, 12) +
                          In(P, 13) + In(P, 14) + In(P, 15) + In(P, 16)
<1> DEFINE C(n) == Cardinality(P \cap (1 .. n))
<1>1. ASSUME NEW n \in Nat PROVE C(n + 1) = C(n) + In(P, n + 1) /\ C(n) \in Nat
  BY CountOne
<1>2. C(0) = 0
  <2>1. P \cap (1 .. 0) = {}
    OBVIOUS
  <2> QED BY <2>1, FS_EmptySet
<1> HIDE DEF C
<1>3. C(1) = C(0) + In(P, 1) /\ C(0) \in Nat
  BY <1>1, 0 + 1 = 1
<1>4. C(2) = C(1) + In(P, 2) /\ C(1) \in Nat
  BY <1>1, 1 + 1 = 2
<1>5. C(3) = C(2) + In(P, 3) /\ C(2) \in Nat
  BY <1>1, 2 + 1 = 3
<1>6. C(4) = C(3) + In(P, 4) /\ C(3) \in Nat
  BY <1>1, 3 + 1 = 4
<1>7. C(5) = C(4) + In(P, 5) /\ C(4) \in Nat
  BY <1>1, 4 + 1 = 5
<1>8. C(6) = C(5) + In(P, 6) /\ C(5) \in Nat
  BY <1>1, 5 + 1 = 6
<1>9. C(7) = C(6) + In(P, 7) /\ C(6) \in Nat
  BY <1>1, 6 + 1 = 7
<1>10. C(8) = C(7) + In(P, 8) /\ C(7) \in Nat
  BY <1>1, 7 + 1 = 8
<1>11. C(9) = C(8) + In(P, 9) /\ C(8) \in Nat
  BY <1>1, 8 + 1 = 9
<1>12. C(10) = C(9) + In(P, 10) /\ C(9) \in Nat
  BY <1>1, 9 + 1 = 10
<1>13. C(11) = C(10) + In(P, 11) /\ C(10) \in Nat
  BY <1>1, 10 + 1 = 11
<1>14. C(12) = C(11) + In(P, 12) /\ C(11) \in Nat
  BY <1>1, 11 + 1 = 12
<1>15. C(13) = C(12) + In(P, 13) /\ C(12) \in Nat
  BY <1>1, 12 + 1 = 13
<1>16. C(14) = C(13) + In(P, 14) /\ C(13) \in Nat
  BY <1>1, 13 + 1 = 14
<1>17. C(15) = C(14) + In(P, 15) /\ C(14) \in Nat
  BY <1>1, 14 + 1 = 15
<1>18. C(16) = C(15) + In(P, 16) /\ C(15) \in Nat
  BY <1>1, 15 + 1 = 16
<1>19. /\ In(P, 1) \in Nat /\ In(P, 2) \in Nat /\ In(P, 3) \in Nat /\ In(P, 4) \in Nat
       /\ In(P, 5) \in Nat /\ In(P, 6) \in Nat /\ In(P, 7) \in Nat /\ In(P, 8) \in Nat
       /\ In(P, 9) \in Nat /\ In(P, 10) \in Nat /\ In(P, 11) \in Nat /\ In(P, 12) \in Nat
       /\ In(P, 13) \in Nat /\ In(P, 14) \in Nat /\ In(P, 15) \in Nat /\ In(P, 16) \in Nat
  BY DEF In
<1>20. C(16) = In(P, 1) + In(P, 2) + In(P, 3) + In(P, 4) +
               In(P, 5) + In(P, 6) + In(P, 7) + In(P, 8) +
               In(P, 9) + In(P, 10) + In(P, 11) + In(P, 12) +
               In(P, 13) + In(P, 14) + In(P, 15) + In(P, 16)
  BY <1>2, <1>3, <1>4, <1>5, <1>6, <1>7, <1>8, <1>9, <1>10, <1>11, <1>12, <1>13, <1>14, <1>15, <1>16, <1>17, <1>18, <1>19
<1>21. P \cap (1 .. 16) = P
  OBVIOUS
<1> QED BY <1>20, <1>21 DEF C

\* The powers whose remainders have a one in column j.
Column(j) == {k \in 1 .. 16 : REMAINDERS[k][j] = 1}

\* A number from 1 to 16.
LEMMA OneToSixteen ==
  ASSUME NEW k \in 1 .. 16
  PROVE  \/ k = 1 \/ k = 2 \/ k = 3 \/ k = 4
         \/ k = 5 \/ k = 6 \/ k = 7 \/ k = 8
         \/ k = 9 \/ k = 10 \/ k = 11 \/ k = 12
         \/ k = 13 \/ k = 14 \/ k = 15 \/ k = 16
OBVIOUS

\* The table, by columns.
LEMMA Columns ==
  /\ Column(1) = {2, 3, 6, 7, 8, 11, 13, 14}
  /\ Column(2) = {3, 4, 7, 8, 9, 12, 14, 15}
  /\ Column(3) = {1, 4, 5, 8, 9, 10, 13, 15, 16}
  /\ Column(4) = {3, 5, 7, 8, 9, 10, 13, 16}
  /\ Column(5) = {2, 3, 4, 7, 9, 10, 13}
  /\ Column(6) = {3, 4, 5, 8, 10, 11, 14}
  /\ Column(7) = {1, 4, 5, 6, 9, 11, 12, 15}
  /\ Column(8) = {1, 2, 5, 6, 7, 10, 12, 13, 16}
<1>1. /\ REMAINDERS[1] = <<0, 0, 1, 0, 0, 0, 1, 1>>
      /\ REMAINDERS[2] = <<1, 0, 0, 0, 1, 0, 0, 1>>
      /\ REMAINDERS[3] = <<1, 1, 0, 1, 1, 1, 0, 0>>
      /\ REMAINDERS[4] = <<0, 1, 1, 0, 1, 1, 1, 0>>
      /\ REMAINDERS[5] = <<0, 0, 1, 1, 0, 1, 1, 1>>
      /\ REMAINDERS[6] = <<1, 0, 0, 0, 0, 0, 1, 1>>
      /\ REMAINDERS[7] = <<1, 1, 0, 1, 1, 0, 0, 1>>
      /\ REMAINDERS[8] = <<1, 1, 1, 1, 0, 1, 0, 0>>
      /\ REMAINDERS[9] = <<0, 1, 1, 1, 1, 0, 1, 0>>
      /\ REMAINDERS[10] = <<0, 0, 1, 1, 1, 1, 0, 1>>
      /\ REMAINDERS[11] = <<1, 0, 0, 0, 0, 1, 1, 0>>
      /\ REMAINDERS[12] = <<0, 1, 0, 0, 0, 0, 1, 1>>
      /\ REMAINDERS[13] = <<1, 0, 1, 1, 1, 0, 0, 1>>
      /\ REMAINDERS[14] = <<1, 1, 0, 0, 0, 1, 0, 0>>
      /\ REMAINDERS[15] = <<0, 1, 1, 0, 0, 0, 1, 0>>
      /\ REMAINDERS[16] = <<0, 0, 1, 1, 0, 0, 0, 1>>
  BY DEF REMAINDERS
<1>2. Column(1) = {2, 3, 6, 7, 8, 11, 13, 14}
  <2>1. /\ REMAINDERS[1][1] = 0 /\ REMAINDERS[2][1] = 1 /\ REMAINDERS[3][1] = 1 /\ REMAINDERS[4][1] = 0
        /\ REMAINDERS[5][1] = 0 /\ REMAINDERS[6][1] = 1 /\ REMAINDERS[7][1] = 1 /\ REMAINDERS[8][1] = 1
        /\ REMAINDERS[9][1] = 0 /\ REMAINDERS[10][1] = 0 /\ REMAINDERS[11][1] = 1 /\ REMAINDERS[12][1] = 0
        /\ REMAINDERS[13][1] = 1 /\ REMAINDERS[14][1] = 1 /\ REMAINDERS[15][1] = 0 /\ REMAINDERS[16][1] = 0
    BY <1>1
  <2>2. \A k \in 1 .. 16 : REMAINDERS[k][1] = 1 <=> k \in {2, 3, 6, 7, 8, 11, 13, 14}
    BY <2>1, OneToSixteen
  <2>3. {2, 3, 6, 7, 8, 11, 13, 14} \subseteq 1 .. 16
    OBVIOUS
  <2> QED BY <2>2, <2>3 DEF Column
<1>3. Column(2) = {3, 4, 7, 8, 9, 12, 14, 15}
  <2>1. /\ REMAINDERS[1][2] = 0 /\ REMAINDERS[2][2] = 0 /\ REMAINDERS[3][2] = 1 /\ REMAINDERS[4][2] = 1
        /\ REMAINDERS[5][2] = 0 /\ REMAINDERS[6][2] = 0 /\ REMAINDERS[7][2] = 1 /\ REMAINDERS[8][2] = 1
        /\ REMAINDERS[9][2] = 1 /\ REMAINDERS[10][2] = 0 /\ REMAINDERS[11][2] = 0 /\ REMAINDERS[12][2] = 1
        /\ REMAINDERS[13][2] = 0 /\ REMAINDERS[14][2] = 1 /\ REMAINDERS[15][2] = 1 /\ REMAINDERS[16][2] = 0
    BY <1>1
  <2>2. \A k \in 1 .. 16 : REMAINDERS[k][2] = 1 <=> k \in {3, 4, 7, 8, 9, 12, 14, 15}
    BY <2>1, OneToSixteen
  <2>3. {3, 4, 7, 8, 9, 12, 14, 15} \subseteq 1 .. 16
    OBVIOUS
  <2> QED BY <2>2, <2>3 DEF Column
<1>4. Column(3) = {1, 4, 5, 8, 9, 10, 13, 15, 16}
  <2>1. /\ REMAINDERS[1][3] = 1 /\ REMAINDERS[2][3] = 0 /\ REMAINDERS[3][3] = 0 /\ REMAINDERS[4][3] = 1
        /\ REMAINDERS[5][3] = 1 /\ REMAINDERS[6][3] = 0 /\ REMAINDERS[7][3] = 0 /\ REMAINDERS[8][3] = 1
        /\ REMAINDERS[9][3] = 1 /\ REMAINDERS[10][3] = 1 /\ REMAINDERS[11][3] = 0 /\ REMAINDERS[12][3] = 0
        /\ REMAINDERS[13][3] = 1 /\ REMAINDERS[14][3] = 0 /\ REMAINDERS[15][3] = 1 /\ REMAINDERS[16][3] = 1
    BY <1>1
  <2>2. \A k \in 1 .. 16 : REMAINDERS[k][3] = 1 <=> k \in {1, 4, 5, 8, 9, 10, 13, 15, 16}
    BY <2>1, OneToSixteen
  <2>3. {1, 4, 5, 8, 9, 10, 13, 15, 16} \subseteq 1 .. 16
    OBVIOUS
  <2> QED BY <2>2, <2>3 DEF Column
<1>5. Column(4) = {3, 5, 7, 8, 9, 10, 13, 16}
  <2>1. /\ REMAINDERS[1][4] = 0 /\ REMAINDERS[2][4] = 0 /\ REMAINDERS[3][4] = 1 /\ REMAINDERS[4][4] = 0
        /\ REMAINDERS[5][4] = 1 /\ REMAINDERS[6][4] = 0 /\ REMAINDERS[7][4] = 1 /\ REMAINDERS[8][4] = 1
        /\ REMAINDERS[9][4] = 1 /\ REMAINDERS[10][4] = 1 /\ REMAINDERS[11][4] = 0 /\ REMAINDERS[12][4] = 0
        /\ REMAINDERS[13][4] = 1 /\ REMAINDERS[14][4] = 0 /\ REMAINDERS[15][4] = 0 /\ REMAINDERS[16][4] = 1
    BY <1>1
  <2>2. \A k \in 1 .. 16 : REMAINDERS[k][4] = 1 <=> k \in {3, 5, 7, 8, 9, 10, 13, 16}
    BY <2>1, OneToSixteen
  <2>3. {3, 5, 7, 8, 9, 10, 13, 16} \subseteq 1 .. 16
    OBVIOUS
  <2> QED BY <2>2, <2>3 DEF Column
<1>6. Column(5) = {2, 3, 4, 7, 9, 10, 13}
  <2>1. /\ REMAINDERS[1][5] = 0 /\ REMAINDERS[2][5] = 1 /\ REMAINDERS[3][5] = 1 /\ REMAINDERS[4][5] = 1
        /\ REMAINDERS[5][5] = 0 /\ REMAINDERS[6][5] = 0 /\ REMAINDERS[7][5] = 1 /\ REMAINDERS[8][5] = 0
        /\ REMAINDERS[9][5] = 1 /\ REMAINDERS[10][5] = 1 /\ REMAINDERS[11][5] = 0 /\ REMAINDERS[12][5] = 0
        /\ REMAINDERS[13][5] = 1 /\ REMAINDERS[14][5] = 0 /\ REMAINDERS[15][5] = 0 /\ REMAINDERS[16][5] = 0
    BY <1>1
  <2>2. \A k \in 1 .. 16 : REMAINDERS[k][5] = 1 <=> k \in {2, 3, 4, 7, 9, 10, 13}
    BY <2>1, OneToSixteen
  <2>3. {2, 3, 4, 7, 9, 10, 13} \subseteq 1 .. 16
    OBVIOUS
  <2> QED BY <2>2, <2>3 DEF Column
<1>7. Column(6) = {3, 4, 5, 8, 10, 11, 14}
  <2>1. /\ REMAINDERS[1][6] = 0 /\ REMAINDERS[2][6] = 0 /\ REMAINDERS[3][6] = 1 /\ REMAINDERS[4][6] = 1
        /\ REMAINDERS[5][6] = 1 /\ REMAINDERS[6][6] = 0 /\ REMAINDERS[7][6] = 0 /\ REMAINDERS[8][6] = 1
        /\ REMAINDERS[9][6] = 0 /\ REMAINDERS[10][6] = 1 /\ REMAINDERS[11][6] = 1 /\ REMAINDERS[12][6] = 0
        /\ REMAINDERS[13][6] = 0 /\ REMAINDERS[14][6] = 1 /\ REMAINDERS[15][6] = 0 /\ REMAINDERS[16][6] = 0
    BY <1>1
  <2>2. \A k \in 1 .. 16 : REMAINDERS[k][6] = 1 <=> k \in {3, 4, 5, 8, 10, 11, 14}
    BY <2>1, OneToSixteen
  <2>3. {3, 4, 5, 8, 10, 11, 14} \subseteq 1 .. 16
    OBVIOUS
  <2> QED BY <2>2, <2>3 DEF Column
<1>8. Column(7) = {1, 4, 5, 6, 9, 11, 12, 15}
  <2>1. /\ REMAINDERS[1][7] = 1 /\ REMAINDERS[2][7] = 0 /\ REMAINDERS[3][7] = 0 /\ REMAINDERS[4][7] = 1
        /\ REMAINDERS[5][7] = 1 /\ REMAINDERS[6][7] = 1 /\ REMAINDERS[7][7] = 0 /\ REMAINDERS[8][7] = 0
        /\ REMAINDERS[9][7] = 1 /\ REMAINDERS[10][7] = 0 /\ REMAINDERS[11][7] = 1 /\ REMAINDERS[12][7] = 1
        /\ REMAINDERS[13][7] = 0 /\ REMAINDERS[14][7] = 0 /\ REMAINDERS[15][7] = 1 /\ REMAINDERS[16][7] = 0
    BY <1>1
  <2>2. \A k \in 1 .. 16 : REMAINDERS[k][7] = 1 <=> k \in {1, 4, 5, 6, 9, 11, 12, 15}
    BY <2>1, OneToSixteen
  <2>3. {1, 4, 5, 6, 9, 11, 12, 15} \subseteq 1 .. 16
    OBVIOUS
  <2> QED BY <2>2, <2>3 DEF Column
<1>9. Column(8) = {1, 2, 5, 6, 7, 10, 12, 13, 16}
  <2>1. /\ REMAINDERS[1][8] = 1 /\ REMAINDERS[2][8] = 1 /\ REMAINDERS[3][8] = 0 /\ REMAINDERS[4][8] = 0
        /\ REMAINDERS[5][8] = 1 /\ REMAINDERS[6][8] = 1 /\ REMAINDERS[7][8] = 1 /\ REMAINDERS[8][8] = 0
        /\ REMAINDERS[9][8] = 0 /\ REMAINDERS[10][8] = 1 /\ REMAINDERS[11][8] = 0 /\ REMAINDERS[12][8] = 1
        /\ REMAINDERS[13][8] = 1 /\ REMAINDERS[14][8] = 0 /\ REMAINDERS[15][8] = 0 /\ REMAINDERS[16][8] = 1
    BY <1>1
  <2>2. \A k \in 1 .. 16 : REMAINDERS[k][8] = 1 <=> k \in {1, 2, 5, 6, 7, 10, 12, 13, 16}
    BY <2>1, OneToSixteen
  <2>3. {1, 2, 5, 6, 7, 10, 12, 13, 16} \subseteq 1 .. 16
    OBVIOUS
  <2> QED BY <2>2, <2>3 DEF Column
<1> QED BY <1>2, <1>3, <1>4, <1>5, <1>6, <1>7, <1>8, <1>9

\* An even number does not change a parity.
LEMMA PlusEven ==
  ASSUME NEW x \in Nat, NEW y \in Nat
  PROVE  (x + 2 * y) % 2 = x % 2
OBVIOUS

\* SensorCrc, as parities.
LEMMA SensorSums ==
  ASSUME NEW w \in [1 .. 16 -> Bit]
  PROVE  SensorCrc(w) = Parities(CheckSums(FirstInverted(w)))
<1>1. PICK v : v = FirstInverted(w)
  OBVIOUS
<1>2. PICK ones : ones = {k \in 1 .. 16 : w[k] = IF k <= 8 THEN 0 ELSE 1}
  OBVIOUS
<1>3. ASSUME NEW k \in 1 .. 8
      PROVE  In(ones, k) \in Nat /\ w[k] \in Nat /\ v[k] = In(ones, k) + 2 * w[k]
  <2>1. w[k] \in {0, 1} /\ v[k] = w[k] + 1 /\ (k \in ones <=> w[k] = 0)
    BY <1>1, <1>2 DEF Bit, FirstInverted
  <2> QED BY <2>1 DEF In
<1>4. ASSUME NEW k \in 9 .. 16
      PROVE  In(ones, k) \in Nat /\ v[k] = In(ones, k)
  <2>1. w[k] \in {0, 1} /\ v[k] = w[k] /\ (k \in ones <=> w[k] = 1)
    BY <1>1, <1>2 DEF Bit, FirstInverted
  <2> QED BY <2>1 DEF In
<1>5. /\ In(ones, 1) \in Nat /\ w[1] \in Nat /\ v[1] = In(ones, 1) + 2 * w[1]
      /\ In(ones, 2) \in Nat /\ w[2] \in Nat /\ v[2] = In(ones, 2) + 2 * w[2]
      /\ In(ones, 3) \in Nat /\ w[3] \in Nat /\ v[3] = In(ones, 3) + 2 * w[3]
      /\ In(ones, 4) \in Nat /\ w[4] \in Nat /\ v[4] = In(ones, 4) + 2 * w[4]
      /\ In(ones, 5) \in Nat /\ w[5] \in Nat /\ v[5] = In(ones, 5) + 2 * w[5]
      /\ In(ones, 6) \in Nat /\ w[6] \in Nat /\ v[6] = In(ones, 6) + 2 * w[6]
      /\ In(ones, 7) \in Nat /\ w[7] \in Nat /\ v[7] = In(ones, 7) + 2 * w[7]
      /\ In(ones, 8) \in Nat /\ w[8] \in Nat /\ v[8] = In(ones, 8) + 2 * w[8]
  BY <1>3
<1>6. /\ In(ones, 9) \in Nat /\ v[9] = In(ones, 9)
      /\ In(ones, 10) \in Nat /\ v[10] = In(ones, 10)
      /\ In(ones, 11) \in Nat /\ v[11] = In(ones, 11)
      /\ In(ones, 12) \in Nat /\ v[12] = In(ones, 12)
      /\ In(ones, 13) \in Nat /\ v[13] = In(ones, 13)
      /\ In(ones, 14) \in Nat /\ v[14] = In(ones, 14)
      /\ In(ones, 15) \in Nat /\ v[15] = In(ones, 15)
      /\ In(ones, 16) \in Nat /\ v[16] = In(ones, 16)
  BY <1>4
<1>7. PICK x, y : x = SensorCrc(w) /\ y = Parities(CheckSums(v))
  OBVIOUS
<1>8. y = [j \in 1 .. 8 |-> y[j]]
  BY <1>7 DEF Parities
<1>9. /\ y[1] = (v[2] + v[3] + v[6] + v[7] + v[8] + v[11] + v[13] + v[14]) % 2
      /\ y[2] = (v[3] + v[4] + v[7] + v[8] + v[9] + v[12] + v[14] + v[15]) % 2
      /\ y[3] = (v[1] + v[4] + v[5] + v[8] + v[9] + v[10] + v[13] + v[15] + v[16]) % 2
      /\ y[4] = (v[3] + v[5] + v[7] + v[8] + v[9] + v[10] + v[13] + v[16]) % 2
      /\ y[5] = (v[2] + v[3] + v[4] + v[7] + v[9] + v[10] + v[13]) % 2
      /\ y[6] = (v[3] + v[4] + v[5] + v[8] + v[10] + v[11] + v[14]) % 2
      /\ y[7] = (v[1] + v[4] + v[5] + v[6] + v[9] + v[11] + v[12] + v[15]) % 2
      /\ y[8] = (v[1] + v[2] + v[5] + v[6] + v[7] + v[10] + v[12] + v[13] + v[16]) % 2
  <2>1. CheckParities(y, v)
    BY <1>7, CheckParity
  <2> QED BY <2>1, Zenon DEF CheckParities
<1>10. x = [j \in 1 .. 8 |-> Cardinality(ones \cap Column(j)) % 2]
  <2>1. \A j \in 1 .. 8 : {k \in ones : REMAINDERS[k][j] = 1} = ones \cap Column(j)
    BY <1>2 DEF Column
  <2> QED BY <1>2, <1>7, <2>1 DEF SensorCrc
<1>11. x[1] = y[1]
  <2>1. PICK P \in SUBSET (1 .. 16) : P = ones \cap Column(1)
    BY <1>2
  <2>2. P = ones \cap {2, 3, 6, 7, 8, 11, 13, 14}
    BY <2>1, Columns
  <2>3. /\ In(P, 1) = 0 /\ In(P, 2) = In(ones, 2) /\ In(P, 3) = In(ones, 3) /\ In(P, 4) = 0
        /\ In(P, 5) = 0 /\ In(P, 6) = In(ones, 6) /\ In(P, 7) = In(ones, 7) /\ In(P, 8) = In(ones, 8)
        /\ In(P, 9) = 0 /\ In(P, 10) = 0 /\ In(P, 11) = In(ones, 11) /\ In(P, 12) = 0
        /\ In(P, 13) = In(ones, 13) /\ In(P, 14) = In(ones, 14) /\ In(P, 15) = 0 /\ In(P, 16) = 0
    BY <2>2 DEF In
  <2>4. PICK i \in Nat : i = In(ones, 2) + In(ones, 3) + In(ones, 6) + In(ones, 7) + In(ones, 8) +
                             In(ones, 11) + In(ones, 13) + In(ones, 14)
    BY <1>5, <1>6
  <2>5. Cardinality(P) = i
    BY <1>5, <1>6, <2>3, <2>4, CountSixteen
  <2>6. PICK h \in Nat : h = w[2] + w[3] + w[6] + w[7] + w[8]
    BY <1>5
  <2>7. v[2] + v[3] + v[6] + v[7] + v[8] + v[11] + v[13] + v[14] = i + 2 * h
    <3>1. PICK l \in Nat : l = In(ones, 2) + In(ones, 3) + In(ones, 6) + In(ones, 7) + In(ones, 8)
      BY <1>5
    <3>2. v[2] + v[3] + v[6] + v[7] + v[8] = l + 2 * h
      BY <1>5, <2>6, <3>1
    <3>3. i = l + In(ones, 11) + In(ones, 13) + In(ones, 14)
      BY <2>4, <3>1, Zenon
    <3>4. v[2] + v[3] + v[6] + v[7] + v[8] + v[11] + v[13] + v[14] = (l + 2 * h) + In(ones, 11) + In(ones, 13) + In(ones, 14)
      BY <1>6, <3>2, Zenon
    <3> QED BY <1>6, <3>3, <3>4
  <2>8. y[1] = i % 2
    BY <1>9, <2>7, PlusEven
  <2> QED BY <1>10, <2>1, <2>5, <2>8
<1>12. x[2] = y[2]
  <2>1. PICK P \in SUBSET (1 .. 16) : P = ones \cap Column(2)
    BY <1>2
  <2>2. P = ones \cap {3, 4, 7, 8, 9, 12, 14, 15}
    BY <2>1, Columns
  <2>3. /\ In(P, 1) = 0 /\ In(P, 2) = 0 /\ In(P, 3) = In(ones, 3) /\ In(P, 4) = In(ones, 4)
        /\ In(P, 5) = 0 /\ In(P, 6) = 0 /\ In(P, 7) = In(ones, 7) /\ In(P, 8) = In(ones, 8)
        /\ In(P, 9) = In(ones, 9) /\ In(P, 10) = 0 /\ In(P, 11) = 0 /\ In(P, 12) = In(ones, 12)
        /\ In(P, 13) = 0 /\ In(P, 14) = In(ones, 14) /\ In(P, 15) = In(ones, 15) /\ In(P, 16) = 0
    BY <2>2 DEF In
  <2>4. PICK i \in Nat : i = In(ones, 3) + In(ones, 4) + In(ones, 7) + In(ones, 8) + In(ones, 9) +
                             In(ones, 12) + In(ones, 14) + In(ones, 15)
    BY <1>5, <1>6
  <2>5. Cardinality(P) = i
    BY <1>5, <1>6, <2>3, <2>4, CountSixteen
  <2>6. PICK h \in Nat : h = w[3] + w[4] + w[7] + w[8]
    BY <1>5
  <2>7. v[3] + v[4] + v[7] + v[8] + v[9] + v[12] + v[14] + v[15] = i + 2 * h
    <3>1. PICK l \in Nat : l = In(ones, 3) + In(ones, 4) + In(ones, 7) + In(ones, 8)
      BY <1>5
    <3>2. v[3] + v[4] + v[7] + v[8] = l + 2 * h
      BY <1>5, <2>6, <3>1
    <3>3. i = l + In(ones, 9) + In(ones, 12) + In(ones, 14) + In(ones, 15)
      BY <2>4, <3>1, Zenon
    <3>4. v[3] + v[4] + v[7] + v[8] + v[9] + v[12] + v[14] + v[15] = (l + 2 * h) + In(ones, 9) + In(ones, 12) + In(ones, 14) + In(ones, 15)
      BY <1>6, <3>2, Zenon
    <3> QED BY <1>6, <3>3, <3>4
  <2>8. y[2] = i % 2
    BY <1>9, <2>7, PlusEven
  <2> QED BY <1>10, <2>1, <2>5, <2>8
<1>13. x[3] = y[3]
  <2>1. PICK P \in SUBSET (1 .. 16) : P = ones \cap Column(3)
    BY <1>2
  <2>2. P = ones \cap {1, 4, 5, 8, 9, 10, 13, 15, 16}
    BY <2>1, Columns
  <2>3. /\ In(P, 1) = In(ones, 1) /\ In(P, 2) = 0 /\ In(P, 3) = 0 /\ In(P, 4) = In(ones, 4)
        /\ In(P, 5) = In(ones, 5) /\ In(P, 6) = 0 /\ In(P, 7) = 0 /\ In(P, 8) = In(ones, 8)
        /\ In(P, 9) = In(ones, 9) /\ In(P, 10) = In(ones, 10) /\ In(P, 11) = 0 /\ In(P, 12) = 0
        /\ In(P, 13) = In(ones, 13) /\ In(P, 14) = 0 /\ In(P, 15) = In(ones, 15) /\ In(P, 16) = In(ones, 16)
    BY <2>2 DEF In
  <2>4. PICK i \in Nat : i = In(ones, 1) + In(ones, 4) + In(ones, 5) + In(ones, 8) + In(ones, 9) +
                             In(ones, 10) + In(ones, 13) + In(ones, 15) + In(ones, 16)
    BY <1>5, <1>6
  <2>5. Cardinality(P) = i
    BY <1>5, <1>6, <2>3, <2>4, CountSixteen
  <2>6. PICK h \in Nat : h = w[1] + w[4] + w[5] + w[8]
    BY <1>5
  <2>7. v[1] + v[4] + v[5] + v[8] + v[9] + v[10] + v[13] + v[15] + v[16] = i + 2 * h
    <3>1. PICK l \in Nat : l = In(ones, 1) + In(ones, 4) + In(ones, 5) + In(ones, 8)
      BY <1>5
    <3>2. v[1] + v[4] + v[5] + v[8] = l + 2 * h
      BY <1>5, <2>6, <3>1
    <3>3. i = l + In(ones, 9) + In(ones, 10) + In(ones, 13) + In(ones, 15) + In(ones, 16)
      BY <2>4, <3>1, Zenon
    <3>4. v[1] + v[4] + v[5] + v[8] + v[9] + v[10] + v[13] + v[15] + v[16] = (l + 2 * h) + In(ones, 9) + In(ones, 10) + In(ones, 13) + In(ones, 15) + In(ones, 16)
      BY <1>6, <3>2, Zenon
    <3> QED BY <1>6, <3>3, <3>4
  <2>8. y[3] = i % 2
    BY <1>9, <2>7, PlusEven
  <2> QED BY <1>10, <2>1, <2>5, <2>8
<1>14. x[4] = y[4]
  <2>1. PICK P \in SUBSET (1 .. 16) : P = ones \cap Column(4)
    BY <1>2
  <2>2. P = ones \cap {3, 5, 7, 8, 9, 10, 13, 16}
    BY <2>1, Columns
  <2>3. /\ In(P, 1) = 0 /\ In(P, 2) = 0 /\ In(P, 3) = In(ones, 3) /\ In(P, 4) = 0
        /\ In(P, 5) = In(ones, 5) /\ In(P, 6) = 0 /\ In(P, 7) = In(ones, 7) /\ In(P, 8) = In(ones, 8)
        /\ In(P, 9) = In(ones, 9) /\ In(P, 10) = In(ones, 10) /\ In(P, 11) = 0 /\ In(P, 12) = 0
        /\ In(P, 13) = In(ones, 13) /\ In(P, 14) = 0 /\ In(P, 15) = 0 /\ In(P, 16) = In(ones, 16)
    BY <2>2 DEF In
  <2>4. PICK i \in Nat : i = In(ones, 3) + In(ones, 5) + In(ones, 7) + In(ones, 8) + In(ones, 9) +
                             In(ones, 10) + In(ones, 13) + In(ones, 16)
    BY <1>5, <1>6
  <2>5. Cardinality(P) = i
    BY <1>5, <1>6, <2>3, <2>4, CountSixteen
  <2>6. PICK h \in Nat : h = w[3] + w[5] + w[7] + w[8]
    BY <1>5
  <2>7. v[3] + v[5] + v[7] + v[8] + v[9] + v[10] + v[13] + v[16] = i + 2 * h
    <3>1. PICK l \in Nat : l = In(ones, 3) + In(ones, 5) + In(ones, 7) + In(ones, 8)
      BY <1>5
    <3>2. v[3] + v[5] + v[7] + v[8] = l + 2 * h
      BY <1>5, <2>6, <3>1
    <3>3. i = l + In(ones, 9) + In(ones, 10) + In(ones, 13) + In(ones, 16)
      BY <2>4, <3>1, Zenon
    <3>4. v[3] + v[5] + v[7] + v[8] + v[9] + v[10] + v[13] + v[16] = (l + 2 * h) + In(ones, 9) + In(ones, 10) + In(ones, 13) + In(ones, 16)
      BY <1>6, <3>2, Zenon
    <3> QED BY <1>6, <3>3, <3>4
  <2>8. y[4] = i % 2
    BY <1>9, <2>7, PlusEven
  <2> QED BY <1>10, <2>1, <2>5, <2>8
<1>15. x[5] = y[5]
  <2>1. PICK P \in SUBSET (1 .. 16) : P = ones \cap Column(5)
    BY <1>2
  <2>2. P = ones \cap {2, 3, 4, 7, 9, 10, 13}
    BY <2>1, Columns
  <2>3. /\ In(P, 1) = 0 /\ In(P, 2) = In(ones, 2) /\ In(P, 3) = In(ones, 3) /\ In(P, 4) = In(ones, 4)
        /\ In(P, 5) = 0 /\ In(P, 6) = 0 /\ In(P, 7) = In(ones, 7) /\ In(P, 8) = 0
        /\ In(P, 9) = In(ones, 9) /\ In(P, 10) = In(ones, 10) /\ In(P, 11) = 0 /\ In(P, 12) = 0
        /\ In(P, 13) = In(ones, 13) /\ In(P, 14) = 0 /\ In(P, 15) = 0 /\ In(P, 16) = 0
    BY <2>2 DEF In
  <2>4. PICK i \in Nat : i = In(ones, 2) + In(ones, 3) + In(ones, 4) + In(ones, 7) + In(ones, 9) +
                             In(ones, 10) + In(ones, 13)
    BY <1>5, <1>6
  <2>5. Cardinality(P) = i
    BY <1>5, <1>6, <2>3, <2>4, CountSixteen
  <2>6. PICK h \in Nat : h = w[2] + w[3] + w[4] + w[7]
    BY <1>5
  <2>7. v[2] + v[3] + v[4] + v[7] + v[9] + v[10] + v[13] = i + 2 * h
    <3>1. PICK l \in Nat : l = In(ones, 2) + In(ones, 3) + In(ones, 4) + In(ones, 7)
      BY <1>5
    <3>2. v[2] + v[3] + v[4] + v[7] = l + 2 * h
      BY <1>5, <2>6, <3>1
    <3>3. i = l + In(ones, 9) + In(ones, 10) + In(ones, 13)
      BY <2>4, <3>1, Zenon
    <3>4. v[2] + v[3] + v[4] + v[7] + v[9] + v[10] + v[13] = (l + 2 * h) + In(ones, 9) + In(ones, 10) + In(ones, 13)
      BY <1>6, <3>2, Zenon
    <3> QED BY <1>6, <3>3, <3>4
  <2>8. y[5] = i % 2
    BY <1>9, <2>7, PlusEven
  <2> QED BY <1>10, <2>1, <2>5, <2>8
<1>16. x[6] = y[6]
  <2>1. PICK P \in SUBSET (1 .. 16) : P = ones \cap Column(6)
    BY <1>2
  <2>2. P = ones \cap {3, 4, 5, 8, 10, 11, 14}
    BY <2>1, Columns
  <2>3. /\ In(P, 1) = 0 /\ In(P, 2) = 0 /\ In(P, 3) = In(ones, 3) /\ In(P, 4) = In(ones, 4)
        /\ In(P, 5) = In(ones, 5) /\ In(P, 6) = 0 /\ In(P, 7) = 0 /\ In(P, 8) = In(ones, 8)
        /\ In(P, 9) = 0 /\ In(P, 10) = In(ones, 10) /\ In(P, 11) = In(ones, 11) /\ In(P, 12) = 0
        /\ In(P, 13) = 0 /\ In(P, 14) = In(ones, 14) /\ In(P, 15) = 0 /\ In(P, 16) = 0
    BY <2>2 DEF In
  <2>4. PICK i \in Nat : i = In(ones, 3) + In(ones, 4) + In(ones, 5) + In(ones, 8) + In(ones, 10) +
                             In(ones, 11) + In(ones, 14)
    BY <1>5, <1>6
  <2>5. Cardinality(P) = i
    BY <1>5, <1>6, <2>3, <2>4, CountSixteen
  <2>6. PICK h \in Nat : h = w[3] + w[4] + w[5] + w[8]
    BY <1>5
  <2>7. v[3] + v[4] + v[5] + v[8] + v[10] + v[11] + v[14] = i + 2 * h
    <3>1. PICK l \in Nat : l = In(ones, 3) + In(ones, 4) + In(ones, 5) + In(ones, 8)
      BY <1>5
    <3>2. v[3] + v[4] + v[5] + v[8] = l + 2 * h
      BY <1>5, <2>6, <3>1
    <3>3. i = l + In(ones, 10) + In(ones, 11) + In(ones, 14)
      BY <2>4, <3>1, Zenon
    <3>4. v[3] + v[4] + v[5] + v[8] + v[10] + v[11] + v[14] = (l + 2 * h) + In(ones, 10) + In(ones, 11) + In(ones, 14)
      BY <1>6, <3>2, Zenon
    <3> QED BY <1>6, <3>3, <3>4
  <2>8. y[6] = i % 2
    BY <1>9, <2>7, PlusEven
  <2> QED BY <1>10, <2>1, <2>5, <2>8
<1>17. x[7] = y[7]
  <2>1. PICK P \in SUBSET (1 .. 16) : P = ones \cap Column(7)
    BY <1>2
  <2>2. P = ones \cap {1, 4, 5, 6, 9, 11, 12, 15}
    BY <2>1, Columns
  <2>3. /\ In(P, 1) = In(ones, 1) /\ In(P, 2) = 0 /\ In(P, 3) = 0 /\ In(P, 4) = In(ones, 4)
        /\ In(P, 5) = In(ones, 5) /\ In(P, 6) = In(ones, 6) /\ In(P, 7) = 0 /\ In(P, 8) = 0
        /\ In(P, 9) = In(ones, 9) /\ In(P, 10) = 0 /\ In(P, 11) = In(ones, 11) /\ In(P, 12) = In(ones, 12)
        /\ In(P, 13) = 0 /\ In(P, 14) = 0 /\ In(P, 15) = In(ones, 15) /\ In(P, 16) = 0
    BY <2>2 DEF In
  <2>4. PICK i \in Nat : i = In(ones, 1) + In(ones, 4) + In(ones, 5) + In(ones, 6) + In(ones, 9) +
                             In(ones, 11) + In(ones, 12) + In(ones, 15)
    BY <1>5, <1>6
  <2>5. Cardinality(P) = i
    BY <1>5, <1>6, <2>3, <2>4, CountSixteen
  <2>6. PICK h \in Nat : h = w[1] + w[4] + w[5] + w[6]
    BY <1>5
  <2>7. v[1] + v[4] + v[5] + v[6] + v[9] + v[11] + v[12] + v[15] = i + 2 * h
    <3>1. PICK l \in Nat : l = In(ones, 1) + In(ones, 4) + In(ones, 5) + In(ones, 6)
      BY <1>5
    <3>2. v[1] + v[4] + v[5] + v[6] = l + 2 * h
      BY <1>5, <2>6, <3>1
    <3>3. i = l + In(ones, 9) + In(ones, 11) + In(ones, 12) + In(ones, 15)
      BY <2>4, <3>1, Zenon
    <3>4. v[1] + v[4] + v[5] + v[6] + v[9] + v[11] + v[12] + v[15] = (l + 2 * h) + In(ones, 9) + In(ones, 11) + In(ones, 12) + In(ones, 15)
      BY <1>6, <3>2, Zenon
    <3> QED BY <1>6, <3>3, <3>4
  <2>8. y[7] = i % 2
    BY <1>9, <2>7, PlusEven
  <2> QED BY <1>10, <2>1, <2>5, <2>8
<1>18. x[8] = y[8]
  <2>1. PICK P \in SUBSET (1 .. 16) : P = ones \cap Column(8)
    BY <1>2
  <2>2. P = ones \cap {1, 2, 5, 6, 7, 10, 12, 13, 16}
    BY <2>1, Columns
  <2>3. /\ In(P, 1) = In(ones, 1) /\ In(P, 2) = In(ones, 2) /\ In(P, 3) = 0 /\ In(P, 4) = 0
        /\ In(P, 5) = In(ones, 5) /\ In(P, 6) = In(ones, 6) /\ In(P, 7) = In(ones, 7) /\ In(P, 8) = 0
        /\ In(P, 9) = 0 /\ In(P, 10) = In(ones, 10) /\ In(P, 11) = 0 /\ In(P, 12) = In(ones, 12)
        /\ In(P, 13) = In(ones, 13) /\ In(P, 14) = 0 /\ In(P, 15) = 0 /\ In(P, 16) = In(ones, 16)
    BY <2>2 DEF In
  <2>4. PICK i \in Nat : i = In(ones, 1) + In(ones, 2) + In(ones, 5) + In(ones, 6) + In(ones, 7) +
                             In(ones, 10) + In(ones, 12) + In(ones, 13) + In(ones, 16)
    BY <1>5, <1>6
  <2>5. Cardinality(P) = i
    BY <1>5, <1>6, <2>3, <2>4, CountSixteen
  <2>6. PICK h \in Nat : h = w[1] + w[2] + w[5] + w[6] + w[7]
    BY <1>5
  <2>7. v[1] + v[2] + v[5] + v[6] + v[7] + v[10] + v[12] + v[13] + v[16] = i + 2 * h
    <3>1. PICK l \in Nat : l = In(ones, 1) + In(ones, 2) + In(ones, 5) + In(ones, 6) + In(ones, 7)
      BY <1>5
    <3>2. v[1] + v[2] + v[5] + v[6] + v[7] = l + 2 * h
      BY <1>5, <2>6, <3>1
    <3>3. i = l + In(ones, 10) + In(ones, 12) + In(ones, 13) + In(ones, 16)
      BY <2>4, <3>1, Zenon
    <3>4. v[1] + v[2] + v[5] + v[6] + v[7] + v[10] + v[12] + v[13] + v[16] = (l + 2 * h) + In(ones, 10) + In(ones, 12) + In(ones, 13) + In(ones, 16)
      BY <1>6, <3>2, Zenon
    <3> QED BY <1>6, <3>3, <3>4
  <2>8. y[8] = i % 2
    BY <1>9, <2>7, PlusEven
  <2> QED BY <1>10, <2>1, <2>5, <2>8
<1>19. x = [j \in 1 .. 8 |-> x[j]]
  BY <1>10
<1> QED BY <1>1, <1>7, <1>8, <1>11, <1>12, <1>13, <1>14, <1>15, <1>16, <1>17, <1>18, <1>19, SameByte

\* sht30_crc8, with its eight shifts for each byte, computes the checksum the sensor
\* puts behind a word, the remainder of a division, for every word.
THEOREM SameChecksum ==
  ASSUME NEW w \in [1 .. 16 -> {0, 1}]
  PROVE  sht30_crc8(w) = SensorCrc(w)
<1>1. w \in [1 .. 16 -> Bit] /\ w \in [1 .. 16 -> Nat]
  BY DEF Bit
<1>2. w = [k \in 1 .. 16 |-> w[k] % 2]
  <2>1. \A k \in 1 .. 16 : w[k] = w[k] % 2
    BY <1>1 DEF Bit
  <2> QED BY <1>1, <2>1
<1> QED BY <1>1, <1>2, CrcOfSums, SensorSums

-----------------------------------------------------------------------------
(* What the checksum notices. *)

\* A disturbance of a word and its checksum, bits 1 to 24, that is not noticed.
Unnoticed(e) ==
  /\ (e[2] + e[3] + e[6] + e[7] + e[8] + e[11] + e[13] + e[14] + e[17]) % 2 = 0
  /\ (e[3] + e[4] + e[7] + e[8] + e[9] + e[12] + e[14] + e[15] + e[18]) % 2 = 0
  /\ (e[1] + e[4] + e[5] + e[8] + e[9] + e[10] + e[13] + e[15] + e[16] + e[19]) % 2 = 0
  /\ (e[3] + e[5] + e[7] + e[8] + e[9] + e[10] + e[13] + e[16] + e[20]) % 2 = 0
  /\ (e[2] + e[3] + e[4] + e[7] + e[9] + e[10] + e[13] + e[21]) % 2 = 0
  /\ (e[3] + e[4] + e[5] + e[8] + e[10] + e[11] + e[14] + e[22]) % 2 = 0
  /\ (e[1] + e[4] + e[5] + e[6] + e[9] + e[11] + e[12] + e[15] + e[23]) % 2 = 0
  /\ (e[1] + e[2] + e[5] + e[6] + e[7] + e[10] + e[12] + e[13] + e[16] + e[24]) % 2 = 0

\* It has at least four bits, and they lie more than eight apart.
Few(e) ==
  e[1] + e[2] + e[3] + e[4] + e[5] + e[6] + e[7] + e[8] + e[9] + e[10] + e[11] + e[12] +
  e[13] + e[14] + e[15] + e[16] + e[17] + e[18] + e[19] + e[20] + e[21] + e[22] + e[23] + e[24] <= 3
Burst(e) == \E b \in Int : \A k \in 1 .. 24 : e[k] = 0 \/ (b <= k /\ k <= b + 7)

\* So a disturbance of few bits, or of neighbouring ones, is noticed.
LEMMA Noticed ==
  ASSUME NEW e, \A k \in 1 .. 24 : e[k] \in Bit, Unnoticed(e), Few(e) \/ Burst(e)
  PROVE  \A k \in 1 .. 24 : e[k] = 0
<1>1. PICK e1 \in Bit : e1 = e[1]
  OBVIOUS
<1>2. PICK e2 \in Bit : e2 = e[2]
  OBVIOUS
<1>3. PICK e3 \in Bit : e3 = e[3]
  OBVIOUS
<1>4. PICK e4 \in Bit : e4 = e[4]
  OBVIOUS
<1>5. PICK e5 \in Bit : e5 = e[5]
  OBVIOUS
<1>6. PICK e6 \in Bit : e6 = e[6]
  OBVIOUS
<1>7. PICK e7 \in Bit : e7 = e[7]
  OBVIOUS
<1>8. PICK e8 \in Bit : e8 = e[8]
  OBVIOUS
<1>9. PICK e9 \in Bit : e9 = e[9]
  OBVIOUS
<1>10. PICK e10 \in Bit : e10 = e[10]
  OBVIOUS
<1>11. PICK e11 \in Bit : e11 = e[11]
  OBVIOUS
<1>12. PICK e12 \in Bit : e12 = e[12]
  OBVIOUS
<1>13. PICK e13 \in Bit : e13 = e[13]
  OBVIOUS
<1>14. PICK e14 \in Bit : e14 = e[14]
  OBVIOUS
<1>15. PICK e15 \in Bit : e15 = e[15]
  OBVIOUS
<1>16. PICK e16 \in Bit : e16 = e[16]
  OBVIOUS
<1>17. PICK e17 \in Bit : e17 = e[17]
  OBVIOUS
<1>18. PICK e18 \in Bit : e18 = e[18]
  OBVIOUS
<1>19. PICK e19 \in Bit : e19 = e[19]
  OBVIOUS
<1>20. PICK e20 \in Bit : e20 = e[20]
  OBVIOUS
<1>21. PICK e21 \in Bit : e21 = e[21]
  OBVIOUS
<1>22. PICK e22 \in Bit : e22 = e[22]
  OBVIOUS
<1>23. PICK e23 \in Bit : e23 = e[23]
  OBVIOUS
<1>24. PICK e24 \in Bit : e24 = e[24]
  OBVIOUS
<1>25. /\ (e2 + e3 + e6 + e7 + e8 + e11 + e13 + e14 + e17) % 2 = 0
       /\ (e3 + e4 + e7 + e8 + e9 + e12 + e14 + e15 + e18) % 2 = 0
       /\ (e1 + e4 + e5 + e8 + e9 + e10 + e13 + e15 + e16 + e19) % 2 = 0
       /\ (e3 + e5 + e7 + e8 + e9 + e10 + e13 + e16 + e20) % 2 = 0
       /\ (e2 + e3 + e4 + e7 + e9 + e10 + e13 + e21) % 2 = 0
       /\ (e3 + e4 + e5 + e8 + e10 + e11 + e14 + e22) % 2 = 0
       /\ (e1 + e4 + e5 + e6 + e9 + e11 + e12 + e15 + e23) % 2 = 0
       /\ (e1 + e2 + e5 + e6 + e7 + e10 + e12 + e13 + e16 + e24) % 2 = 0
  BY <1>1, <1>2, <1>3, <1>4, <1>5, <1>6, <1>7, <1>8, <1>9, <1>10, <1>11, <1>12,
     <1>13, <1>14, <1>15, <1>16, <1>17, <1>18, <1>19, <1>20, <1>21, <1>22, <1>23, <1>24, Zenon DEF Unnoticed
<1>26. /\ e1 = 0 /\ e2 = 0 /\ e3 = 0 /\ e4 = 0 /\ e5 = 0 /\ e6 = 0 /\ e7 = 0 /\ e8 = 0
       /\ e9 = 0 /\ e10 = 0 /\ e11 = 0 /\ e12 = 0 /\ e13 = 0 /\ e14 = 0 /\ e15 = 0 /\ e16 = 0
       /\ e17 = 0 /\ e18 = 0 /\ e19 = 0 /\ e20 = 0 /\ e21 = 0 /\ e22 = 0 /\ e23 = 0 /\ e24 = 0
  <2>1. CASE Few(e)
    <3>1. e1 + e2 + e3 + e4 + e5 + e6 + e7 + e8 + e9 + e10 + e11 + e12 +
            e13 + e14 + e15 + e16 + e17 + e18 + e19 + e20 + e21 + e22 + e23 + e24 <= 3
      BY <1>1, <1>2, <1>3, <1>4, <1>5, <1>6, <1>7, <1>8, <1>9, <1>10, <1>11, <1>12,
         <1>13, <1>14, <1>15, <1>16, <1>17, <1>18, <1>19, <1>20, <1>21, <1>22, <1>23, <1>24, <2>1, Zenon DEF Few
    <3> QED BY <1>25, <3>1, SMT DEF Bit
  <2>2. CASE Burst(e)
    <3>1. PICK b \in Int : \A k \in 1 .. 24 : e[k] = 0 \/ (b <= k /\ k <= b + 7)
      BY <2>2 DEF Burst
    <3>2. /\ (e[1] = 0 \/ (b <= 1 /\ 1 <= b + 7)) /\ (e[2] = 0 \/ (b <= 2 /\ 2 <= b + 7)) /\ (e[3] = 0 \/ (b <= 3 /\ 3 <= b + 7))
          /\ (e[4] = 0 \/ (b <= 4 /\ 4 <= b + 7)) /\ (e[5] = 0 \/ (b <= 5 /\ 5 <= b + 7)) /\ (e[6] = 0 \/ (b <= 6 /\ 6 <= b + 7))
          /\ (e[7] = 0 \/ (b <= 7 /\ 7 <= b + 7)) /\ (e[8] = 0 \/ (b <= 8 /\ 8 <= b + 7)) /\ (e[9] = 0 \/ (b <= 9 /\ 9 <= b + 7))
          /\ (e[10] = 0 \/ (b <= 10 /\ 10 <= b + 7)) /\ (e[11] = 0 \/ (b <= 11 /\ 11 <= b + 7)) /\ (e[12] = 0 \/ (b <= 12 /\ 12 <= b + 7))
          /\ (e[13] = 0 \/ (b <= 13 /\ 13 <= b + 7)) /\ (e[14] = 0 \/ (b <= 14 /\ 14 <= b + 7)) /\ (e[15] = 0 \/ (b <= 15 /\ 15 <= b + 7))
          /\ (e[16] = 0 \/ (b <= 16 /\ 16 <= b + 7)) /\ (e[17] = 0 \/ (b <= 17 /\ 17 <= b + 7)) /\ (e[18] = 0 \/ (b <= 18 /\ 18 <= b + 7))
          /\ (e[19] = 0 \/ (b <= 19 /\ 19 <= b + 7)) /\ (e[20] = 0 \/ (b <= 20 /\ 20 <= b + 7)) /\ (e[21] = 0 \/ (b <= 21 /\ 21 <= b + 7))
          /\ (e[22] = 0 \/ (b <= 22 /\ 22 <= b + 7)) /\ (e[23] = 0 \/ (b <= 23 /\ 23 <= b + 7)) /\ (e[24] = 0 \/ (b <= 24 /\ 24 <= b + 7))
      BY <3>1
    <3>3. /\ (e1 = 0 \/ (b <= 1 /\ 1 <= b + 7)) /\ (e2 = 0 \/ (b <= 2 /\ 2 <= b + 7)) /\ (e3 = 0 \/ (b <= 3 /\ 3 <= b + 7))
          /\ (e4 = 0 \/ (b <= 4 /\ 4 <= b + 7)) /\ (e5 = 0 \/ (b <= 5 /\ 5 <= b + 7)) /\ (e6 = 0 \/ (b <= 6 /\ 6 <= b + 7))
          /\ (e7 = 0 \/ (b <= 7 /\ 7 <= b + 7)) /\ (e8 = 0 \/ (b <= 8 /\ 8 <= b + 7)) /\ (e9 = 0 \/ (b <= 9 /\ 9 <= b + 7))
          /\ (e10 = 0 \/ (b <= 10 /\ 10 <= b + 7)) /\ (e11 = 0 \/ (b <= 11 /\ 11 <= b + 7)) /\ (e12 = 0 \/ (b <= 12 /\ 12 <= b + 7))
          /\ (e13 = 0 \/ (b <= 13 /\ 13 <= b + 7)) /\ (e14 = 0 \/ (b <= 14 /\ 14 <= b + 7)) /\ (e15 = 0 \/ (b <= 15 /\ 15 <= b + 7))
          /\ (e16 = 0 \/ (b <= 16 /\ 16 <= b + 7)) /\ (e17 = 0 \/ (b <= 17 /\ 17 <= b + 7)) /\ (e18 = 0 \/ (b <= 18 /\ 18 <= b + 7))
          /\ (e19 = 0 \/ (b <= 19 /\ 19 <= b + 7)) /\ (e20 = 0 \/ (b <= 20 /\ 20 <= b + 7)) /\ (e21 = 0 \/ (b <= 21 /\ 21 <= b + 7))
          /\ (e22 = 0 \/ (b <= 22 /\ 22 <= b + 7)) /\ (e23 = 0 \/ (b <= 23 /\ 23 <= b + 7)) /\ (e24 = 0 \/ (b <= 24 /\ 24 <= b + 7))
      BY <1>1, <1>2, <1>3, <1>4, <1>5, <1>6, <1>7, <1>8, <1>9, <1>10, <1>11, <1>12,
         <1>13, <1>14, <1>15, <1>16, <1>17, <1>18, <1>19, <1>20, <1>21, <1>22, <1>23, <1>24, <3>2
    <3> QED BY <1>25, <3>3, SMT DEF Bit
  <2> QED BY <2>1, <2>2
<1>27. /\ e[1] = 0 /\ e[2] = 0 /\ e[3] = 0 /\ e[4] = 0 /\ e[5] = 0 /\ e[6] = 0 /\ e[7] = 0 /\ e[8] = 0
       /\ e[9] = 0 /\ e[10] = 0 /\ e[11] = 0 /\ e[12] = 0 /\ e[13] = 0 /\ e[14] = 0 /\ e[15] = 0 /\ e[16] = 0
       /\ e[17] = 0 /\ e[18] = 0 /\ e[19] = 0 /\ e[20] = 0 /\ e[21] = 0 /\ e[22] = 0 /\ e[23] = 0 /\ e[24] = 0
  BY <1>1, <1>2, <1>3, <1>4, <1>5, <1>6, <1>7, <1>8, <1>9, <1>10, <1>11, <1>12,
     <1>13, <1>14, <1>15, <1>16, <1>17, <1>18, <1>19, <1>20, <1>21, <1>22, <1>23, <1>24, <1>26, Zenon
<1>28. ASSUME NEW k \in 1 .. 24 PROVE \/ k = 1 \/ k = 2 \/ k = 3 \/ k = 4 \/ k = 5 \/ k = 6 \/ k = 7 \/ k = 8
                                  \/ k = 9 \/ k = 10 \/ k = 11 \/ k = 12 \/ k = 13 \/ k = 14 \/ k = 15 \/ k = 16
                                  \/ k = 17 \/ k = 18 \/ k = 19 \/ k = 20 \/ k = 21 \/ k = 22 \/ k = 23 \/ k = 24
  OBVIOUS
<1> QED BY <1>27, <1>28

\* A disturbance of a word and its checksum that sht30_crc8 accepts is unnoticed.
LEMMA Accepted ==
  ASSUME NEW w \in [1 .. 16 -> Bit], NEW e, \A k \in 1 .. 24 : e[k] \in Bit,
         sht30_crc8([k \in 1 .. 16 |-> (w[k] + e[k]) % 2])
           = [j \in 1 .. 8 |-> (SensorCrc(w)[j] + e[16 + j]) % 2]
  PROVE  Unnoticed(e)
<1>1. \A k \in 1 .. 16 : w[k] \in Nat
  BY DEF Bit
<1>2. \A k \in 1 .. 24 : e[k] \in Nat
  BY DEF Bit
<1>3. PICK u \in [1 .. 16 -> Nat] : u = [k \in 1 .. 16 |-> w[k] + e[k]]
  <2>1. [k \in 1 .. 16 |-> w[k] + e[k]] \in [1 .. 16 -> Nat]
    BY <1>1, <1>2
  <2> QED BY <2>1
<1>4. PICK x, y : x = FirstInverted(u) /\ y = FirstInverted(w)
  OBVIOUS
<1>5. \A k \in 1 .. 16 : y[k] \in Nat /\ x[k] = y[k] + e[k]
  <2> SUFFICES ASSUME NEW k \in 1 .. 16 PROVE y[k] \in Nat /\ x[k] = y[k] + e[k]
    OBVIOUS
  <2>1. PICK a, b \in Nat : a = w[k] /\ b = e[k]
    BY <1>1, <1>2
  <2>2. u[k] = a + b
    BY <1>3, <2>1
  <2>3. y[k] = (IF k <= 8 THEN a + 1 ELSE a) /\ x[k] = (IF k <= 8 THEN (a + b) + 1 ELSE a + b)
    BY <1>4, <2>1, <2>2 DEF FirstInverted
  <2> QED BY <2>1, <2>3
<1>6. PICK p, q : p = Parities(CheckSums(x)) /\ q = Parities(CheckSums(y))
  OBVIOUS
<1>7. sht30_crc8([k \in 1 .. 16 |-> (w[k] + e[k]) % 2]) = p
  <2>1. PICK f : f = [k \in 1 .. 16 |-> u[k] % 2]
    OBVIOUS
  <2>2. f = [k \in 1 .. 16 |-> (w[k] + e[k]) % 2]
    BY <1>3, <2>1
  <2>3. sht30_crc8(f) = p
    BY <1>4, <1>6, <2>1, CrcOfSums
  <2> QED BY <2>2, <2>3
<1>8. SensorCrc(w) = q
  BY <1>4, <1>6, SensorSums
<1>9. \A j \in 1 .. 8 : p[j] = (q[j] + e[16 + j]) % 2
  BY <1>7, <1>8
<1>10. /\ p[1] = (q[1] + e[17]) % 2 /\ e[17] \in Nat
       /\ p[2] = (q[2] + e[18]) % 2 /\ e[18] \in Nat
       /\ p[3] = (q[3] + e[19]) % 2 /\ e[19] \in Nat
       /\ p[4] = (q[4] + e[20]) % 2 /\ e[20] \in Nat
       /\ p[5] = (q[5] + e[21]) % 2 /\ e[21] \in Nat
       /\ p[6] = (q[6] + e[22]) % 2 /\ e[22] \in Nat
       /\ p[7] = (q[7] + e[23]) % 2 /\ e[23] \in Nat
       /\ p[8] = (q[8] + e[24]) % 2 /\ e[24] \in Nat
  BY <1>2, <1>9
<1>11. /\ x[1] = y[1] + e[1] /\ x[2] = y[2] + e[2] /\ x[3] = y[3] + e[3] /\ x[4] = y[4] + e[4]
       /\ x[5] = y[5] + e[5] /\ x[6] = y[6] + e[6] /\ x[7] = y[7] + e[7] /\ x[8] = y[8] + e[8]
       /\ x[9] = y[9] + e[9] /\ x[10] = y[10] + e[10] /\ x[11] = y[11] + e[11] /\ x[12] = y[12] + e[12]
       /\ x[13] = y[13] + e[13] /\ x[14] = y[14] + e[14] /\ x[15] = y[15] + e[15] /\ x[16] = y[16] + e[16]
  BY <1>5
<1>12. /\ y[1] \in Nat /\ y[2] \in Nat /\ y[3] \in Nat /\ y[4] \in Nat
       /\ y[5] \in Nat /\ y[6] \in Nat /\ y[7] \in Nat /\ y[8] \in Nat
       /\ y[9] \in Nat /\ y[10] \in Nat /\ y[11] \in Nat /\ y[12] \in Nat
       /\ y[13] \in Nat /\ y[14] \in Nat /\ y[15] \in Nat /\ y[16] \in Nat
  BY <1>5
<1>13. /\ e[1] \in Nat /\ e[2] \in Nat /\ e[3] \in Nat /\ e[4] \in Nat
       /\ e[5] \in Nat /\ e[6] \in Nat /\ e[7] \in Nat /\ e[8] \in Nat
       /\ e[9] \in Nat /\ e[10] \in Nat /\ e[11] \in Nat /\ e[12] \in Nat
       /\ e[13] \in Nat /\ e[14] \in Nat /\ e[15] \in Nat /\ e[16] \in Nat
  BY <1>2
<1>14. /\ p[1] = (x[2] + x[3] + x[6] + x[7] + x[8] + x[11] + x[13] + x[14]) % 2
       /\ p[2] = (x[3] + x[4] + x[7] + x[8] + x[9] + x[12] + x[14] + x[15]) % 2
       /\ p[3] = (x[1] + x[4] + x[5] + x[8] + x[9] + x[10] + x[13] + x[15] + x[16]) % 2
       /\ p[4] = (x[3] + x[5] + x[7] + x[8] + x[9] + x[10] + x[13] + x[16]) % 2
       /\ p[5] = (x[2] + x[3] + x[4] + x[7] + x[9] + x[10] + x[13]) % 2
       /\ p[6] = (x[3] + x[4] + x[5] + x[8] + x[10] + x[11] + x[14]) % 2
       /\ p[7] = (x[1] + x[4] + x[5] + x[6] + x[9] + x[11] + x[12] + x[15]) % 2
       /\ p[8] = (x[1] + x[2] + x[5] + x[6] + x[7] + x[10] + x[12] + x[13] + x[16]) % 2
  <2>1. CheckParities(p, x)
    BY <1>6, CheckParity
  <2> QED BY <2>1, Zenon DEF CheckParities
<1>15. /\ q[1] = (y[2] + y[3] + y[6] + y[7] + y[8] + y[11] + y[13] + y[14]) % 2
       /\ q[2] = (y[3] + y[4] + y[7] + y[8] + y[9] + y[12] + y[14] + y[15]) % 2
       /\ q[3] = (y[1] + y[4] + y[5] + y[8] + y[9] + y[10] + y[13] + y[15] + y[16]) % 2
       /\ q[4] = (y[3] + y[5] + y[7] + y[8] + y[9] + y[10] + y[13] + y[16]) % 2
       /\ q[5] = (y[2] + y[3] + y[4] + y[7] + y[9] + y[10] + y[13]) % 2
       /\ q[6] = (y[3] + y[4] + y[5] + y[8] + y[10] + y[11] + y[14]) % 2
       /\ q[7] = (y[1] + y[4] + y[5] + y[6] + y[9] + y[11] + y[12] + y[15]) % 2
       /\ q[8] = (y[1] + y[2] + y[5] + y[6] + y[7] + y[10] + y[12] + y[13] + y[16]) % 2
  <2>1. CheckParities(q, y)
    BY <1>6, CheckParity
  <2> QED BY <2>1, Zenon DEF CheckParities
<1>16. (e[2] + e[3] + e[6] + e[7] + e[8] + e[11] + e[13] + e[14] + e[17]) % 2 = 0
  <2>1. PICK A \in Nat : A = y[2] + y[3] + y[6] + y[7] + y[8] + y[11] + y[13] + y[14]
    BY <1>12
  <2>2. PICK B \in Nat : B = e[2] + e[3] + e[6] + e[7] + e[8] + e[11] + e[13] + e[14]
    BY <1>13
  <2>3. x[2] + x[3] + x[6] + x[7] + x[8] + x[11] + x[13] + x[14] = A + B
    BY <1>11, <1>12, <1>13, <2>1, <2>2
  <2>4. p[1] = (A + B) % 2 /\ q[1] = A % 2
    BY <1>14, <1>15, <2>1, <2>3, Zenon
  <2>5. PICK d \in Nat : d = e[17]
    BY <1>10
  <2>6. (A + B) % 2 = ((A % 2) + d) % 2
    BY <1>10, <2>4, <2>5
  <2>7. (B + d) % 2 = 0
    BY <2>6
  <2> QED BY <2>2, <2>5, <2>7
<1>17. (e[3] + e[4] + e[7] + e[8] + e[9] + e[12] + e[14] + e[15] + e[18]) % 2 = 0
  <2>1. PICK A \in Nat : A = y[3] + y[4] + y[7] + y[8] + y[9] + y[12] + y[14] + y[15]
    BY <1>12
  <2>2. PICK B \in Nat : B = e[3] + e[4] + e[7] + e[8] + e[9] + e[12] + e[14] + e[15]
    BY <1>13
  <2>3. x[3] + x[4] + x[7] + x[8] + x[9] + x[12] + x[14] + x[15] = A + B
    BY <1>11, <1>12, <1>13, <2>1, <2>2
  <2>4. p[2] = (A + B) % 2 /\ q[2] = A % 2
    BY <1>14, <1>15, <2>1, <2>3, Zenon
  <2>5. PICK d \in Nat : d = e[18]
    BY <1>10
  <2>6. (A + B) % 2 = ((A % 2) + d) % 2
    BY <1>10, <2>4, <2>5
  <2>7. (B + d) % 2 = 0
    BY <2>6
  <2> QED BY <2>2, <2>5, <2>7
<1>18. (e[1] + e[4] + e[5] + e[8] + e[9] + e[10] + e[13] + e[15] + e[16] + e[19]) % 2 = 0
  <2>1. PICK A \in Nat : A = y[1] + y[4] + y[5] + y[8] + y[9] + y[10] + y[13] + y[15] + y[16]
    BY <1>12
  <2>2. PICK B \in Nat : B = e[1] + e[4] + e[5] + e[8] + e[9] + e[10] + e[13] + e[15] + e[16]
    BY <1>13
  <2>3. x[1] + x[4] + x[5] + x[8] + x[9] + x[10] + x[13] + x[15] + x[16] = A + B
    BY <1>11, <1>12, <1>13, <2>1, <2>2
  <2>4. p[3] = (A + B) % 2 /\ q[3] = A % 2
    BY <1>14, <1>15, <2>1, <2>3, Zenon
  <2>5. PICK d \in Nat : d = e[19]
    BY <1>10
  <2>6. (A + B) % 2 = ((A % 2) + d) % 2
    BY <1>10, <2>4, <2>5
  <2>7. (B + d) % 2 = 0
    BY <2>6
  <2> QED BY <2>2, <2>5, <2>7
<1>19. (e[3] + e[5] + e[7] + e[8] + e[9] + e[10] + e[13] + e[16] + e[20]) % 2 = 0
  <2>1. PICK A \in Nat : A = y[3] + y[5] + y[7] + y[8] + y[9] + y[10] + y[13] + y[16]
    BY <1>12
  <2>2. PICK B \in Nat : B = e[3] + e[5] + e[7] + e[8] + e[9] + e[10] + e[13] + e[16]
    BY <1>13
  <2>3. x[3] + x[5] + x[7] + x[8] + x[9] + x[10] + x[13] + x[16] = A + B
    BY <1>11, <1>12, <1>13, <2>1, <2>2
  <2>4. p[4] = (A + B) % 2 /\ q[4] = A % 2
    BY <1>14, <1>15, <2>1, <2>3, Zenon
  <2>5. PICK d \in Nat : d = e[20]
    BY <1>10
  <2>6. (A + B) % 2 = ((A % 2) + d) % 2
    BY <1>10, <2>4, <2>5
  <2>7. (B + d) % 2 = 0
    BY <2>6
  <2> QED BY <2>2, <2>5, <2>7
<1>20. (e[2] + e[3] + e[4] + e[7] + e[9] + e[10] + e[13] + e[21]) % 2 = 0
  <2>1. PICK A \in Nat : A = y[2] + y[3] + y[4] + y[7] + y[9] + y[10] + y[13]
    BY <1>12
  <2>2. PICK B \in Nat : B = e[2] + e[3] + e[4] + e[7] + e[9] + e[10] + e[13]
    BY <1>13
  <2>3. x[2] + x[3] + x[4] + x[7] + x[9] + x[10] + x[13] = A + B
    BY <1>11, <1>12, <1>13, <2>1, <2>2
  <2>4. p[5] = (A + B) % 2 /\ q[5] = A % 2
    BY <1>14, <1>15, <2>1, <2>3, Zenon
  <2>5. PICK d \in Nat : d = e[21]
    BY <1>10
  <2>6. (A + B) % 2 = ((A % 2) + d) % 2
    BY <1>10, <2>4, <2>5
  <2>7. (B + d) % 2 = 0
    BY <2>6
  <2> QED BY <2>2, <2>5, <2>7
<1>21. (e[3] + e[4] + e[5] + e[8] + e[10] + e[11] + e[14] + e[22]) % 2 = 0
  <2>1. PICK A \in Nat : A = y[3] + y[4] + y[5] + y[8] + y[10] + y[11] + y[14]
    BY <1>12
  <2>2. PICK B \in Nat : B = e[3] + e[4] + e[5] + e[8] + e[10] + e[11] + e[14]
    BY <1>13
  <2>3. x[3] + x[4] + x[5] + x[8] + x[10] + x[11] + x[14] = A + B
    BY <1>11, <1>12, <1>13, <2>1, <2>2
  <2>4. p[6] = (A + B) % 2 /\ q[6] = A % 2
    BY <1>14, <1>15, <2>1, <2>3, Zenon
  <2>5. PICK d \in Nat : d = e[22]
    BY <1>10
  <2>6. (A + B) % 2 = ((A % 2) + d) % 2
    BY <1>10, <2>4, <2>5
  <2>7. (B + d) % 2 = 0
    BY <2>6
  <2> QED BY <2>2, <2>5, <2>7
<1>22. (e[1] + e[4] + e[5] + e[6] + e[9] + e[11] + e[12] + e[15] + e[23]) % 2 = 0
  <2>1. PICK A \in Nat : A = y[1] + y[4] + y[5] + y[6] + y[9] + y[11] + y[12] + y[15]
    BY <1>12
  <2>2. PICK B \in Nat : B = e[1] + e[4] + e[5] + e[6] + e[9] + e[11] + e[12] + e[15]
    BY <1>13
  <2>3. x[1] + x[4] + x[5] + x[6] + x[9] + x[11] + x[12] + x[15] = A + B
    BY <1>11, <1>12, <1>13, <2>1, <2>2
  <2>4. p[7] = (A + B) % 2 /\ q[7] = A % 2
    BY <1>14, <1>15, <2>1, <2>3, Zenon
  <2>5. PICK d \in Nat : d = e[23]
    BY <1>10
  <2>6. (A + B) % 2 = ((A % 2) + d) % 2
    BY <1>10, <2>4, <2>5
  <2>7. (B + d) % 2 = 0
    BY <2>6
  <2> QED BY <2>2, <2>5, <2>7
<1>23. (e[1] + e[2] + e[5] + e[6] + e[7] + e[10] + e[12] + e[13] + e[16] + e[24]) % 2 = 0
  <2>1. PICK A \in Nat : A = y[1] + y[2] + y[5] + y[6] + y[7] + y[10] + y[12] + y[13] + y[16]
    BY <1>12
  <2>2. PICK B \in Nat : B = e[1] + e[2] + e[5] + e[6] + e[7] + e[10] + e[12] + e[13] + e[16]
    BY <1>13
  <2>3. x[1] + x[2] + x[5] + x[6] + x[7] + x[10] + x[12] + x[13] + x[16] = A + B
    BY <1>11, <1>12, <1>13, <2>1, <2>2
  <2>4. p[8] = (A + B) % 2 /\ q[8] = A % 2
    BY <1>14, <1>15, <2>1, <2>3, Zenon
  <2>5. PICK d \in Nat : d = e[24]
    BY <1>10
  <2>6. (A + B) % 2 = ((A % 2) + d) % 2
    BY <1>10, <2>4, <2>5
  <2>7. (B + d) % 2 = 0
    BY <2>6
  <2> QED BY <2>2, <2>5, <2>7
<1> QED BY <1>16, <1>17, <1>18, <1>19, <1>20, <1>21, <1>22, <1>23 DEF Unnoticed

\* So a word that is accepted is the one that was sent.
LEMMA AcceptedWord ==
  ASSUME NEW w \in [1 .. 16 -> Bit], NEW e, \A k \in 1 .. 24 : e[k] \in Bit, Few(e) \/ Burst(e),
         NEW f, f = [k \in 1 .. 16 |-> (w[k] + e[k]) % 2],
         sht30_crc8(f) = [j \in 1 .. 8 |-> (SensorCrc(w)[j] + e[16 + j]) % 2]
  PROVE  f = w
<1>1. Unnoticed(e)
  BY Accepted
<1>2. \A k \in 1 .. 24 : e[k] = 0
  BY <1>1, Noticed
<1>3. \A k \in 1 .. 16 : (w[k] + e[k]) % 2 = w[k]
  <2>1. \A k \in 1 .. 16 : e[k] = 0 /\ w[k] \in {0, 1}
    BY <1>2 DEF Bit
  <2> QED BY <2>1
<1> QED BY <1>3

\* The bits of a set, from n on.
LEMMA CountHalf ==
  ASSUME NEW P \in SUBSET (1 .. 48), Cardinality(P) <= 3, NEW n \in {0, 24}
  PROVE  In(P, n + 1) + In(P, n + 2) + In(P, n + 3) + In(P, n + 4) + In(P, n + 5) + In(P, n + 6) +
           In(P, n + 7) + In(P, n + 8) + In(P, n + 9) + In(P, n + 10) + In(P, n + 11) + In(P, n + 12) +
           In(P, n + 13) + In(P, n + 14) + In(P, n + 15) + In(P, n + 16) + In(P, n + 17) + In(P, n + 18) +
           In(P, n + 19) + In(P, n + 20) + In(P, n + 21) + In(P, n + 22) + In(P, n + 23) + In(P, n + 24) <= 3
<1> DEFINE C(i) == Cardinality(P \cap (1 .. i))
<1>1. ASSUME NEW i \in Nat PROVE C(i + 1) = C(i) + In(P, i + 1) /\ C(i) \in Nat
  BY CountOne
<1>2. n \in Nat /\ n + 24 <= 48
  OBVIOUS
<1>3. C(n + 24) <= 3
  <2>1. PICK Q : Q = P \cap (1 .. n + 24)
    OBVIOUS
  <2>2. IsFiniteSet(P)
    <3>1. PICK i \in Nat : i = 48
      OBVIOUS
    <3>2. IsFiniteSet(1 .. i)
      BY FS_Interval
    <3> QED BY <3>1, <3>2, FS_Subset
  <2>3. Cardinality(Q) <= Cardinality(P) /\ Cardinality(Q) \in Nat /\ Cardinality(P) \in Nat
    <3>1. Q \subseteq P
      BY <2>1
    <3> QED BY <2>2, <3>1, FS_Subset, FS_CardinalityType
  <2> QED BY <2>1, <2>3
<1> HIDE DEF C
<1>4. C(n + 1) = C(n) + In(P, n + 1) /\ C(n) \in Nat
  BY <1>1, <1>2
<1>5. C(n + 2) = C(n + 1) + In(P, n + 2) /\ C(n + 1) \in Nat
  BY <1>1, <1>2, n + 1 \in Nat, (n + 1) + 1 = n + 2
<1>6. C(n + 3) = C(n + 2) + In(P, n + 3) /\ C(n + 2) \in Nat
  BY <1>1, <1>2, n + 2 \in Nat, (n + 2) + 1 = n + 3
<1>7. C(n + 4) = C(n + 3) + In(P, n + 4) /\ C(n + 3) \in Nat
  BY <1>1, <1>2, n + 3 \in Nat, (n + 3) + 1 = n + 4
<1>8. C(n + 5) = C(n + 4) + In(P, n + 5) /\ C(n + 4) \in Nat
  BY <1>1, <1>2, n + 4 \in Nat, (n + 4) + 1 = n + 5
<1>9. C(n + 6) = C(n + 5) + In(P, n + 6) /\ C(n + 5) \in Nat
  BY <1>1, <1>2, n + 5 \in Nat, (n + 5) + 1 = n + 6
<1>10. C(n + 7) = C(n + 6) + In(P, n + 7) /\ C(n + 6) \in Nat
  BY <1>1, <1>2, n + 6 \in Nat, (n + 6) + 1 = n + 7
<1>11. C(n + 8) = C(n + 7) + In(P, n + 8) /\ C(n + 7) \in Nat
  BY <1>1, <1>2, n + 7 \in Nat, (n + 7) + 1 = n + 8
<1>12. C(n + 9) = C(n + 8) + In(P, n + 9) /\ C(n + 8) \in Nat
  BY <1>1, <1>2, n + 8 \in Nat, (n + 8) + 1 = n + 9
<1>13. C(n + 10) = C(n + 9) + In(P, n + 10) /\ C(n + 9) \in Nat
  BY <1>1, <1>2, n + 9 \in Nat, (n + 9) + 1 = n + 10
<1>14. C(n + 11) = C(n + 10) + In(P, n + 11) /\ C(n + 10) \in Nat
  BY <1>1, <1>2, n + 10 \in Nat, (n + 10) + 1 = n + 11
<1>15. C(n + 12) = C(n + 11) + In(P, n + 12) /\ C(n + 11) \in Nat
  BY <1>1, <1>2, n + 11 \in Nat, (n + 11) + 1 = n + 12
<1>16. C(n + 13) = C(n + 12) + In(P, n + 13) /\ C(n + 12) \in Nat
  BY <1>1, <1>2, n + 12 \in Nat, (n + 12) + 1 = n + 13
<1>17. C(n + 14) = C(n + 13) + In(P, n + 14) /\ C(n + 13) \in Nat
  BY <1>1, <1>2, n + 13 \in Nat, (n + 13) + 1 = n + 14
<1>18. C(n + 15) = C(n + 14) + In(P, n + 15) /\ C(n + 14) \in Nat
  BY <1>1, <1>2, n + 14 \in Nat, (n + 14) + 1 = n + 15
<1>19. C(n + 16) = C(n + 15) + In(P, n + 16) /\ C(n + 15) \in Nat
  BY <1>1, <1>2, n + 15 \in Nat, (n + 15) + 1 = n + 16
<1>20. C(n + 17) = C(n + 16) + In(P, n + 17) /\ C(n + 16) \in Nat
  BY <1>1, <1>2, n + 16 \in Nat, (n + 16) + 1 = n + 17
<1>21. C(n + 18) = C(n + 17) + In(P, n + 18) /\ C(n + 17) \in Nat
  BY <1>1, <1>2, n + 17 \in Nat, (n + 17) + 1 = n + 18
<1>22. C(n + 19) = C(n + 18) + In(P, n + 19) /\ C(n + 18) \in Nat
  BY <1>1, <1>2, n + 18 \in Nat, (n + 18) + 1 = n + 19
<1>23. C(n + 20) = C(n + 19) + In(P, n + 20) /\ C(n + 19) \in Nat
  BY <1>1, <1>2, n + 19 \in Nat, (n + 19) + 1 = n + 20
<1>24. C(n + 21) = C(n + 20) + In(P, n + 21) /\ C(n + 20) \in Nat
  BY <1>1, <1>2, n + 20 \in Nat, (n + 20) + 1 = n + 21
<1>25. C(n + 22) = C(n + 21) + In(P, n + 22) /\ C(n + 21) \in Nat
  BY <1>1, <1>2, n + 21 \in Nat, (n + 21) + 1 = n + 22
<1>26. C(n + 23) = C(n + 22) + In(P, n + 23) /\ C(n + 22) \in Nat
  BY <1>1, <1>2, n + 22 \in Nat, (n + 22) + 1 = n + 23
<1>27. C(n + 24) = C(n + 23) + In(P, n + 24) /\ C(n + 23) \in Nat
  BY <1>1, <1>2, n + 23 \in Nat, (n + 23) + 1 = n + 24
<1>28. /\ In(P, n + 1) \in Nat /\ In(P, n + 2) \in Nat /\ In(P, n + 3) \in Nat /\ In(P, n + 4) \in Nat
       /\ In(P, n + 5) \in Nat /\ In(P, n + 6) \in Nat /\ In(P, n + 7) \in Nat /\ In(P, n + 8) \in Nat
       /\ In(P, n + 9) \in Nat /\ In(P, n + 10) \in Nat /\ In(P, n + 11) \in Nat /\ In(P, n + 12) \in Nat
       /\ In(P, n + 13) \in Nat /\ In(P, n + 14) \in Nat /\ In(P, n + 15) \in Nat /\ In(P, n + 16) \in Nat
       /\ In(P, n + 17) \in Nat /\ In(P, n + 18) \in Nat /\ In(P, n + 19) \in Nat /\ In(P, n + 20) \in Nat
       /\ In(P, n + 21) \in Nat /\ In(P, n + 22) \in Nat /\ In(P, n + 23) \in Nat /\ In(P, n + 24) \in Nat
  BY DEF In
<1>29. PICK i1 \in Nat : i1 = In(P, n + 1)
  BY <1>28
<1>30. PICK i2 \in Nat : i2 = In(P, n + 2)
  BY <1>28
<1>31. PICK i3 \in Nat : i3 = In(P, n + 3)
  BY <1>28
<1>32. PICK i4 \in Nat : i4 = In(P, n + 4)
  BY <1>28
<1>33. PICK i5 \in Nat : i5 = In(P, n + 5)
  BY <1>28
<1>34. PICK i6 \in Nat : i6 = In(P, n + 6)
  BY <1>28
<1>35. PICK i7 \in Nat : i7 = In(P, n + 7)
  BY <1>28
<1>36. PICK i8 \in Nat : i8 = In(P, n + 8)
  BY <1>28
<1>37. PICK i9 \in Nat : i9 = In(P, n + 9)
  BY <1>28
<1>38. PICK i10 \in Nat : i10 = In(P, n + 10)
  BY <1>28
<1>39. PICK i11 \in Nat : i11 = In(P, n + 11)
  BY <1>28
<1>40. PICK i12 \in Nat : i12 = In(P, n + 12)
  BY <1>28
<1>41. PICK i13 \in Nat : i13 = In(P, n + 13)
  BY <1>28
<1>42. PICK i14 \in Nat : i14 = In(P, n + 14)
  BY <1>28
<1>43. PICK i15 \in Nat : i15 = In(P, n + 15)
  BY <1>28
<1>44. PICK i16 \in Nat : i16 = In(P, n + 16)
  BY <1>28
<1>45. PICK i17 \in Nat : i17 = In(P, n + 17)
  BY <1>28
<1>46. PICK i18 \in Nat : i18 = In(P, n + 18)
  BY <1>28
<1>47. PICK i19 \in Nat : i19 = In(P, n + 19)
  BY <1>28
<1>48. PICK i20 \in Nat : i20 = In(P, n + 20)
  BY <1>28
<1>49. PICK i21 \in Nat : i21 = In(P, n + 21)
  BY <1>28
<1>50. PICK i22 \in Nat : i22 = In(P, n + 22)
  BY <1>28
<1>51. PICK i23 \in Nat : i23 = In(P, n + 23)
  BY <1>28
<1>52. PICK i24 \in Nat : i24 = In(P, n + 24)
  BY <1>28
<1>53. C(n + 24) = C(n) + i1 + i2 + i3 + i4 + i5 + i6 + i7 + i8 + i9 + i10 + i11 + i12 +
         i13 + i14 + i15 + i16 + i17 + i18 + i19 + i20 + i21 + i22 + i23 + i24
  <2>1. PICK c1 : c1 = C(n + 1)
    OBVIOUS
  <2>2. PICK c2 : c2 = C(n + 2)
    OBVIOUS
  <2>3. PICK c3 : c3 = C(n + 3)
    OBVIOUS
  <2>4. PICK c4 : c4 = C(n + 4)
    OBVIOUS
  <2>5. PICK c5 : c5 = C(n + 5)
    OBVIOUS
  <2>6. PICK c6 : c6 = C(n + 6)
    OBVIOUS
  <2>7. PICK c7 : c7 = C(n + 7)
    OBVIOUS
  <2>8. PICK c8 : c8 = C(n + 8)
    OBVIOUS
  <2>9. PICK c9 : c9 = C(n + 9)
    OBVIOUS
  <2>10. PICK c10 : c10 = C(n + 10)
    OBVIOUS
  <2>11. PICK c11 : c11 = C(n + 11)
    OBVIOUS
  <2>12. PICK c12 : c12 = C(n + 12)
    OBVIOUS
  <2>13. PICK c13 : c13 = C(n + 13)
    OBVIOUS
  <2>14. PICK c14 : c14 = C(n + 14)
    OBVIOUS
  <2>15. PICK c15 : c15 = C(n + 15)
    OBVIOUS
  <2>16. PICK c16 : c16 = C(n + 16)
    OBVIOUS
  <2>17. PICK c17 : c17 = C(n + 17)
    OBVIOUS
  <2>18. PICK c18 : c18 = C(n + 18)
    OBVIOUS
  <2>19. PICK c19 : c19 = C(n + 19)
    OBVIOUS
  <2>20. PICK c20 : c20 = C(n + 20)
    OBVIOUS
  <2>21. PICK c21 : c21 = C(n + 21)
    OBVIOUS
  <2>22. PICK c22 : c22 = C(n + 22)
    OBVIOUS
  <2>23. PICK c23 : c23 = C(n + 23)
    OBVIOUS
  <2>24. PICK c24 : c24 = C(n + 24)
    OBVIOUS
  <2>25. PICK c0 \in Nat : c0 = C(n)
    BY <1>4
  <2>26. /\ c1 = c0 + i1 /\ c2 = c1 + i2 /\ c3 = c2 + i3 /\ c4 = c3 + i4 /\ c5 = c4 + i5 /\ c6 = c5 + i6
         /\ c7 = c6 + i7 /\ c8 = c7 + i8 /\ c9 = c8 + i9 /\ c10 = c9 + i10 /\ c11 = c10 + i11 /\ c12 = c11 + i12
         /\ c13 = c12 + i13 /\ c14 = c13 + i14 /\ c15 = c14 + i15 /\ c16 = c15 + i16 /\ c17 = c16 + i17 /\ c18 = c17 + i18
         /\ c19 = c18 + i19 /\ c20 = c19 + i20 /\ c21 = c20 + i21 /\ c22 = c21 + i22 /\ c23 = c22 + i23 /\ c24 = c23 + i24
    BY <1>4, <1>5, <1>6, <1>7, <1>8, <1>9, <1>10, <1>11, <1>12, <1>13, <1>14, <1>15, <1>16, <1>17,
       <1>18, <1>19, <1>20, <1>21, <1>22, <1>23, <1>24, <1>25, <1>26, <1>27, <1>29, <1>30, <1>31, <1>32,
       <1>33, <1>34, <1>35, <1>36, <1>37, <1>38, <1>39, <1>40, <1>41, <1>42, <1>43, <1>44, <1>45, <1>46,
       <1>47, <1>48, <1>49, <1>50, <1>51, <1>52, <2>1, <2>2, <2>3, <2>4, <2>5, <2>6, <2>7, <2>8,
       <2>9, <2>10, <2>11, <2>12, <2>13, <2>14, <2>15, <2>16, <2>17, <2>18, <2>19, <2>20, <2>21, <2>22,
       <2>23, <2>24, <2>25, Zenon
  <2>27. c24 = c0 + i1 + i2 + i3 + i4 + i5 + i6 + i7 + i8 + i9 + i10 + i11 + i12 +
         i13 + i14 + i15 + i16 + i17 + i18 + i19 + i20 + i21 + i22 + i23 + i24
    BY <2>26
  <2> QED BY <2>24, <2>25, <2>27, Zenon
<1>54. i1 + i2 + i3 + i4 + i5 + i6 + i7 + i8 + i9 + i10 + i11 + i12 +
         i13 + i14 + i15 + i16 + i17 + i18 + i19 + i20 + i21 + i22 + i23 + i24 <= 3
  <2>1. PICK c \in Nat : c = C(n)
    BY <1>4
  <2>2. c + i1 + i2 + i3 + i4 + i5 + i6 + i7 + i8 + i9 + i10 + i11 + i12 +
          i13 + i14 + i15 + i16 + i17 + i18 + i19 + i20 + i21 + i22 + i23 + i24 <= 3
    BY <1>3, <1>53, <2>1, Zenon
  <2> QED BY <2>2, SMT
<1> QED BY <1>29, <1>30, <1>31, <1>32, <1>33, <1>34, <1>35, <1>36, <1>37, <1>38, <1>39, <1>40,
     <1>41, <1>42, <1>43, <1>44, <1>45, <1>46, <1>47, <1>48, <1>49, <1>50, <1>51, <1>52, <1>54, Zenon

-----------------------------------------------------------------------------
(* Words and their bits. *)

\* The largest word.
LEMMA WordLimit == WORD_MAX \in Nat /\ WORD_MAX = 65535
BY DEF WORD_MAX

\* Sixteen bits are a word.
LEMMA WordOfBits ==
  ASSUME NEW b \in [1 .. 16 -> Bit]
  PROVE  Word(b) \in Words
<1>1. PICK high \in Int : high = Byte(b, 1)
  BY DEF Byte, Bit
<1>2. PICK low \in Int : low = Byte(b, 9)
  BY DEF Byte, Bit
<1>3. high >= 0 /\ high <= 255
  BY <1>1 DEF Byte, Bit
<1>4. low >= 0 /\ low <= 255
  BY <1>2 DEF Byte, Bit
<1>5. PICK m \in Nat : m = WORD_MAX
  BY WordLimit
<1>6. 256 * high + low \in Int /\ 256 * high + low >= 0 /\ 256 * high + low <= m
  <2>1. m = 65535
    BY <1>5, SMT DEF WORD_MAX
  <2> QED BY <1>3, <1>4, <2>1, SMT
<1>7. Word(b) = 256 * high + low
  BY <1>1, <1>2 DEF Word
<1> QED BY <1>5, <1>6, <1>7 DEF Words

\* The powers of two.
LEMMA Powers ==
  /\ 2 ^ 0 = 1 /\ 2 ^ 1 = 2 /\ 2 ^ 2 = 4 /\ 2 ^ 3 = 8
  /\ 2 ^ 4 = 16 /\ 2 ^ 5 = 32 /\ 2 ^ 6 = 64 /\ 2 ^ 7 = 128
  /\ 2 ^ 8 = 256 /\ 2 ^ 9 = 512 /\ 2 ^ 10 = 1024 /\ 2 ^ 11 = 2048
  /\ 2 ^ 12 = 4096 /\ 2 ^ 13 = 8192 /\ 2 ^ 14 = 16384 /\ 2 ^ 15 = 32768
BY SMT

\* Dividing once more.
LEMMA HalfAgain ==
  ASSUME NEW n \in Nat
  PROVE  /\ n \div 2 = (n \div 1) \div 2
         /\ n \div 4 = (n \div 2) \div 2
         /\ n \div 8 = (n \div 4) \div 2
         /\ n \div 16 = (n \div 8) \div 2
         /\ n \div 32 = (n \div 16) \div 2
         /\ n \div 64 = (n \div 32) \div 2
         /\ n \div 128 = (n \div 64) \div 2
         /\ n \div 256 = (n \div 128) \div 2
         /\ n \div 512 = (n \div 256) \div 2
         /\ n \div 1024 = (n \div 512) \div 2
         /\ n \div 2048 = (n \div 1024) \div 2
         /\ n \div 4096 = (n \div 2048) \div 2
         /\ n \div 8192 = (n \div 4096) \div 2
         /\ n \div 16384 = (n \div 8192) \div 2
         /\ n \div 32768 = (n \div 16384) \div 2
<1>1. n \div 2 = (n \div 1) \div 2
  BY SMT
<1>2. n \div 4 = (n \div 2) \div 2
  BY SMT
<1>3. n \div 8 = (n \div 4) \div 2
  BY SMT
<1>4. n \div 16 = (n \div 8) \div 2
  BY SMT
<1>5. n \div 32 = (n \div 16) \div 2
  BY SMT
<1>6. n \div 64 = (n \div 32) \div 2
  BY SMT
<1>7. n \div 128 = (n \div 64) \div 2
  BY SMT
<1>8. n \div 256 = (n \div 128) \div 2
  BY SMT
<1>9. n \div 512 = (n \div 256) \div 2
  BY SMT
<1>10. n \div 1024 = (n \div 512) \div 2
  BY SMT
<1>11. n \div 2048 = (n \div 1024) \div 2
  BY SMT
<1>12. n \div 4096 = (n \div 2048) \div 2
  BY SMT
<1>13. n \div 8192 = (n \div 4096) \div 2
  BY SMT
<1>14. n \div 16384 = (n \div 8192) \div 2
  BY SMT
<1>15. n \div 32768 = (n \div 16384) \div 2
  BY SMT
<1> QED BY <1>1, <1>2, <1>3, <1>4, <1>5, <1>6, <1>7, <1>8, <1>9, <1>10, <1>11, <1>12, <1>13, <1>14, <1>15

\* What dividing leaves.
LEMMA HalfAndRest ==
  ASSUME NEW x \in Nat
  PROVE  x = 2 * (x \div 2) + (x % 2)
OBVIOUS

\* The bits of a word, and the word of these bits.
LEMMA BitsOfWord ==
  ASSUME NEW n \in Words
  PROVE  Bits(n, 16) \in [1 .. 16 -> Bit] /\ Word(Bits(n, 16)) = n
<1>1. n \in Nat /\ n <= 65535
  <2>1. PICK m \in Nat : m = WORD_MAX
    BY WordLimit
  <2>2. n \in 0 .. m
    BY <2>1 DEF Words
  <2>3. n \in Nat /\ n <= m
    BY <2>2
  <2> QED BY <2>1, <2>3, WordLimit, SMT
<1>2. PICK b : b = Bits(n, 16)
  OBVIOUS
<1>3. b = [k \in 1 .. 16 |-> (n \div 2 ^ (16 - k)) % 2]
  BY <1>2 DEF Bits
<1>4. /\ b[1] = (n \div 2 ^ 15) % 2
      /\ b[2] = (n \div 2 ^ 14) % 2
      /\ b[3] = (n \div 2 ^ 13) % 2
      /\ b[4] = (n \div 2 ^ 12) % 2
      /\ b[5] = (n \div 2 ^ 11) % 2
      /\ b[6] = (n \div 2 ^ 10) % 2
      /\ b[7] = (n \div 2 ^ 9) % 2
      /\ b[8] = (n \div 2 ^ 8) % 2
      /\ b[9] = (n \div 2 ^ 7) % 2
      /\ b[10] = (n \div 2 ^ 6) % 2
      /\ b[11] = (n \div 2 ^ 5) % 2
      /\ b[12] = (n \div 2 ^ 4) % 2
      /\ b[13] = (n \div 2 ^ 3) % 2
      /\ b[14] = (n \div 2 ^ 2) % 2
      /\ b[15] = (n \div 2 ^ 1) % 2
      /\ b[16] = (n \div 2 ^ 0) % 2
  BY <1>3, SMT
<1>5. PICK q0 \in Nat : q0 = n \div 1
  BY <1>1, SMT
<1>6. PICK q1 \in Nat : q1 = n \div 2
  BY <1>1, SMT
<1>7. PICK q2 \in Nat : q2 = n \div 4
  BY <1>1, SMT
<1>8. PICK q3 \in Nat : q3 = n \div 8
  BY <1>1, SMT
<1>9. PICK q4 \in Nat : q4 = n \div 16
  BY <1>1, SMT
<1>10. PICK q5 \in Nat : q5 = n \div 32
  BY <1>1, SMT
<1>11. PICK q6 \in Nat : q6 = n \div 64
  BY <1>1, SMT
<1>12. PICK q7 \in Nat : q7 = n \div 128
  BY <1>1, SMT
<1>13. PICK q8 \in Nat : q8 = n \div 256
  BY <1>1, SMT
<1>14. PICK q9 \in Nat : q9 = n \div 512
  BY <1>1, SMT
<1>15. PICK q10 \in Nat : q10 = n \div 1024
  BY <1>1, SMT
<1>16. PICK q11 \in Nat : q11 = n \div 2048
  BY <1>1, SMT
<1>17. PICK q12 \in Nat : q12 = n \div 4096
  BY <1>1, SMT
<1>18. PICK q13 \in Nat : q13 = n \div 8192
  BY <1>1, SMT
<1>19. PICK q14 \in Nat : q14 = n \div 16384
  BY <1>1, SMT
<1>20. PICK q15 \in Nat : q15 = n \div 32768
  BY <1>1, SMT
<1>21. /\ b[1] = q15 % 2
       /\ b[2] = q14 % 2
       /\ b[3] = q13 % 2
       /\ b[4] = q12 % 2
       /\ b[5] = q11 % 2
       /\ b[6] = q10 % 2
       /\ b[7] = q9 % 2
       /\ b[8] = q8 % 2
       /\ b[9] = q7 % 2
       /\ b[10] = q6 % 2
       /\ b[11] = q5 % 2
       /\ b[12] = q4 % 2
       /\ b[13] = q3 % 2
       /\ b[14] = q2 % 2
       /\ b[15] = q1 % 2
       /\ b[16] = q0 % 2
  BY <1>4, <1>5, <1>6, <1>7, <1>8, <1>9, <1>10, <1>11, <1>12, <1>13, <1>14, <1>15, <1>16, <1>17, <1>18, <1>19, <1>20, Powers, SMT
<1>22. /\ q1 = q0 \div 2
       /\ q2 = q1 \div 2
       /\ q3 = q2 \div 2
       /\ q4 = q3 \div 2
       /\ q5 = q4 \div 2
       /\ q6 = q5 \div 2
       /\ q7 = q6 \div 2
       /\ q8 = q7 \div 2
       /\ q9 = q8 \div 2
       /\ q10 = q9 \div 2
       /\ q11 = q10 \div 2
       /\ q12 = q11 \div 2
       /\ q13 = q12 \div 2
       /\ q14 = q13 \div 2
       /\ q15 = q14 \div 2
  BY <1>1, <1>5, <1>6, <1>7, <1>8, <1>9, <1>10, <1>11, <1>12, <1>13, <1>14, <1>15, <1>16, <1>17, <1>18, <1>19, <1>20, HalfAgain, SMT
<1>23. q0 = n /\ q15 <= 1
  BY <1>1, <1>5, <1>20, SMT
<1>24. PICK b1 \in Bit : b1 = b[1]
  BY <1>21, SMT DEF Bit
<1>25. PICK b2 \in Bit : b2 = b[2]
  BY <1>21, SMT DEF Bit
<1>26. PICK b3 \in Bit : b3 = b[3]
  BY <1>21, SMT DEF Bit
<1>27. PICK b4 \in Bit : b4 = b[4]
  BY <1>21, SMT DEF Bit
<1>28. PICK b5 \in Bit : b5 = b[5]
  BY <1>21, SMT DEF Bit
<1>29. PICK b6 \in Bit : b6 = b[6]
  BY <1>21, SMT DEF Bit
<1>30. PICK b7 \in Bit : b7 = b[7]
  BY <1>21, SMT DEF Bit
<1>31. PICK b8 \in Bit : b8 = b[8]
  BY <1>21, SMT DEF Bit
<1>32. PICK b9 \in Bit : b9 = b[9]
  BY <1>21, SMT DEF Bit
<1>33. PICK b10 \in Bit : b10 = b[10]
  BY <1>21, SMT DEF Bit
<1>34. PICK b11 \in Bit : b11 = b[11]
  BY <1>21, SMT DEF Bit
<1>35. PICK b12 \in Bit : b12 = b[12]
  BY <1>21, SMT DEF Bit
<1>36. PICK b13 \in Bit : b13 = b[13]
  BY <1>21, SMT DEF Bit
<1>37. PICK b14 \in Bit : b14 = b[14]
  BY <1>21, SMT DEF Bit
<1>38. PICK b15 \in Bit : b15 = b[15]
  BY <1>21, SMT DEF Bit
<1>39. PICK b16 \in Bit : b16 = b[16]
  BY <1>21, SMT DEF Bit
<1>40. /\ b1 = q15 % 2 /\ b2 = q14 % 2 /\ b3 = q13 % 2 /\ b4 = q12 % 2
       /\ b5 = q11 % 2 /\ b6 = q10 % 2 /\ b7 = q9 % 2 /\ b8 = q8 % 2
       /\ b9 = q7 % 2 /\ b10 = q6 % 2 /\ b11 = q5 % 2 /\ b12 = q4 % 2
       /\ b13 = q3 % 2 /\ b14 = q2 % 2 /\ b15 = q1 % 2 /\ b16 = q0 % 2
  BY <1>21, <1>24, <1>25, <1>26, <1>27, <1>28, <1>29, <1>30, <1>31, <1>32, <1>33, <1>34, <1>35, <1>36, <1>37, <1>38, <1>39, SMT
<1>41. /\ q0 = 2 * q1 + b16
       /\ q1 = 2 * q2 + b15
       /\ q2 = 2 * q3 + b14
       /\ q3 = 2 * q4 + b13
       /\ q4 = 2 * q5 + b12
       /\ q5 = 2 * q6 + b11
       /\ q6 = 2 * q7 + b10
       /\ q7 = 2 * q8 + b9
       /\ q8 = 2 * q9 + b8
       /\ q9 = 2 * q10 + b7
       /\ q10 = 2 * q11 + b6
       /\ q11 = 2 * q12 + b5
       /\ q12 = 2 * q13 + b4
       /\ q13 = 2 * q14 + b3
       /\ q14 = 2 * q15 + b2
       /\ q15 = b1
  <2>1. q0 = 2 * q1 + b16
    <3>1. q1 = q0 \div 2
      BY <1>22, Zenon
    <3>2. b16 = q0 % 2
      BY <1>40, Zenon
    <3> QED BY <3>1, <3>2, HalfAndRest
  <2>2. q1 = 2 * q2 + b15
    <3>1. q2 = q1 \div 2
      BY <1>22, Zenon
    <3>2. b15 = q1 % 2
      BY <1>40, Zenon
    <3> QED BY <3>1, <3>2, HalfAndRest
  <2>3. q2 = 2 * q3 + b14
    <3>1. q3 = q2 \div 2
      BY <1>22, Zenon
    <3>2. b14 = q2 % 2
      BY <1>40, Zenon
    <3> QED BY <3>1, <3>2, HalfAndRest
  <2>4. q3 = 2 * q4 + b13
    <3>1. q4 = q3 \div 2
      BY <1>22, Zenon
    <3>2. b13 = q3 % 2
      BY <1>40, Zenon
    <3> QED BY <3>1, <3>2, HalfAndRest
  <2>5. q4 = 2 * q5 + b12
    <3>1. q5 = q4 \div 2
      BY <1>22, Zenon
    <3>2. b12 = q4 % 2
      BY <1>40, Zenon
    <3> QED BY <3>1, <3>2, HalfAndRest
  <2>6. q5 = 2 * q6 + b11
    <3>1. q6 = q5 \div 2
      BY <1>22, Zenon
    <3>2. b11 = q5 % 2
      BY <1>40, Zenon
    <3> QED BY <3>1, <3>2, HalfAndRest
  <2>7. q6 = 2 * q7 + b10
    <3>1. q7 = q6 \div 2
      BY <1>22, Zenon
    <3>2. b10 = q6 % 2
      BY <1>40, Zenon
    <3> QED BY <3>1, <3>2, HalfAndRest
  <2>8. q7 = 2 * q8 + b9
    <3>1. q8 = q7 \div 2
      BY <1>22, Zenon
    <3>2. b9 = q7 % 2
      BY <1>40, Zenon
    <3> QED BY <3>1, <3>2, HalfAndRest
  <2>9. q8 = 2 * q9 + b8
    <3>1. q9 = q8 \div 2
      BY <1>22, Zenon
    <3>2. b8 = q8 % 2
      BY <1>40, Zenon
    <3> QED BY <3>1, <3>2, HalfAndRest
  <2>10. q9 = 2 * q10 + b7
    <3>1. q10 = q9 \div 2
      BY <1>22, Zenon
    <3>2. b7 = q9 % 2
      BY <1>40, Zenon
    <3> QED BY <3>1, <3>2, HalfAndRest
  <2>11. q10 = 2 * q11 + b6
    <3>1. q11 = q10 \div 2
      BY <1>22, Zenon
    <3>2. b6 = q10 % 2
      BY <1>40, Zenon
    <3> QED BY <3>1, <3>2, HalfAndRest
  <2>12. q11 = 2 * q12 + b5
    <3>1. q12 = q11 \div 2
      BY <1>22, Zenon
    <3>2. b5 = q11 % 2
      BY <1>40, Zenon
    <3> QED BY <3>1, <3>2, HalfAndRest
  <2>13. q12 = 2 * q13 + b4
    <3>1. q13 = q12 \div 2
      BY <1>22, Zenon
    <3>2. b4 = q12 % 2
      BY <1>40, Zenon
    <3> QED BY <3>1, <3>2, HalfAndRest
  <2>14. q13 = 2 * q14 + b3
    <3>1. q14 = q13 \div 2
      BY <1>22, Zenon
    <3>2. b3 = q13 % 2
      BY <1>40, Zenon
    <3> QED BY <3>1, <3>2, HalfAndRest
  <2>15. q14 = 2 * q15 + b2
    <3>1. q15 = q14 \div 2
      BY <1>22, Zenon
    <3>2. b2 = q14 % 2
      BY <1>40, Zenon
    <3> QED BY <3>1, <3>2, HalfAndRest
  <2>16. q15 = b1
    BY <1>23, <1>40, SMT
  <2> QED BY <2>1, <2>2, <2>3, <2>4, <2>5, <2>6, <2>7, <2>8, <2>9, <2>10, <2>11, <2>12, <2>13, <2>14, <2>15, <2>16
<1>42. n = 256 * (128 * b1 + 64 * b2 + 32 * b3 + 16 * b4 + 8 * b5 + 4 * b6 + 2 * b7 + b8)
             + (128 * b9 + 64 * b10 + 32 * b11 + 16 * b12 + 8 * b13 + 4 * b14 + 2 * b15 + b16)
  BY <1>23, <1>41, SMT DEF Bit
<1>43. Word(b) = 256 * (128 * b1 + 64 * b2 + 32 * b3 + 16 * b4 + 8 * b5 + 4 * b6 + 2 * b7 + b8)
             + (128 * b9 + 64 * b10 + 32 * b11 + 16 * b12 + 8 * b13 + 4 * b14 + 2 * b15 + b16)
  BY <1>24, <1>25, <1>26, <1>27, <1>28, <1>29, <1>30, <1>31, <1>32, <1>33, <1>34, <1>35, <1>36, <1>37, <1>38, <1>39, SMT DEF Word, Byte
<1>44. \A k \in 1 .. 16 : b[k] \in Bit
  BY <1>24, <1>25, <1>26, <1>27, <1>28, <1>29, <1>30, <1>31, <1>32, <1>33, <1>34, <1>35, <1>36, <1>37, <1>38, <1>39, OneToSixteen
<1>45. b \in [1 .. 16 -> Bit]
  BY <1>3, <1>44
<1> QED BY <1>2, <1>42, <1>43, <1>45

-----------------------------------------------------------------------------
(* The answer and its parts. *)

\* Two sequences, of lengths m and n, one behind the other.
Behind(S, s, m, t, n, u) ==
  /\ u \in Seq(S) /\ Len(u) = m + n
  /\ \A k \in 1 .. m : u[k] = s[k]
  /\ \A k \in 1 .. n : u[m + k] = t[k]
LEMMA TwoParts ==
  ASSUME NEW S, NEW s \in Seq(S), NEW t \in Seq(S), NEW m \in Nat, NEW n \in Nat,
         Len(s) = m, Len(t) = n, NEW u, u = s \o t
  PROVE  Behind(S, s, m, t, n, u)
<1>1. /\ s \o t \in Seq(S) /\ Len(s \o t) = Len(s) + Len(t)
      /\ \A i \in 1 .. Len(s) + Len(t) : (s \o t)[i] = IF i <= Len(s) THEN s[i] ELSE t[i - Len(s)]
  BY ConcatProperties
<1>2. /\ u \in Seq(S) /\ Len(u) = m + n
      /\ \A i \in 1 .. m + n : u[i] = IF i <= m THEN s[i] ELSE t[i - m]
  BY <1>1
<1>3. \A k \in 1 .. m : u[k] = s[k]
  BY <1>2
<1>4. ASSUME NEW k \in 1 .. n PROVE u[m + k] = t[k]
  <2>1. m + k \in 1 .. m + n /\ ~(m + k <= m) /\ (m + k) - m = k
    OBVIOUS
  <2> QED BY <1>2, <2>1
<1> QED BY <1>2, <1>3, <1>4 DEF Behind

\* And the other way round.
LEMMA IsAFunction ==
  ASSUME NEW S, NEW s \in Seq(S), NEW n \in Nat, Len(s) = n
  PROVE  s \in [1 .. n -> S]
OBVIOUS

\* Two words, each with its checksum.
IsAnswer(f, a, c, b, d) ==
  /\ f \in [1 .. 48 -> Bit]
  /\ \A k \in 1 .. 16 : f[k] = a[k] /\ f[24 + k] = b[k]
  /\ \A j \in 1 .. 8 : f[16 + j] = c[j] /\ f[40 + j] = d[j]
LEMMA Pieces ==
  ASSUME NEW a \in [1 .. 16 -> Bit], NEW c \in [1 .. 8 -> Bit],
         NEW b \in [1 .. 16 -> Bit], NEW d \in [1 .. 8 -> Bit],
         NEW f, f = a \o c \o b \o d
  PROVE  IsAnswer(f, a, c, b, d)
<1>1. PICK w, h, x, y, z \in Nat : w = 16 /\ h = 8 /\ x = 24 /\ y = 40 /\ z = 48
  OBVIOUS
<1>2. w + h = x /\ x + w = y /\ y + h = z
  BY <1>1
<1>3. /\ a \in [1 .. w -> Bit] /\ b \in [1 .. w -> Bit]
      /\ c \in [1 .. h -> Bit] /\ d \in [1 .. h -> Bit]
  BY <1>1, Zenon
<1>4. /\ a \in Seq(Bit) /\ Len(a) = w /\ b \in Seq(Bit) /\ Len(b) = w
      /\ c \in Seq(Bit) /\ Len(c) = h /\ d \in Seq(Bit) /\ Len(d) = h
  BY <1>3, IsASequence
<1>5. PICK u : u = a \o c
  OBVIOUS
<1>6. /\ u \in Seq(Bit) /\ Len(u) = x
      /\ \A k \in 1 .. w : u[k] = a[k]
      /\ \A j \in 1 .. h : u[w + j] = c[j]
  <2>1. Behind(Bit, a, w, c, h, u)
    BY <1>2, <1>4, <1>5, TwoParts
  <2> QED BY <1>2, <2>1 DEF Behind
<1>7. PICK v : v = u \o b
  OBVIOUS
<1>8. /\ v \in Seq(Bit) /\ Len(v) = y
      /\ \A k \in 1 .. x : v[k] = u[k]
      /\ \A k \in 1 .. w : v[x + k] = b[k]
  <2>1. Behind(Bit, u, x, b, w, v)
    BY <1>2, <1>4, <1>6, <1>7, TwoParts
  <2> QED BY <1>2, <2>1 DEF Behind
<1>9. f = v \o d
  BY <1>5, <1>7
<1>10. /\ f \in Seq(Bit) /\ Len(f) = z
       /\ \A k \in 1 .. y : f[k] = v[k]
       /\ \A j \in 1 .. h : f[y + j] = d[j]
  <2>1. Behind(Bit, v, y, d, h, f)
    BY <1>2, <1>4, <1>8, <1>9, TwoParts
  <2> QED BY <1>2, <2>1 DEF Behind
<1>11. f \in [1 .. z -> Bit]
  BY <1>10, IsAFunction
<1>12. \A k \in 1 .. w : f[k] = a[k] /\ f[x + k] = b[k]
  <2>1. \A k \in 1 .. w : k \in 1 .. x /\ k \in 1 .. y /\ x + k \in 1 .. y
    BY <1>1
  <2> QED BY <1>6, <1>8, <1>10, <2>1, Zenon
<1>13. \A j \in 1 .. h : f[w + j] = c[j] /\ f[y + j] = d[j]
  <2>1. \A j \in 1 .. h : w + j \in 1 .. x /\ w + j \in 1 .. y
    BY <1>1
  <2> QED BY <1>6, <1>8, <1>10, <2>1, Zenon
<1> QED BY <1>1, <1>11, <1>12, <1>13, Zenon DEF IsAnswer

\* The parts sht30_read_once looks at.
LEMMA Looked ==
  ASSUME NEW f \in [1 .. 48 -> Bit]
  PROVE  /\ SubSeq(f, 1, 16) = [k \in 1 .. 16 |-> f[k]]
         /\ SubSeq(f, 17, 24) = [j \in 1 .. 8 |-> f[16 + j]]
         /\ SubSeq(f, 25, 40) = [k \in 1 .. 16 |-> f[24 + k]]
         /\ SubSeq(f, 41, 48) = [j \in 1 .. 8 |-> f[40 + j]]
<1>1. f \in Seq(Bit) /\ Len(f) = 48
  <2>1. PICK n \in Nat : n = 48
    OBVIOUS
  <2>2. f \in Seq(Bit) /\ Len(f) = n
    BY <2>1, IsASequence
  <2> QED BY <2>1, <2>2, SMT
<1>2. ASSUME NEW i \in Nat, NEW n \in Nat \ {0}, i + n <= 48
      PROVE  SubSeq(f, i + 1, i + n) = [k \in 1 .. n |-> f[i + k]]
  <2>1. PICK p \in Nat \ {0} : p = i + 1
    OBVIOUS
  <2>2. PICK q \in Nat : q = i + n
    OBVIOUS
  <2>3. q = p + n - 1 /\ q <= Len(f)
    BY <1>1, <1>2, <2>1, <2>2
  <2>4. SubSeq(f, p, q) = [k \in 1 .. n |-> f[p + k - 1]]
    BY <1>1, <2>3, Part
  <2>5. \A k \in 1 .. n : p + k - 1 = i + k
    BY <2>1
  <2>6. [k \in 1 .. n |-> f[p + k - 1]] = [k \in 1 .. n |-> f[i + k]]
    BY <2>5
  <2> QED BY <2>1, <2>2, <2>4, <2>6
<1>3. SubSeq(f, 0 + 1, 0 + 16) = [k \in 1 .. 16 |-> f[0 + k]]
  BY <1>2, 0 \in Nat, 16 \in Nat \ {0}, 0 + 16 <= 48
<1>4. SubSeq(f, 16 + 1, 16 + 8) = [j \in 1 .. 8 |-> f[16 + j]]
  BY <1>2, 16 \in Nat, 8 \in Nat \ {0}, 16 + 8 <= 48
<1>5. SubSeq(f, 24 + 1, 24 + 16) = [k \in 1 .. 16 |-> f[24 + k]]
  BY <1>2, 24 \in Nat, 16 \in Nat \ {0}, 24 + 16 <= 48
<1>6. SubSeq(f, 40 + 1, 40 + 8) = [j \in 1 .. 8 |-> f[40 + j]]
  BY <1>2, 40 \in Nat, 8 \in Nat \ {0}, 40 + 8 <= 48
<1>7. /\ 0 + 1 = 1 /\ 0 + 16 = 16 /\ 16 + 1 = 17 /\ 16 + 8 = 24 /\ 24 + 1 = 25
      /\ 24 + 16 = 40 /\ 40 + 1 = 41 /\ 40 + 8 = 48
  OBVIOUS
<1>8. [k \in 1 .. 16 |-> f[0 + k]] = [k \in 1 .. 16 |-> f[k]]
  OBVIOUS
<1> QED BY <1>3, <1>4, <1>5, <1>6, <1>7, <1>8

\* The sensor's checksums are bits.
LEMMA SensorCrcBits ==
  ASSUME NEW w
  PROVE  SensorCrc(w) \in [1 .. 8 -> Bit]
<1>1. ASSUME NEW P \in SUBSET (1 .. 16) PROVE Cardinality(P) % 2 \in Bit
  <2>1. PICK n \in Nat : n = 16
    OBVIOUS
  <2>2. IsFiniteSet(1 .. n)
    BY FS_Interval
  <2>3. Cardinality(P) \in Nat
    BY <2>1, <2>2, FS_Subset, FS_CardinalityType
  <2> QED BY <2>3 DEF Bit
<1> QED BY <1>1 DEF SensorCrc

\* What the sensor sends.
LEMMA AnswerParts ==
  ASSUME NEW m \in Measurements, NEW a, NEW b, NEW f,
         a = Bits(m[1], 16), b = Bits(m[2], 16), f = Answer(m)
  PROVE  /\ m = <<m[1], m[2]>>
         /\ a \in [1 .. 16 -> Bit] /\ Word(a) = m[1]
         /\ b \in [1 .. 16 -> Bit] /\ Word(b) = m[2]
         /\ IsAnswer(f, a, SensorCrc(a), b, SensorCrc(b))
<1>1. m \in Words \X Words
  BY Sht30Assumption
<1>2. m[1] \in Words /\ m[2] \in Words /\ m = <<m[1], m[2]>>
  BY <1>1
<1>3. a \in [1 .. 16 -> Bit] /\ Word(a) = m[1] /\ b \in [1 .. 16 -> Bit] /\ Word(b) = m[2]
  BY <1>2, BitsOfWord
<1>4. PICK c, d \in [1 .. 8 -> Bit] : c = SensorCrc(a) /\ d = SensorCrc(b)
  BY SensorCrcBits
<1>5. f = a \o c \o b \o d
  BY <1>4 DEF Answer
<1>6. IsAnswer(f, a, c, b, d)
  BY <1>3, <1>5, Pieces
<1> QED BY <1>2, <1>3, <1>4, <1>6

\* A disturbance is added, modulo 2.
Added(f, e, g) == \A k \in 1 .. 48 : g[k] = (f[k] + In(e, k)) % 2
LEMMA Flipped ==
  ASSUME NEW f \in [1 .. 48 -> Bit], NEW e, NEW g, g = Disturbed(f, e)
  PROVE  g \in [1 .. 48 -> Bit] /\ Added(f, e, g)
<1>1. ASSUME NEW k \in 1 .. 48
      PROVE  g[k] = (f[k] + In(e, k)) % 2 /\ g[k] \in Bit
  <2>1. g[k] = IF k \in e THEN 1 - f[k] ELSE f[k]
    BY DEF Disturbed
  <2>2. f[k] = 0 \/ f[k] = 1
    BY DEF Bit
  <2> QED BY <2>1, <2>2 DEF In, Bit
<1>2. g = [k \in 1 .. 48 |-> g[k]]
  BY DEF Disturbed
<1> QED BY <1>1, <1>2 DEF Added

\* The word and the checksum from bit n + 1 on, and that they are what was sent.
WordFrom(g, n) == [k \in 1 .. 16 |-> g[n + k]]
CrcFrom(g, n) == [j \in 1 .. 8 |-> g[n + (16 + j)]]
Sent(f, n, w) ==
  /\ \A k \in 1 .. 16 : f[n + k] = w[k]
  /\ \A j \in 1 .. 8 : f[n + (16 + j)] = SensorCrc(w)[j]

\* A word whose checksum is accepted is the one that was sent.
LEMMA HalfRead ==
  ASSUME NEW w \in [1 .. 16 -> Bit], NEW f, NEW g, NEW n \in {0, 24}, NEW e \in SUBSET (1 .. 48),
         FewOrNear(e), Sent(f, n, w), Added(f, e, g), sht30_crc8(WordFrom(g, n)) = CrcFrom(g, n)
  PROVE  WordFrom(g, n) = w
<1>1. PICK i : i = [k \in 1 .. 24 |-> In(e, n + k)]
  OBVIOUS
<1>2. \A k \in 1 .. 24 : i[k] = In(e, n + k) /\ i[k] \in Bit
  BY <1>1 DEF In, Bit
<1>3. Few(i) \/ Burst(i)
  <2>1. CASE Cardinality(e) <= 3
    <3>1. In(e, n + 1) + In(e, n + 2) + In(e, n + 3) + In(e, n + 4) + In(e, n + 5) + In(e, n + 6) +
            In(e, n + 7) + In(e, n + 8) + In(e, n + 9) + In(e, n + 10) + In(e, n + 11) + In(e, n + 12) +
            In(e, n + 13) + In(e, n + 14) + In(e, n + 15) + In(e, n + 16) + In(e, n + 17) + In(e, n + 18) +
            In(e, n + 19) + In(e, n + 20) + In(e, n + 21) + In(e, n + 22) + In(e, n + 23) + In(e, n + 24) <= 3
      BY <2>1, CountHalf
    <3>2. /\ i[1] = In(e, n + 1) /\ i[2] = In(e, n + 2) /\ i[3] = In(e, n + 3) /\ i[4] = In(e, n + 4)
          /\ i[5] = In(e, n + 5) /\ i[6] = In(e, n + 6) /\ i[7] = In(e, n + 7) /\ i[8] = In(e, n + 8)
          /\ i[9] = In(e, n + 9) /\ i[10] = In(e, n + 10) /\ i[11] = In(e, n + 11) /\ i[12] = In(e, n + 12)
          /\ i[13] = In(e, n + 13) /\ i[14] = In(e, n + 14) /\ i[15] = In(e, n + 15) /\ i[16] = In(e, n + 16)
          /\ i[17] = In(e, n + 17) /\ i[18] = In(e, n + 18) /\ i[19] = In(e, n + 19) /\ i[20] = In(e, n + 20)
          /\ i[21] = In(e, n + 21) /\ i[22] = In(e, n + 22) /\ i[23] = In(e, n + 23) /\ i[24] = In(e, n + 24)
      BY <1>2
    <3> QED BY <3>1, <3>2, Zenon DEF Few
  <2>2. CASE \E b \in 1 .. 48 : e \subseteq b .. b + 7
    <3>1. PICK b \in 1 .. 48 : e \subseteq b .. b + 7
      BY <2>2
    <3>2. b - n \in Int
      OBVIOUS
    <3>3. ASSUME NEW k \in 1 .. 24 PROVE i[k] = 0 \/ (b - n <= k /\ k <= (b - n) + 7)
      <4>1. n + k \in e => b <= n + k /\ n + k <= b + 7
        BY <3>1
      <4>2. i[k] = 0 \/ n + k \in e
        BY <1>2 DEF In
      <4> QED BY <4>1, <4>2
    <3> QED BY <3>2, <3>3 DEF Burst
  <2> QED BY <2>1, <2>2 DEF FewOrNear
<1>4. PICK v : v = WordFrom(g, n)
  OBVIOUS
<1>5. v = [k \in 1 .. 16 |-> (w[k] + i[k]) % 2]
  <2>1. \A k \in 1 .. 16 : n + k \in 1 .. 48 /\ k \in 1 .. 24
    OBVIOUS
  <2>2. \A k \in 1 .. 16 : g[n + k] = (w[k] + i[k]) % 2
    BY <1>2, <2>1 DEF Sent, Added
  <2> QED BY <1>4, <2>2 DEF WordFrom
<1>6. CrcFrom(g, n) = [j \in 1 .. 8 |-> (SensorCrc(w)[j] + i[16 + j]) % 2]
  <2>1. \A j \in 1 .. 8 : n + (16 + j) \in 1 .. 48 /\ 16 + j \in 1 .. 24
    OBVIOUS
  <2>2. \A j \in 1 .. 8 : g[n + (16 + j)] = (SensorCrc(w)[j] + i[16 + j]) % 2
    BY <1>2, <2>1 DEF Sent, Added
  <2> QED BY <2>2 DEF CrcFrom
<1>7. sht30_crc8(v) = [j \in 1 .. 8 |-> (SensorCrc(w)[j] + i[16 + j]) % 2]
  BY <1>4, <1>6
<1>8. v = w
  BY <1>2, <1>3, <1>5, <1>7, AcceptedWord
<1> QED BY <1>4, <1>8

\* What an answer, intact or not, is read as: a pair of words or a failure.
LEMMA ReadsPair ==
  ASSUME NEW f \in [1 .. 48 -> Bit]
  PROVE  Decode(f) \in (Words \X Words) \cup {ReadFailed}
<1>1. PICK a, b : a = SubSeq(f, 1, 16) /\ b = SubSeq(f, 25, 40)
  OBVIOUS
<1>2. a \in [1 .. 16 -> Bit] /\ b \in [1 .. 16 -> Bit]
  <2>1. a = [k \in 1 .. 16 |-> f[k]] /\ b = [k \in 1 .. 16 |-> f[24 + k]]
    BY <1>1, Looked
  <2>2. \A k \in 1 .. 16 : f[k] \in Bit /\ f[24 + k] \in Bit
    OBVIOUS
  <2> QED BY <2>1, <2>2
<1>3. Word(a) \in Words /\ Word(b) \in Words
  BY <1>2, WordOfBits
<1>4. Decode(f) = <<Word(a), Word(b)>> \/ Decode(f) = ReadFailed
  BY <1>1 DEF Decode
<1> QED BY <1>3, <1>4

\* So intact and disturbed answers are.
LEMMA ReadsWords ==
  ASSUME NEW m \in Measurements
  PROVE  /\ Intact[m] \in (Words \X Words) \cup {ReadFailed}
         /\ Damaged[m] \subseteq (Words \X Words) \cup {ReadFailed}
<1>1. PICK f : f = Answer(m)
  OBVIOUS
<1>2. f \in [1 .. 48 -> Bit]
  BY <1>1, AnswerParts DEF IsAnswer
<1>3. Intact[m] = Decode(f)
  BY <1>1 DEF Intact
<1>4. Damaged[m] = {Decode(Disturbed(f, e)) : e \in Disturbances}
  BY <1>1 DEF Damaged
<1>5. ASSUME NEW e \in Disturbances
      PROVE  Decode(Disturbed(f, e)) \in (Words \X Words) \cup {ReadFailed}
  <2>1. Disturbed(f, e) \in [1 .. 48 -> Bit]
    BY <1>2, Flipped
  <2> QED BY <2>1, ReadsPair
<1> QED BY <1>2, <1>3, <1>4, <1>5, ReadsPair

\* An intact answer is read as what was measured.
LEMMA ReadsIntact ==
  ASSUME NEW m \in Measurements
  PROVE  Intact[m] = m
<1>1. PICK a, b, f : a = Bits(m[1], 16) /\ b = Bits(m[2], 16) /\ f = Answer(m)
  OBVIOUS
<1>2. /\ m = <<m[1], m[2]>>
      /\ a \in [1 .. 16 -> Bit] /\ Word(a) = m[1]
      /\ b \in [1 .. 16 -> Bit] /\ Word(b) = m[2]
      /\ IsAnswer(f, a, SensorCrc(a), b, SensorCrc(b))
  BY <1>1, AnswerParts
<1>3. PICK c, d \in [1 .. 8 -> Bit] : c = SensorCrc(a) /\ d = SensorCrc(b)
  BY SensorCrcBits
<1>4. /\ f \in [1 .. 48 -> Bit]
      /\ \A k \in 1 .. 16 : f[k] = a[k] /\ f[24 + k] = b[k]
      /\ \A j \in 1 .. 8 : f[16 + j] = c[j] /\ f[40 + j] = d[j]
  BY <1>2, <1>3 DEF IsAnswer
<1>5. SubSeq(f, 1, 16) = a /\ SubSeq(f, 25, 40) = b
  <2>1. SubSeq(f, 1, 16) = [k \in 1 .. 16 |-> f[k]] /\ SubSeq(f, 25, 40) = [k \in 1 .. 16 |-> f[24 + k]]
    BY <1>4, Looked
  <2> QED BY <1>2, <1>4, <2>1
<1>6. SubSeq(f, 17, 24) = c /\ SubSeq(f, 41, 48) = d
  <2>1. SubSeq(f, 17, 24) = [j \in 1 .. 8 |-> f[16 + j]] /\ SubSeq(f, 41, 48) = [j \in 1 .. 8 |-> f[40 + j]]
    BY <1>4, Looked
  <2> QED BY <1>3, <1>4, <2>1
<1>7. sht30_crc8(a) = c /\ sht30_crc8(b) = d
  BY <1>2, <1>3, SameChecksum DEF Bit
<1>8. Decode(f) = <<Word(a), Word(b)>>
  BY <1>5, <1>6, <1>7 DEF Decode
<1> QED BY <1>1, <1>2, <1>8 DEF Intact

\* A disturbed one is read as that or as nothing.
LEMMA ReadsDamaged ==
  ASSUME NEW m \in Measurements, Detectable
  PROVE  Damaged[m] \subseteq {m, ReadFailed}
<1>1. PICK a, b, f : a = Bits(m[1], 16) /\ b = Bits(m[2], 16) /\ f = Answer(m)
  OBVIOUS
<1>2. /\ m = <<m[1], m[2]>>
      /\ a \in [1 .. 16 -> Bit] /\ Word(a) = m[1]
      /\ b \in [1 .. 16 -> Bit] /\ Word(b) = m[2]
      /\ IsAnswer(f, a, SensorCrc(a), b, SensorCrc(b))
  BY <1>1, AnswerParts
<1>3. /\ f \in [1 .. 48 -> Bit]
      /\ \A k \in 1 .. 16 : f[k] = a[k] /\ f[24 + k] = b[k]
      /\ \A j \in 1 .. 8 : f[16 + j] = SensorCrc(a)[j] /\ f[40 + j] = SensorCrc(b)[j]
  BY <1>2 DEF IsAnswer
<1>4. ASSUME NEW e \in Disturbances PROVE Decode(Disturbed(f, e)) \in {m, ReadFailed}
  <2>1. e \in SUBSET (1 .. 48) /\ FewOrNear(e)
    BY Sht30Assumption DEF Detectable
  <2>2. PICK g : g = Disturbed(f, e)
    OBVIOUS
  <2>3. g \in [1 .. 48 -> Bit] /\ Added(f, e, g)
    BY <1>3, <2>2, Flipped
  <2>4. /\ SubSeq(g, 1, 16) = [k \in 1 .. 16 |-> g[k]]
        /\ SubSeq(g, 17, 24) = [j \in 1 .. 8 |-> g[16 + j]]
        /\ SubSeq(g, 25, 40) = [k \in 1 .. 16 |-> g[24 + k]]
        /\ SubSeq(g, 41, 48) = [j \in 1 .. 8 |-> g[40 + j]]
    BY <2>3, Looked
  <2>5. SUFFICES ASSUME /\ sht30_crc8(SubSeq(g, 1, 16)) = SubSeq(g, 17, 24)
                        /\ sht30_crc8(SubSeq(g, 25, 40)) = SubSeq(g, 41, 48)
                 PROVE  SubSeq(g, 1, 16) = a /\ SubSeq(g, 25, 40) = b
    BY <1>2, <2>2 DEF Decode
  <2>6. SubSeq(g, 1, 16) = a
    <3>1. PICK n \in {0, 24} : n = 0
      OBVIOUS
    <3>2. /\ \A k \in 1 .. 16 : n + k = k
          /\ \A j \in 1 .. 8 : n + (16 + j) = 16 + j
      BY <3>1
    <3>3. Sent(f, n, a)
      BY <1>3, <3>2 DEF Sent
    <3>4. /\ WordFrom(g, n) = SubSeq(g, 1, 16)
          /\ CrcFrom(g, n) = SubSeq(g, 17, 24)
      BY <2>4, <3>2 DEF WordFrom, CrcFrom
    <3>5. WordFrom(g, n) = a
      BY <1>2, <2>1, <2>3, <2>5, <3>3, <3>4, HalfRead
    <3> QED BY <3>4, <3>5
  <2>7. SubSeq(g, 25, 40) = b
    <3>1. PICK n \in {0, 24} : n = 24
      OBVIOUS
    <3>2. /\ \A k \in 1 .. 16 : n + k = 24 + k
          /\ \A j \in 1 .. 8 : n + (16 + j) = 40 + j
      BY <3>1
    <3>3. Sent(f, n, b)
      BY <1>3, <3>2 DEF Sent
    <3>4. /\ WordFrom(g, n) = SubSeq(g, 25, 40)
          /\ CrcFrom(g, n) = SubSeq(g, 41, 48)
      BY <2>4, <3>2 DEF WordFrom, CrcFrom
    <3>5. WordFrom(g, n) = b
      BY <1>2, <2>1, <2>3, <2>5, <3>3, <3>4, HalfRead
    <3> QED BY <3>4, <3>5
  <2> QED BY <2>6, <2>7
<1> QED BY <1>1, <1>4 DEF Damaged
=============================================================================
