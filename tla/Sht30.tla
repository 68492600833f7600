-------------------------------- MODULE Sht30 --------------------------------
(***************************************************************************)
(* The temperature and humidity sensor on I2C1, sht30App.c: the frame, its *)
(* checksum and the conversion.  The thread that uses them is part of      *)
(* Telemetry.                                                              *)
(*                                                                         *)
(* A byte or word is a sequence of bits, the most significant one first.   *)
(* The sensor answers with two words, temperature and humidity, each       *)
(* followed by a CRC-8 of its own.  Disturbances on the bus turn bits of   *)
(* the answer around.                                                      *)
(***************************************************************************)
EXTENDS Integers, Sequences, FiniteSets

CONSTANTS
  Measurements,  \* the pairs <<raw_t, raw_h>> the sensor can measure
  Disturbances   \* sets of bits, 1 to 48, that may be turned around together

\* rt_uint16_t
WORD_MAX == 65535
Words == 0 .. WORD_MAX

ASSUME Sht30Assumption ==
  /\ Measurements \subseteq Words \X Words /\ Measurements # {}
  /\ \A e \in Disturbances : e \subseteq 1 .. 48

Bits(n, width) == [k \in 1 .. width |-> (n \div 2 ^ (width - k)) % 2]

Xor(a, b) == [k \in DOMAIN a |-> (a[k] + b[k]) % 2]

POLYNOMIAL == <<0, 0, 1, 1, 0, 0, 0, 1>>  \* 0x31
CRC_INIT == <<1, 1, 1, 1, 1, 1, 1, 1>>    \* 0xFF

\* for (j = 0; j < 8; j++): shift, and subtract the polynomial if a one fell out
Shifted(crc) ==
  IF crc[1] = 1 THEN Xor(Tail(crc) \o <<0>>, POLYNOMIAL) ELSE Tail(crc) \o <<0>>

EightShifts(crc) ==
  LET two(c) == Shifted(Shifted(c))
      four(c) == two(two(c))
  IN four(four(crc))

\* sht30_crc8(data, 2)
sht30_crc8(word) ==
  EightShifts(Xor(EightShifts(Xor(CRC_INIT, SubSeq(word, 1, 8))), SubSeq(word, 9, 16)))

\* The sensor's checksum, from the data sheet: the remainder of the word, its
\* first eight bits inverted, times x^8 on division by x^8 + x^5 + x^4 + 1.  It is
\* put together from those of x^23, x^22, ..., x^8.
REMAINDERS == <<
  <<0, 0, 1, 0, 0, 0, 1, 1>>, <<1, 0, 0, 0, 1, 0, 0, 1>>, <<1, 1, 0, 1, 1, 1, 0, 0>>,
  <<0, 1, 1, 0, 1, 1, 1, 0>>, <<0, 0, 1, 1, 0, 1, 1, 1>>, <<1, 0, 0, 0, 0, 0, 1, 1>>,
  <<1, 1, 0, 1, 1, 0, 0, 1>>, <<1, 1, 1, 1, 0, 1, 0, 0>>, <<0, 1, 1, 1, 1, 0, 1, 0>>,
  <<0, 0, 1, 1, 1, 1, 0, 1>>, <<1, 0, 0, 0, 0, 1, 1, 0>>, <<0, 1, 0, 0, 0, 0, 1, 1>>,
  <<1, 0, 1, 1, 1, 0, 0, 1>>, <<1, 1, 0, 0, 0, 1, 0, 0>>, <<0, 1, 1, 0, 0, 0, 1, 0>>,
  <<0, 0, 1, 1, 0, 0, 0, 1>>>>
SensorCrc(word) ==
  LET ones == {k \in 1 .. 16 : word[k] = IF k <= 8 THEN 0 ELSE 1}
  IN [j \in 1 .. 8 |-> Cardinality({k \in ones : REMAINDERS[k][j] = 1}) % 2]

Answer(m) ==
  Bits(m[1], 16) \o SensorCrc(Bits(m[1], 16)) \o Bits(m[2], 16) \o SensorCrc(Bits(m[2], 16))

\* The disturbances the checksums are there for: of up to eight neighbouring bits,
\* and of up to three anywhere.
FewOrNear(e) == Cardinality(e) <= 3 \/ \E b \in 1 .. 48 : e \subseteq b .. b + 7
Detectable == \A e \in Disturbances : FewOrNear(e)

Disturbed(frame, e) == [k \in 1 .. 48 |-> IF k \in e THEN 1 - frame[k] ELSE frame[k]]

\* ((rt_uint16_t)buf[0] << 8) | buf[1], where a byte has its eight bits from k on.
Byte(bits, k) ==
  128 * bits[k] + 64 * bits[k + 1] + 32 * bits[k + 2] + 16 * bits[k + 3]
    + 8 * bits[k + 4] + 4 * bits[k + 5] + 2 * bits[k + 6] + bits[k + 7]
Word(bits) == 256 * Byte(bits, 1) + Byte(bits, 9)

ReadFailed == <<>>

\* The second half of sht30_read_once: both checksums, then the two words.
OneCrcForBoth(buf) ==  \* mutant of Decode
  IF sht30_crc8(SubSeq(buf, 1, 16)) = SubSeq(buf, 17, 24)
  THEN <<Word(SubSeq(buf, 1, 16)), Word(SubSeq(buf, 25, 40))>>
  ELSE ReadFailed
Decode(buf) ==
  IF /\ sht30_crc8(SubSeq(buf, 1, 16)) = SubSeq(buf, 17, 24)
     /\ sht30_crc8(SubSeq(buf, 25, 40)) = SubSeq(buf, 41, 48)
  THEN <<Word(SubSeq(buf, 1, 16)), Word(SubSeq(buf, 25, 40))>>
  ELSE ReadFailed

\* What sht30_read_once makes of each measurement when the answer is intact and
\* when it is disturbed.
Intact == [m \in Measurements |-> Decode(Answer(m))]
Damaged == [m \in Measurements |-> {Decode(Disturbed(Answer(m), e)) : e \in Disturbances}]

-----------------------------------------------------------------------------
(* The conversions, as the pair of integers ReportText represents a float by, *)
(* in exact arithmetic; the float may be off by one in the second decimal.    *)

\* A quotient of integers, cut towards zero to hundredths.
Hundredths(num, den) == IF num >= 0 THEN (100 * num) \div den ELSE -((-100 * num) \div den)
FromHundredths(h) ==
  IF h >= 0 THEN [i |-> h \div 100, d |-> h % 100] ELSE [i |-> -((-h) \div 100), d |-> -((-h) % 100)]

\* -45.0f + 175.0f * (float)raw_t / 65535.0f
OffsetForgotten(raw_t) == FromHundredths(Hundredths(175 * raw_t, WORD_MAX))  \* mutant of Celsius
Celsius(raw_t) == FromHundredths(Hundredths(175 * raw_t - 45 * WORD_MAX, WORD_MAX))

\* 100.0f * (float)raw_h / 65535.0f
RelativeHumidity(raw_h) == FromHundredths(Hundredths(100 * raw_h, WORD_MAX))
=============================================================================
