-------------------------------- MODULE H5Crc -------------------------------
(* The 16-bit CRC of the three-wire transport, as hciattach_rtk.c computes  *)
(* it: four bits at a time from a table, and reversed before it is sent.    *)
EXTENDS Integers, Sequences

crc_table == <<0, 4225, 8450, 12675, 16900, 21125, 25350, 29575,
               33800, 38025, 42250, 46475, 50700, 54925, 59150, 63375>>

(* Exclusive or, of four bits and of sixteen. *)
Bit(a, b, k) == 2^k * (((a \div 2^k) + (b \div 2^k)) % 2)
Xor4 == [a, b \in 0..15 |-> Bit(a, b, 0) + Bit(a, b, 1) + Bit(a, b, 2) + Bit(a, b, 3)]
Part(x, k) == (x \div 16^k) % 16
Xor16(a, b) == Xor4[Part(a, 0), Part(b, 0)] + 16 * Xor4[Part(a, 1), Part(b, 1)]
               + 256 * Xor4[Part(a, 2), Part(b, 2)] + 4096 * Xor4[Part(a, 3), Part(b, 3)]

Nibble(reg, d) == Xor16(reg \div 16, crc_table[Xor4[reg % 16, d] + 1])

h5_crc_update(crc, d) == Nibble(Nibble(crc, d % 16), d \div 16)

(* Bit n of the result is bit 15 - n of the argument. *)
bit_rev16(x) ==
  LET rev[n \in 0..16] == IF n = 0 THEN 0 ELSE 2 * rev[n - 1] + ((x \div 2^(n - 1)) % 2)
  IN  rev[16]
=============================================================================
