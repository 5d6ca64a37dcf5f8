----------------------------- MODULE H5RxProofs -----------------------------
(***************************************************************************)
(* The receive buffer of H5Rx, for every sequence of bytes on the line:    *)
(* it is never overrun, and never used while it is not allocated.  And     *)
(* what h5_prepare_pkt writes of a frame, h5_recv reads back from whatever *)
(* state it is in.                                                         *)
(***************************************************************************)
EXTENDS H5Rx, SequenceTheorems, WellFoundedInduction, TLAPS

(* The encoder: what its recursive functions compute, by least             *)
(* counterexample.                                                         *)
LEMMA LeastOf == ASSUME NEW T, T \subseteq Nat, T # {}
                 PROVE  \E x \in T : \A y \in T : x <= y
<1>1. PICK x \in T : \A y \in T : ~(<<y, x>> \in OpToRel(<, Nat))
  BY WFMin, NatLessThanWellFounded, Zenon
<1>2. \A y \in T : ~(y < x)
  BY <1>1 DEF OpToRel
<1>3. ASSUME NEW y \in T PROVE x <= y
  <2>1. x \in Nat /\ y \in Nat /\ ~(y < x)
    BY <1>2
  <2>2. QED
    BY <2>1, SMT
<1>4. QED
  BY <1>3

(* A property of 0 that m + 1 has if m has it; P is the set of those that  *)
(* have it.                                                                *)
LEMMA UpTo == ASSUME NEW n \in Nat, NEW P, 0 \in P,
                     \A m \in 0..n : m < n /\ m \in P => m + 1 \in P
              PROVE  \A m \in 0..n : m \in P
<1> DEFINE Bad == {m \in 0..n : m \notin P}
<1>1. SUFFICES ASSUME Bad # {} PROVE FALSE
  OBVIOUS
<1>2. Bad \subseteq Nat
  OBVIOUS
<1>3. PICK m \in Bad : \A l \in Bad : m <= l
  BY <1>1, <1>2, LeastOf, Zenon
<1>4. m \in 0..n /\ m \notin P /\ m # 0
  BY <1>3
<1>5. m - 1 \in 0..n /\ m - 1 < n /\ (m - 1) + 1 = m /\ ~(m <= m - 1)
  BY <1>4, SMT
<1>6. m - 1 \in P
  BY <1>3, <1>5
<1>7. QED
  BY <1>4, <1>5, <1>6

Sums(bytes, m, f) ==
  f = [j \in 0..m |-> IF j = 0 THEN CrcInit ELSE CrcStep(f[j - 1], bytes[j])]

LEMMA CrcsExists == ASSUME NEW bytes, NEW n \in Nat PROVE \E f : Sums(bytes, n, f)
<1> DEFINE P == {m \in 0..n : \E f : Sums(bytes, m, f)}
<1>1. 0 \in P
  <2> DEFINE f == [j \in 0..0 |-> CrcInit]
  <2>1. \A j \in 0..0 : j = 0
    BY SMT
  <2>2. f = [j \in 0..0 |-> IF j = 0 THEN CrcInit ELSE CrcStep(f[j - 1], bytes[j])]
    BY <2>1, Zenon
  <2>3. 0 \in 0..n
    BY SMT
  <2> HIDE DEF f
  <2>4. QED
    BY <2>2, <2>3, Zenon DEF Sums
<1>2. ASSUME NEW m \in 0..n, m < n, m \in P PROVE m + 1 \in P
  <2>1. PICK f : f = [j \in 0..m |-> IF j = 0 THEN CrcInit ELSE CrcStep(f[j - 1], bytes[j])]
    BY <1>2 DEF Sums
  <2> DEFINE g == [j \in 0..(m + 1) |-> IF j = m + 1 THEN CrcStep(f[m], bytes[j]) ELSE f[j]]
  <2>2. ASSUME NEW j \in 0..(m + 1)
        PROVE  g[j] = IF j = 0 THEN CrcInit ELSE CrcStep(g[j - 1], bytes[j])
    <3>1. CASE j = m + 1
      <4>1. j # 0 /\ j - 1 = m /\ m \in 0..(m + 1) /\ m # m + 1
        BY <3>1, SMT
      <4>2. g[m] = f[m]
        BY <4>1, Zenon
      <4>3. g[j] = CrcStep(f[m], bytes[j])
        BY <3>1, Zenon
      <4>4. QED
        BY <4>1, <4>2, <4>3, Zenon
    <3>2. CASE j # m + 1
      <4>1. j \in 0..m
        BY <3>2, SMT
      <4>2. f[j] = IF j = 0 THEN CrcInit ELSE CrcStep(f[j - 1], bytes[j])
        BY <2>1, <4>1, Zenon
      <4>3. j # 0 => j - 1 \in 0..(m + 1) /\ j - 1 # m + 1
        BY <4>1, SMT
      <4>4. j # 0 => g[j - 1] = f[j - 1]
        BY <4>3, Zenon
      <4>5. g[j] = f[j]
        BY <3>2, Zenon
      <4>6. QED
        BY <4>2, <4>4, <4>5, Zenon
    <3>3. QED
      BY <3>1, <3>2
  <2>3. g = [j \in 0..(m + 1) |-> IF j = 0 THEN CrcInit ELSE CrcStep(g[j - 1], bytes[j])]
    BY <2>2, Zenon
  <2>4. m + 1 \in 0..n
    BY <1>2, SMT
  <2> HIDE DEF g
  <2>5. QED
    BY <2>3, <2>4, Zenon DEF Sums
<1> HIDE DEF P
<1>3. \A m \in 0..n : m \in P
  BY <1>1, <1>2, UpTo, Zenon
<1>4. n \in 0..n
  BY SMT
<1>5. QED
  BY <1>3, <1>4 DEF P

LEMMA CrcsSteps ==
  ASSUME NEW bytes, NEW n \in Nat, n = Len(bytes)
  PROVE  /\ Crcs(bytes)[0] = CrcInit
         /\ \A j \in 1..n : Crcs(bytes)[j] = CrcStep(Crcs(bytes)[j - 1], bytes[j])
<1>1. PICK c : c = Crcs(bytes)
  OBVIOUS
<1>2. Sums(bytes, n, c)
  BY <1>1, CrcsExists, Zenon DEF Crcs, Sums
<1>3. c = [j \in 0..n |-> IF j = 0 THEN CrcInit ELSE CrcStep(c[j - 1], bytes[j])]
  BY <1>2, Zenon DEF Sums
<1>4. 0 \in 0..n /\ \A j \in 1..n : j \in 0..n /\ j # 0
  BY SMT
<1>5. c[0] = CrcInit
  BY <1>3, <1>4, Zenon
<1>6. \A j \in 1..n : c[j] = CrcStep(c[j - 1], bytes[j])
  BY <1>3, <1>4, Zenon
<1>7. QED
  BY <1>1, <1>5, <1>6, Zenon

Behind(b, u) == Escape(b) \o u
Slips(bytes, n, m, f) ==
  f = [k \in (n + 1 - m)..(n + 1) |-> IF k > n THEN <<192>> ELSE Behind(bytes[k], f[k + 1])]

LEMMA SlippedExists == ASSUME NEW bytes, NEW n \in Nat PROVE \E f : Slips(bytes, n, n, f)
<1> DEFINE P == {m \in 0..n : \E f : Slips(bytes, n, m, f)}
<1>1. 0 \in P
  <2> DEFINE f == [k \in (n + 1 - 0)..(n + 1) |-> <<192>>]
  <2>1. \A k \in (n + 1 - 0)..(n + 1) : k > n
    BY SMT
  <2>2. f = [k \in (n + 1 - 0)..(n + 1) |-> IF k > n THEN <<192>> ELSE Behind(bytes[k], f[k + 1])]
    BY <2>1, Zenon
  <2>3. 0 \in 0..n
    BY SMT
  <2> HIDE DEF f
  <2>4. QED
    BY <2>2, <2>3, Zenon DEF Slips
<1>2. ASSUME NEW m \in 0..n, m < n, m \in P PROVE m + 1 \in P
  <2>1. PICK f : f = [k \in (n + 1 - m)..(n + 1) |->
                        IF k > n THEN <<192>> ELSE Behind(bytes[k], f[k + 1])]
    BY <1>2 DEF Slips
  <2>a. PICK l \in 1..n : l = n - m
    BY <1>2
  <2> DEFINE dom == (n + 1 - (m + 1))..(n + 1)
             g == [k \in dom |-> IF k = l THEN Behind(bytes[k], f[k + 1]) ELSE f[k]]
  <2>b. \A k : k \in dom <=> k = l \/ k \in (n + 1 - m)..(n + 1)
    BY <1>2, <2>a, SMT
  <2>c. \A k \in (n + 1 - m)..(n + 1) : k # l
    BY <1>2, <2>a, SMT
  <2>2. ASSUME NEW k \in dom
        PROVE  g[k] = IF k > n THEN <<192>> ELSE Behind(bytes[k], g[k + 1])
    <3>1. CASE k = l
      <4>1. k + 1 \in (n + 1 - m)..(n + 1) /\ ~(k > n)
        BY <1>2, <2>a, <3>1, SMT
      <4>2. k + 1 \in dom /\ k + 1 # l
        BY <2>b, <2>c, <4>1, Zenon
      <4> HIDE DEF dom
      <4>3. g[k + 1] = f[k + 1]
        BY <4>2, Zenon
      <4>4. g[k] = Behind(bytes[k], f[k + 1])
        BY <3>1, Zenon
      <4>5. QED
        BY <4>1, <4>3, <4>4, Zenon
    <3>2. CASE k # l
      <4>1. k \in (n + 1 - m)..(n + 1)
        BY <2>b, <3>2, Zenon
      <4>2. f[k] = IF k > n THEN <<192>> ELSE Behind(bytes[k], f[k + 1])
        BY <2>1, <4>1, Zenon
      <4>3. ~(k > n) => k + 1 \in (n + 1 - m)..(n + 1)
        BY <1>2, <4>1, SMT
      <4>4. ~(k > n) => k + 1 \in dom /\ k + 1 # l
        BY <2>b, <2>c, <4>3, Zenon
      <4> HIDE DEF dom
      <4>5. ~(k > n) => g[k + 1] = f[k + 1]
        BY <4>4, Zenon
      <4>6. g[k] = f[k]
        BY <3>2, Zenon
      <4>7. QED
        BY <4>2, <4>5, <4>6, Zenon
    <3>3. QED
      BY <3>1, <3>2
  <2>3. g = [k \in dom |-> IF k > n THEN <<192>> ELSE Behind(bytes[k], g[k + 1])]
    BY <2>2, Zenon
  <2>4. m + 1 \in 0..n
    BY <1>2, SMT
  <2> HIDE DEF g
  <2>5. QED
    BY <2>3, <2>4, Zenon DEF Slips
<1> HIDE DEF P
<1>3. \A m \in 0..n : m \in P
  BY <1>1, <1>2, UpTo, Zenon
<1>4. n \in 0..n
  BY SMT
<1>5. QED
  BY <1>3, <1>4 DEF P

LEMMA SlippedSteps ==
  ASSUME NEW bytes, NEW n \in Nat, n = Len(bytes)
  PROVE  /\ Slipped(bytes)[n + 1] = <<192>>
         /\ \A k \in 1..n : Slipped(bytes)[k] = Behind(bytes[k], Slipped(bytes)[k + 1])
<1>1. PICK s : s = Slipped(bytes)
  OBVIOUS
<1>2. n + 1 - n = 1
  BY SMT
<1>3. \E f : f = [k \in 1..(n + 1) |-> IF k > n THEN <<192>> ELSE Behind(bytes[k], f[k + 1])]
  <2>1. PICK f : Slips(bytes, n, n, f)
    BY SlippedExists, Zenon
  <2>2. f = [k \in (n + 1 - n)..(n + 1) |-> IF k > n THEN <<192>> ELSE Behind(bytes[k], f[k + 1])]
    BY <2>1, Zenon DEF Slips
  <2>3. f = [k \in 1..(n + 1) |-> IF k > n THEN <<192>> ELSE Behind(bytes[k], f[k + 1])]
    BY <1>2, <2>2, Zenon
  <2>4. QED
    BY <2>3, Zenon
<1>4. s = [k \in 1..(n + 1) |-> IF k > n THEN <<192>> ELSE Behind(bytes[k], s[k + 1])]
  BY <1>1, <1>3, Zenon DEF Slipped, Behind
<1>5. n + 1 \in 1..(n + 1) /\ n + 1 > n /\ \A k \in 1..n : k \in 1..(n + 1) /\ ~(k > n)
  BY SMT
<1>6. s[n + 1] = <<192>>
  BY <1>4, <1>5, Zenon
<1>7. \A k \in 1..n : s[k] = Behind(bytes[k], s[k + 1])
  BY <1>4, <1>5, Zenon
<1>8. QED
  BY <1>1, <1>6, <1>7, Zenon

-----------------------------------------------------------------------------
(* Escaping.  What stands on the line for a byte b in front of u is either *)
(* b itself, no delimiter and no escape; or an escape and the byte that    *)
(* h5_unslip_one_byte turns back into b.                                   *)
Plain(b, v, u) == b \notin {192, 219} /\ Head(v) = b /\ Tail(v) = u
Twofold(b, v, u) ==
  /\ Head(v) = 219 /\ Tail(v) # << >> /\ Head(Tail(v)) \in DOMAIN Unescape
  /\ Unescape[Head(Tail(v))] = b /\ Tail(Tail(v)) = u
Reads(b, v, u) == v \in Seq(Byte) /\ v # << >> /\ (Plain(b, v, u) \/ Twofold(b, v, u))

LEMMA BehindReads == ASSUME NEW b \in Byte, NEW u \in Seq(Byte)
                     PROVE  Reads(b, Behind(b, u), u)
<1>1. ASSUME NEW x \in Byte PROVE
        <<x>> \o u \in Seq(Byte) /\ <<x>> \o u # << >>
        /\ Head(<<x>> \o u) = x /\ Tail(<<x>> \o u) = u
  BY HeadTailProperties, ConcatProperties, SMT
<1>2. ASSUME NEW x \in Byte, NEW y \in Byte PROVE
        <<x, y>> \o u \in Seq(Byte) /\ <<x, y>> \o u # << >>
        /\ Head(<<x, y>> \o u) = x
        /\ Tail(<<x, y>> \o u) = <<y>> \o u
  BY HeadTailProperties, ConcatProperties, SMT
<1>3. CASE b \notin {17, 19, 192, 219}
  <2>1. Behind(b, u) = <<b>> \o u
    BY <1>3 DEF Behind, Escape
  <2>2. QED
    BY <1>1, <1>3, <2>1 DEF Reads, Plain
<1>4. ASSUME NEW y \in DOMAIN Unescape, y \in Byte, Unescape[y] = b, Escape(b) = <<219, y>>
      PROVE  Reads(b, Behind(b, u), u)
  <2>1. Behind(b, u) = <<219, y>> \o u /\ 219 \in Byte
    BY <1>4 DEF Behind, Byte
  <2>2. Tail(Behind(b, u)) = <<y>> \o u
    BY <1>2, <1>4, <2>1
  <2>3. /\ <<y>> \o u # << >> /\ Head(<<y>> \o u) = y /\ Tail(<<y>> \o u) = u
    BY <1>1, <1>4
  <2>4. /\ Behind(b, u) \in Seq(Byte) /\ Behind(b, u) # << >>
        /\ Head(Behind(b, u)) = 219
    BY <1>2, <1>4, <2>1
  <2>5. QED
    BY <1>4, <2>2, <2>3, <2>4, Zenon DEF Reads, Twofold
<1>5. CASE b = 192
  <2>1. 220 \in DOMAIN Unescape /\ 220 \in Byte /\ Unescape[220] = 192
    BY SMT DEF Unescape, Byte
  <2>2. Escape(192) = <<219, 220>>
    BY SMT DEF Escape
  <2>3. QED
    BY <1>4, <1>5, <2>1, <2>2, SMT
<1>6. CASE b = 219
  <2>1. 221 \in DOMAIN Unescape /\ 221 \in Byte /\ Unescape[221] = 219
    BY SMT DEF Unescape, Byte
  <2>2. Escape(219) = <<219, 221>>
    BY SMT DEF Escape
  <2>3. QED
    BY <1>4, <1>6, <2>1, <2>2, SMT
<1>7. CASE b = 17
  <2>1. 222 \in DOMAIN Unescape /\ 222 \in Byte /\ Unescape[222] = 17
    BY SMT DEF Unescape, Byte
  <2>2. Escape(17) = <<219, 222>>
    BY SMT DEF Escape
  <2>3. QED
    BY <1>4, <1>7, <2>1, <2>2, SMT
<1>8. CASE b = 19
  <2>1. 223 \in DOMAIN Unescape /\ 223 \in Byte /\ Unescape[223] = 19
    BY SMT DEF Unescape, Byte
  <2>2. Escape(19) = <<219, 223>>
    BY SMT DEF Escape
  <2>3. QED
    BY <1>4, <1>8, <2>1, <2>2, SMT
<1>9. QED
  BY <1>3, <1>5, <1>6, <1>7, <1>8

LEMMA SlippedTyped ==
  ASSUME NEW bytes \in Seq(Byte), NEW n \in Nat, n = Len(bytes)
  PROVE  \A k \in 1..(n + 1) : Slipped(bytes)[k] \in Seq(Byte)
<1>1. PICK s : s = Slipped(bytes)
  OBVIOUS
<1>2. s[n + 1] = <<192>> /\ \A k \in 1..n : s[k] = Behind(bytes[k], s[k + 1])
  BY <1>1, SlippedSteps
<1>3. \A k \in 1..n : bytes[k] \in Byte
  BY ElementOfSeq
<1> DEFINE P == {m \in 0..n : s[n + 1 - m] \in Seq(Byte)}
<1>4. 0 \in P
  <2>1. <<192>> \in Seq(Byte)
    BY DEF Byte
  <2>2. n + 1 - 0 = n + 1 /\ 0 \in 0..n
    OBVIOUS
  <2>3. QED
    BY <1>2, <2>1, <2>2
<1>5. ASSUME NEW m \in 0..n, m < n, m \in P PROVE m + 1 \in P
  <2>a. n - m \in 1..n
    BY <1>5, SMT
  <2>1. PICK l \in 1..n : l = n - m
    BY <2>a, Zenon
  <2>2. n + 1 - m = l + 1 /\ n + 1 - (m + 1) = l /\ m + 1 \in 0..n
    BY <1>5, <2>1, SMT
  <2>3. s[l + 1] \in Seq(Byte)
    <3>1. s[n + 1 - m] \in Seq(Byte)
      BY <1>5, Zenon
    <3>2. QED
      BY <2>2, <3>1, Zenon
  <2>4. s[l] \in Seq(Byte)
    BY <1>2, <1>3, <2>3, BehindReads DEF Reads
  <2>5. QED
    BY <2>2, <2>4
<1> HIDE DEF P
<1>6. \A m \in 0..n : m \in P
  BY <1>4, <1>5, UpTo, Zenon
<1>7. ASSUME NEW k \in 1..(n + 1) PROVE s[k] \in Seq(Byte)
  <2>1. PICK m \in 0..n : m = n + 1 - k
    OBVIOUS
  <2>2. n + 1 - m = k
    BY <2>1
  <2>3. QED
    BY <1>6, <2>2 DEF P
<1>8. QED
  BY <1>1, <1>7

(* What h5_recv finds on the line in front of each byte of a packet.       *)
LEMMA SlippedReads ==
  ASSUME NEW w \in Seq(Byte), NEW k \in Nat, k < Len(w)
  PROVE  Reads(w[k + 1], Slipped(w)[k + 1], Slipped(w)[k + 2])
<1>1. PICK n \in Nat : n = Len(w)
  BY LenProperties
<1>2. k + 1 \in 1..n /\ k + 2 \in 1..(n + 1) /\ (k + 1) + 1 = k + 2
  BY <1>1
<1>3. w[k + 1] \in Byte
  BY <1>1, <1>2, ElementOfSeq
<1>4. Slipped(w)[k + 2] \in Seq(Byte)
  BY <1>1, <1>2, SlippedTyped
<1>5. Slipped(w)[k + 1] = Behind(w[k + 1], Slipped(w)[k + 2])
  BY <1>1, <1>2, SlippedSteps
<1>6. QED
  BY <1>3, <1>4, <1>5, BehindReads

-----------------------------------------------------------------------------
(* The packet of a frame: the header announces its length, its type and    *)
(* whether a CRC follows, and adds up.                                     *)
Sized(f) == f \in Frame /\ Len(f.data) <= 4095

Announces(h, f) ==
  /\ h \in Seq(Byte) /\ Len(h) = 4
  /\ LenOf(h) = Len(f.data) /\ h[2] % 16 = f.type /\ HeaderSum(h) = h[4]
  /\ HasCrc(h) = f.crc
  /\ ~IsReliable(f.type) => ~Reliable(h)

LEMMA HeaderAnnounces == ASSUME NEW f, Sized(f), NEW ack \in {0, 3}
                         PROVE  Announces(Header(f, ack), f)
<1>1. Len(f.data) \in Nat /\ Len(f.data) <= 4095
  BY LenProperties DEF Sized, Frame
<1>2. f.type \in 0..15 /\ f.seq \in 0..7 /\ f.crc \in BOOLEAN
  BY DEF Sized, Frame
<1>3. PICK n, t, r, z : /\ n = Len(f.data) /\ t = f.type
                        /\ r = (IF IsReliable(f.type) THEN 128 + f.seq ELSE 0)
                        /\ z = (IF f.crc THEN 64 ELSE 0)
  OBVIOUS
<1>4. n \in Nat /\ n <= 4095 /\ t \in Nat /\ t <= 15
  <2>1. n \in Nat /\ n <= 4095
    BY <1>1, <1>3
  <2>2. t \in 0..15
    BY <1>2, <1>3, Zenon
  <2>3. QED
    BY <2>1, <2>2
<1>5. r \in Nat /\ (IsReliable(f.type) \/ r = 0) /\ (r = 0 \/ (128 <= r /\ r <= 135))
  <2>1. CASE IsReliable(f.type)
    BY <1>2, <1>3, <2>1
  <2>2. CASE ~IsReliable(f.type)
    BY <1>3, <2>2
  <2>3. QED
    BY <2>1, <2>2
<1>6. (f.crc = TRUE /\ z = 64) \/ (f.crc = FALSE /\ z = 0)
  BY <1>2, <1>3
<1>7. PICK a, b, c : a = ack * 8 + r + z /\ b = ((n * 16) % 256) + t /\ c = (n \div 16) % 256
  OBVIOUS
<1>8. PICK d : d = HeaderSum(<<a, b, c>>)
  OBVIOUS
<1>9. PICK h : h = Header(f, ack)
  OBVIOUS
<1>10. h = <<a, b, c, d>>
  BY <1>3, <1>7, <1>8, <1>9 DEF Header
<1>11. d = 255 - ((a + b + c) % 256)
  BY <1>8, SMT DEF HeaderSum
<1>12. ack \in Nat /\ (ack = 0 \/ ack = 3)
  OBVIOUS
<1>13. a \in 0..255 /\ (r = 0 => ~(a >= 128))
  BY <1>5, <1>6, <1>7, <1>12, SMT
<1>14. /\ z = 64 => (a \div 64) % 2 = 1
       /\ z = 0 => (a \div 64) % 2 # 1
  BY <1>5, <1>7, <1>12, SMT
<1>15. b \in 0..255 /\ c \in 0..255 /\ (b \div 16) + c * 16 = n /\ b % 16 = t
  BY <1>4, <1>7, SMT
<1>16. d \in 0..255
  BY <1>11, <1>13, <1>15, SMT
<1>17. h \in Seq(Byte) /\ Len(h) = 4 /\ h[1] = a /\ h[2] = b /\ h[3] = c /\ h[4] = d
  BY <1>10, <1>13, <1>15, <1>16, SMT DEF Byte
<1>18. LenOf(h) = n /\ HeaderSum(h) = h[4]
  BY <1>11, <1>15, <1>17, SMT DEF LenOf, HeaderSum
<1>19. HasCrc(h) = f.crc
  <2>1. HasCrc(h) <=> (a \div 64) % 2 = 1
    BY <1>17 DEF HasCrc
  <2>2. HasCrc(h) \in BOOLEAN
    BY DEF HasCrc
  <2>3. HasCrc(h) <=> f.crc = TRUE
    BY <1>6, <1>14, <2>1
  <2>4. QED
    BY <1>6, <2>2, <2>3, Zenon
<1>20. ~IsReliable(f.type) => ~Reliable(h)
  BY <1>5, <1>13, <1>17, SMT DEF Reliable
<1>21. QED
  BY <1>3, <1>9, <1>15, <1>17, <1>18, <1>19, <1>20, SMT DEF Announces

(* The packet w of a frame: header and payload, which c is, and its CRC.   *)
Holds(w, c, f) ==
  /\ w \in Seq(Byte) /\ c \in Seq(Byte) /\ Len(c) = 4 + Len(f.data)
  /\ Len(w) = (IF f.crc THEN 6 ELSE 4) + Len(f.data)
  /\ \A j \in 1..Len(c) : w[j] = c[j]
  /\ \A j \in 1..Len(f.data) : c[4 + j] = f.data[j]
  /\ \E h : Announces(h, f) /\ \A j \in 1..4 : c[j] = h[j]
  /\ f.crc => w[Len(w)] + w[Len(w) - 1] * 256 = CrcOf(c)

LEMMA HighLow == ASSUME NEW x \in Word, NEW p, NEW q, p = x \div 256, q = x % 256
                 PROVE  p \in Byte /\ q \in Byte /\ q + p * 256 = x
<1>1. x \in Int /\ 0 <= x /\ x <= 65535
  BY DEF Word
<1>2. q \in 0..255 /\ p \in Int
  BY <1>1
<1>3. x = 256 * p + q
  BY <1>1
<1>4. q + 256 * p >= 0 /\ q + 256 * p <= 65535
  BY <1>1, <1>2, <1>3
<1>5. p \in 0..255
  BY ONLY <1>2, <1>4, SMT
<1>6. q + p * 256 = x
  BY ONLY <1>2, <1>3, SMT
<1>7. QED
  BY <1>2, <1>5, <1>6, Zenon DEF Byte

Join(s, t) == s \o t
Joins(S, s, t, c) ==
  /\ c \in Seq(S) /\ Len(c) = Len(s) + Len(t)
  /\ \A j \in 1..(Len(s) + Len(t)) : c[j] = IF j <= Len(s) THEN s[j] ELSE t[j - Len(s)]

LEMMA Joined == ASSUME NEW S, NEW s \in Seq(S), NEW t \in Seq(S)
                PROVE  Joins(S, s, t, Join(s, t))
  BY ConcatProperties DEF Joins, Join

LEMMA PackedHolds ==
  ASSUME NEW f, Sized(f), NEW ack \in {0, 3}, CrcOf(Checked(f, ack)) \in Word
  PROVE  Holds(Packed(f, ack), Checked(f, ack), f)
<1>1. PICK h : h = Header(f, ack)
  OBVIOUS
<1>2. Announces(h, f)
  BY <1>1, HeaderAnnounces
<1>3. h \in Seq(Byte) /\ Len(h) = 4
  BY <1>2 DEF Announces
<1>4. PICK d \in Seq(Byte) : d = f.data
  BY DEF Sized, Frame
<1>5. PICK n \in Nat : n = Len(d)
  BY LenProperties
<1>6. PICK c : c = Checked(f, ack)
  OBVIOUS
<1>7. c = Join(h, d)
  BY <1>1, <1>4, <1>6 DEF Checked, Join
<1>8. /\ c \in Seq(Byte) /\ Len(c) = 4 + n
      /\ \A j \in 1..4 : c[j] = h[j]
      /\ \A j \in 1..n : c[4 + j] = d[j]
  <2>1. /\ c \in Seq(Byte) /\ Len(c) = Len(h) + Len(d)
        /\ \A j \in 1..(Len(h) + Len(d)) :
             c[j] = IF j <= Len(h) THEN h[j] ELSE d[j - Len(h)]
    <3>1. Joins(Byte, h, d, c)
      BY <1>3, <1>7, Joined, Zenon
    <3>2. QED
      BY <3>1, Zenon DEF Joins
  <2>2. ASSUME NEW j \in 1..4 PROVE c[j] = h[j]
    BY <1>3, <1>5, <2>1
  <2>3. ASSUME NEW j \in 1..n PROVE c[4 + j] = d[j]
    <3>1. 4 + j \in 1..(4 + n) /\ ~(4 + j <= 4) /\ (4 + j) - 4 = j
      BY <1>5, SMT
    <3>2. QED
      BY <1>3, <1>5, <2>1, <3>1, Zenon
  <2>4. QED
    BY <1>3, <1>5, <2>1, <2>2, <2>3
<1>9. PICK w : w = Packed(f, ack)
  OBVIOUS
<1>10. CASE ~f.crc
  <2>1. w = c
    BY <1>6, <1>9, <1>10 DEF Packed
  <2>2. QED
    BY <1>2, <1>4, <1>5, <1>6, <1>8, <1>9, <1>10, <2>1 DEF Holds
<1>11. CASE f.crc
  <2>1. PICK x \in Word : x = CrcOf(c)
    BY <1>6
  <2>2. PICK p, q : p = x \div 256 /\ q = x % 256
    OBVIOUS
  <2>3. p \in Byte /\ q \in Byte /\ q + p * 256 = x
    BY <2>2, HighLow
  <2>4. w = c \o <<p, q>>
    BY <1>6, <1>9, <1>11, <2>1, <2>2 DEF Packed
  <2>5. <<p, q>> \in Seq(Byte) /\ Len(<<p, q>>) = 2 /\ <<p, q>>[1] = p /\ <<p, q>>[2] = q
    BY <2>3
  <2>6. /\ w \in Seq(Byte) /\ Len(w) = n + 6
        /\ \A j \in 1..(4 + n) : w[j] = c[j]
    BY <1>5, <1>8, <2>4, <2>5, ConcatProperties
  <2>7. w[n + 5] = p /\ w[n + 6] = q
    BY <1>5, <1>8, <2>4, <2>5, ConcatProperties
  <2>8. w[Len(w)] + w[Len(w) - 1] * 256 = x
    BY <2>3, <2>6, <2>7
  <2>9. QED
    BY <1>2, <1>4, <1>5, <1>6, <1>8, <1>9, <1>11, <2>1, <2>6, <2>8 DEF Holds
<1>12. QED
  BY <1>10, <1>11

(* What is written for a frame is bytes.                                   *)
LEMMA PreparedTyped ==
  ASSUME NEW w \in Seq(Byte) PROVE <<192>> \o Slipped(w)[1] \in Seq(Byte)
<1>1. PICK n \in Nat : n = Len(w)
  BY LenProperties
<1>2. Slipped(w)[1] \in Seq(Byte)
  <2>1. 1 \in 1..(n + 1)
    OBVIOUS
  <2>2. QED
    BY <1>1, <2>1, SlippedTyped
<1>3. <<192>> \in Seq(Byte)
  BY DEF Byte
<1>4. QED
  BY <1>2, <1>3, ConcatProperties

-----------------------------------------------------------------------------
InPacket == rx_state \in {"W4_HDR", "W4_DATA", "W4_CRC"}

Typed ==
  /\ rx_state \in {"W4_PKT_DELIMITER", "W4_PKT_START", "W4_HDR", "W4_DATA", "W4_CRC"}
  /\ rx_count \in Nat
  /\ rx_skb \in Seq(Byte) /\ exited = FALSE
  /\ input \in Seq(Byte)

(* Bytes are awaited only inside a packet, and then into a live buffer.    *)
Awaiting == (rx_count > 0 => InPacket) /\ (InPacket => live = TRUE)

(* In each state the bytes stored and the bytes awaited add up to what the *)
(* header has announced at most: 4, 4 + 4095 and 4 + 4095 + 2.             *)
Room ==
  /\ rx_state = "W4_HDR"  => Len(rx_skb) + rx_count = 4
  /\ rx_state = "W4_DATA" => Len(rx_skb) >= 4 /\ Len(rx_skb) + rx_count <= 4099
  /\ rx_state = "W4_CRC"  => /\ Len(rx_skb) >= 4
                             /\ Len(rx_skb) + rx_count >= 6 /\ Len(rx_skb) + rx_count <= 4101

Inv == Typed /\ Awaiting /\ Room

(* The line is one of those considered, and stays the same.                *)
Chosen == line \in DOMAIN Lines

(* The length field of a header is twelve bits wide (h5_recv, W4_HDR).     *)
LEMMA LenOfBound == ASSUME NEW h \in Seq(Byte), Len(h) >= 3
                    PROVE  LenOf(h) \in Nat /\ LenOf(h) <= 4095
<1>1. 2 \in 1..Len(h) /\ 3 \in 1..Len(h)
  BY LenProperties
<1>2. h[2] \in 0..255 /\ h[3] \in 0..255
  BY <1>1, ElementOfSeq, SMTT(30) DEF Byte
<1>3. PICK a \in 0..255, b \in 0..255 : a = h[2] /\ b = h[3]
  BY <1>2
<1>4. LenOf(h) = (a \div 16) + b * 16
  BY <1>3, Zenon DEF LenOf
<1>5. (a \div 16) + b * 16 \in Nat /\ (a \div 16) + b * 16 <= 4095
  BY SMT
<1>6. QED
  BY <1>4, <1>5

(* One byte taken from the line leaves bytes on the line.                  *)
LEMMA InputTyped == ASSUME input \in Seq(Byte), input # << >>
                    PROVE  Head(input) \in Byte /\ Tail(input) \in Seq(Byte)
  BY HeadTailProperties

(* Damage leaves bytes as well.                                            *)
LEMMA DamageTyped == ASSUME NEW s \in Seq(Byte), Damage(s), Chosen
                     PROVE  input' \in Seq(Byte)
<1>0. On.noise \subseteq Byte
  BY LinesAssumption DEF Chosen, On
<1>1. CASE \E k \in 1..Len(s), b \in On.noise : input' = [s EXCEPT ![k] = b]
  BY <1>0, <1>1, ExceptSeq
<1>2. CASE \E k \in 1..Len(s) :
             input' = SubSeq(s, 1, k - 1) \o SubSeq(s, k + 1, Len(s))
  <2>1. \A k \in 1..Len(s) :
          SubSeq(s, 1, k - 1) \in Seq(Byte) /\ SubSeq(s, k + 1, Len(s)) \in Seq(Byte)
    BY SubSeqProperties
  <2>2. QED
    BY <1>2, <2>1, ConcatProperties
<1>3. CASE \E k \in 0..Len(s), b \in On.noise :
             input' = SubSeq(s, 1, k) \o <<b>> \o SubSeq(s, k + 1, Len(s))
  <2>1. \A k \in 0..Len(s) :
          SubSeq(s, 1, k) \in Seq(Byte) /\ SubSeq(s, k + 1, Len(s)) \in Seq(Byte)
    BY SubSeqProperties
  <2>2. \A b \in On.noise : <<b>> \in Seq(Byte)
    BY <1>0
  <2>3. QED
    BY <1>3, <2>1, <2>2, ConcatProperties
<1>4. QED
  BY <1>1, <1>2, <1>3 DEF Damage

-----------------------------------------------------------------------------
LEMMA InitInv == Init => Inv
<1>1. << >> \in Seq(Byte)
  OBVIOUS
<1>2. QED
  BY <1>1 DEF Init, Inv, Typed, Awaiting, Room, InPacket

(* A byte that is stored is one that was awaited, and there is room for it.*)
LEMMA StoreInv == ASSUME Inv, NEW b \in Byte, rx_count > 0, Store(b),
                         rx_state' = rx_state, live' = live, input' \in Seq(Byte)
                  PROVE  Inv'
<1>1. /\ Append(rx_skb, b) \in Seq(Byte)
      /\ Len(Append(rx_skb, b)) = Len(rx_skb) + 1
      /\ Len(rx_skb) \in Nat
  BY AppendProperties, LenProperties DEF Inv, Typed
<1>2. Len(rx_skb) + 1 <= BufLen
  BY <1>1, BufLenAssumption DEF Inv, Typed, Awaiting, Room, InPacket
<1>3. rx_skb' = Append(rx_skb, b) /\ rx_count' = rx_count - 1 /\ exited' = exited
  BY <1>1, <1>2, BufLenAssumption DEF Store
<1>4. QED
  BY <1>1, <1>3 DEF Inv, Typed, Awaiting, Room, InPacket

LEMMA ReceiveInv == ASSUME Inv, Receive PROVE Inv'
<1>1. CASE ShortPacket
  BY <1>1, InputTyped
    DEF ShortPacket, Awaits, Consume, Drop,
        Inv, Typed, Awaiting, Room, InPacket
<1>2. CASE EscapeByte
  BY <1>2, InputTyped
    DEF EscapeByte, Awaits, Consume, Drop,
        Inv, Typed, Awaiting, Room, InPacket
<1>3. CASE PlainByte
  <2>1. rx_count > 0 /\ Store(Head(input)) /\ rx_state' = rx_state /\ live' = live
    BY <1>3 DEF PlainByte, Awaits
  <2>2. Head(input) \in Byte /\ input' \in Seq(Byte)
    BY <1>3, InputTyped DEF PlainByte, Awaits, Consume, Inv, Typed
  <2>3. QED
    BY <2>1, <2>2, StoreInv
<1>4. CASE EscapedByte
  <2>1. Unescape[Head(input)] \in Byte
    BY <1>4 DEF EscapedByte, Unescape, Byte
  <2>2. /\ rx_count > 0 /\ Store(Unescape[Head(input)])
        /\ rx_state' = rx_state /\ live' = live
    BY <1>4 DEF EscapedByte, Awaits
  <2>3. input' \in Seq(Byte)
    BY <1>4, InputTyped DEF EscapedByte, Awaits, Consume, Inv, Typed
  <2>4. QED
    BY <2>1, <2>2, <2>3, StoreInv
<1>5. CASE InvalidEscape
  BY <1>5, InputTyped
    DEF InvalidEscape, Awaits, Consume, Drop,
        Inv, Typed, Awaiting, Room, InPacket
<1>6. CASE HeaderDone
  <2>1. CASE rx_state' = "W4_PKT_DELIMITER"
    BY <1>6, <2>1
      DEF HeaderDone, Arrived, Consume, Drop,
          Inv, Typed, Awaiting, Room, InPacket
  <2>2. CASE rx_state' = "W4_DATA" /\ rx_count' = LenOf(rx_skb) /\ UNCHANGED live
    <3>1. Len(rx_skb) = 4
      BY <1>6, LenProperties DEF HeaderDone, Arrived, Inv, Typed, Room
    <3>2. rx_skb \in Seq(Byte) /\ Len(rx_skb) >= 3
      BY <3>1 DEF Inv, Typed
    <3>3. LenOf(rx_skb) \in Nat /\ LenOf(rx_skb) <= 4095
      BY <3>2, LenOfBound
    <3>4. QED
      BY <1>6, <2>2, <3>1, <3>3
        DEF HeaderDone, Arrived, Inv, Typed, Awaiting, Room, InPacket
  <2>3. QED
    BY <1>6, <2>1, <2>2 DEF HeaderDone, Drop
<1>7. CASE DataDone
  <2>1. CASE HasCrc(rx_skb)
    BY <1>7, <2>1, LenProperties
      DEF DataDone, Arrived, Consume, Drop,
          Inv, Typed, Awaiting, Room, InPacket
  <2>2. CASE ~HasCrc(rx_skb)
    BY <1>7, <2>2
      DEF DataDone, CompletePkt, Arrived, Consume, Drop,
          Inv, Typed, Awaiting, Room, InPacket
  <2>3. QED
    BY <2>1, <2>2
<1>8. CASE CrcDone
  <2>1. Len(rx_skb) \in Nat
    BY LenProperties DEF Inv, Typed
  <2>2. \A k \in 1..(Len(rx_skb) - 2) : rx_skb[k] \in Byte
    BY <2>1, ElementOfSeq DEF Inv, Typed
  <2>3. SubSeq(rx_skb, 1, Len(rx_skb) - 2) \in Seq(Byte)
    BY <2>1, <2>2, SubSeqProperties
  <2>4. CASE CompletePkt(SubSeq(rx_skb, 1, Len(rx_skb) - 2))
    BY <1>8, <2>3, <2>4
      DEF CrcDone, CompletePkt, Arrived, Consume, Drop,
          Inv, Typed, Awaiting, Room, InPacket
  <2>5. CASE Drop("W4_PKT_DELIMITER") /\ UNCHANGED rx_skb
    BY <1>8, <2>5
      DEF CrcDone, Arrived, Consume, Drop,
          Inv, Typed, Awaiting, Room, InPacket
  <2>6. QED
    BY <1>8, <2>4, <2>5 DEF CrcDone
<1>9. CASE Delimiter
  BY <1>9, InputTyped
    DEF Delimiter, Arrived, Consume, Drop,
        Inv, Typed, Awaiting, Room, InPacket
<1>10. CASE PktStart
  <2>1. << >> \in Seq(Byte) /\ Len(<< >>) = 0
    OBVIOUS
  <2>2. CASE Head(input) = 192
    BY <1>10, <2>2, InputTyped
      DEF PktStart, Arrived, Consume, Drop,
          Inv, Typed, Awaiting, Room, InPacket
  <2>3. CASE Head(input) # 192
    BY <1>10, <2>1, <2>3
      DEF PktStart, Arrived, Consume, Drop,
          Inv, Typed, Awaiting, Room, InPacket
  <2>4. QED
    BY <2>2, <2>3
<1>11. QED
  BY <1>1, <1>2, <1>3, <1>4, <1>5, <1>6, <1>7, <1>8, <1>9, <1>10 DEF Receive

LEMMA EncodedIs == ASSUME Chosen, NEW f \in On.frames, NEW ack \in {0, 3}
                   PROVE  /\ Sized(f) /\ Holds(Packed(f, ack), Checked(f, ack), f)
                          /\ Encoded[line][f][ack] = PreparePkt(f, ack)
                          /\ PreparePkt(f, ack) \in Seq(Byte)
<1>1. line \in DOMAIN Lines /\ f \in Lines[line].frames
  BY DEF Chosen, On
<1>2. Sized(f)
  BY <1>1, LinesAssumption, FramesAssumption DEF Sized
<1>3. CrcOf(Checked(f, ack)) \in Word
  <2>1. \A a \in {0, 3} : CrcOf(Checked(f, a)) \in Word
    BY <1>1, FramesAssumption
  <2>2. QED
    BY <2>1, Zenon
<1>4. Holds(Packed(f, ack), Checked(f, ack), f)
  BY <1>2, <1>3, PackedHolds, Zenon
<1>5. Encoded[line][f][ack] = PreparePkt(f, ack)
  BY <1>1, Zenon DEF Encoded
<1>6. Packed(f, ack) \in Seq(Byte)
  BY <1>4, Zenon DEF Holds
<1>7. PreparePkt(f, ack) \in Seq(Byte)
  BY <1>6, PreparedTyped DEF PreparePkt
<1>8. QED
  BY <1>2, <1>4, <1>5, <1>7, Zenon

LEMMA FeedInv == ASSUME Inv, Chosen, Feed PROVE Inv'
<1>1. UNCHANGED rxvars
  BY DEF Feed, FeedIntact, FeedDamaged, FeedStray
<1>2. input' \in Seq(Byte)
  <2>1. CASE FeedIntact
    <3>1. PICK f \in On.frames, ack \in {0, 3} : input' = Encoded[line][f][ack]
      BY <2>1, Zenon DEF FeedIntact
    <3>2. QED
      BY <3>1, EncodedIs, Zenon
  <2>2. CASE FeedDamaged
    <3>1. PICK f \in On.frames : Damage(Encoded[line][f][0])
      BY <2>2, Zenon DEF FeedDamaged
    <3>2. Encoded[line][f][0] \in Seq(Byte)
      BY EncodedIs
    <3>3. QED
      BY <3>1, <3>2, DamageTyped, Zenon
  <2>3. CASE FeedStray
    BY <2>3, LinesAssumption DEF FeedStray, On, Chosen
  <2>4. QED
    BY <2>1, <2>2, <2>3 DEF Feed
<1>3. QED
  BY <1>1, <1>2 DEF Inv, Typed, Awaiting, Room, InPacket, rxvars

LEMMA NextInv == Inv /\ Chosen /\ [Next]_vars => Inv'
<1>1. CASE Idle \/ UNCHANGED vars
  BY <1>1 DEF Idle, vars, rxvars, Inv, Typed, Awaiting, Room, InPacket
<1>2. QED
  BY <1>1, FeedInv, ReceiveInv DEF Next

LEMMA ChosenInv == Chosen /\ [Next]_vars => Chosen'
<1>1. Next => UNCHANGED line
  BY DEF Next, Feed, FeedIntact, FeedDamaged, FeedStray, Receive, Idle, vars, envvars,
         ShortPacket, EscapeByte, PlainByte, EscapedByte, InvalidEscape, HeaderDone,
         DataDone, CrcDone, Delimiter, PktStart
<1>2. QED
  BY <1>1 DEF Chosen, vars, envvars

(* Inv is inductive.                                                       *)
THEOREM Invariance == Spec => []Inv
<1>1. Init => Chosen
  BY DEF Init, Chosen
<1>2. QED
  BY <1>1, InitInv, NextInv, ChosenInv, PTL DEF Spec

(* However long the packet a header announces, whatever is lost, inserted  *)
(* or changed on the line: skb_put never ends the program (h5_recv,        *)
(* skb_alloc(0x1005)).                                                     *)
THEOREM BufferFitsAlways == Spec => []BufferFits
<1>1. Inv => BufferFits
  BY BufLenAssumption, LenProperties DEF Inv, Typed, Room, BufferFits
<1>2. QED
  BY <1>1, Invariance, PTL

(* No path through h5_recv that frees the buffer leaves it in a state that *)
(* stores to it or reads from it.                                          *)
THEOREM BufferLiveAlways == Spec => []BufferLive
<1>1. Inv => BufferLive
  BY DEF Inv, Typed, Awaiting, InPacket, BufferLive
<1>2. QED
  BY <1>1, Invariance, PTL

-----------------------------------------------------------------------------
(* A frame that arrives as it was sent.  The bytes of the packet are w: k  *)
(* of them are stored, as they are in the packet, and the rest is on the   *)
(* line; or the frame was delivered.                                       *)
Last == sent[Len(sent)]
Packets == [head: Seq(Byte), data: Seq(Byte)]
Begins(s, w, k) == s \in Seq(Byte) /\ Len(s) = k /\ \A j \in 1..k : s[j] = w[j]

Delivered ==
  /\ delivered # << >>
  /\ delivered[Len(delivered)].data = Last.data
  /\ delivered[Len(delivered)].head[2] % 16 = Last.type

At(f, k) ==
  \/ rx_state = "W4_HDR"  /\ k + rx_count = 4
  \/ rx_state = "W4_DATA" /\ k >= 4 /\ k + rx_count = 4 + Len(f.data)
  \/ rx_state = "W4_CRC"  /\ f.crc /\ k >= 4 + Len(f.data) /\ k + rx_count = 6 + Len(f.data)

Summed(f, ack, k) ==
  f.crc => /\ k <= 4 + Len(f.data) => message_crc = Crcs(Checked(f, ack))[k]
           /\ k >= 4 + Len(f.data) => message_crc = Crcs(Checked(f, ack))[4 + Len(f.data)]

OnLine(w, k) ==
  \/ rx_esc_state = "NOESC" /\ input = Slipped(w)[k + 1]
  \/ /\ rx_esc_state = "ESC" /\ rx_count > 0
     /\ Head(Slipped(w)[k + 1]) = 219 /\ input = Tail(Slipped(w)[k + 1])

Inside(f, ack, k) ==
  /\ Begins(rx_skb, Packed(f, ack), k) /\ At(f, k) /\ Summed(f, ack, k)
  /\ OnLine(Packed(f, ack), k)

Followed(f, ack) ==
  \/ input = PreparePkt(f, ack)
  \/ /\ rx_state = "W4_PKT_START" /\ rx_count = 0
     /\ input = Slipped(Packed(f, ack))[1]
  \/ \E k \in 0..Len(Packed(f, ack)) : Inside(f, ack, k)
  \/ rx_state = "W4_PKT_DELIMITER" /\ rx_count = 0 /\ input = <<192>> /\ Delivered
  \/ input = << >> /\ Delivered

Sync ==
  /\ sent \in Seq(On.frames)
  /\ delivered \in Seq(Packets)
  /\ intact => /\ sent # << >>
               /\ IsReliable(Last.type) \/ \E ack \in {0, 3} : Followed(Last, ack)

(* What the receiver stores is what the sender packed, and the CRC it      *)
(* accumulates is the one of the bytes so far.                             *)
LEMMA StoreInside ==
  ASSUME NEW f, NEW ack, NEW w, NEW c, NEW k \in Nat, k < Len(w),
         Sized(f), Holds(w, c, f), c = Checked(f, ack),
         Inv, exited' = FALSE, Store(w[k + 1]), rx_state' = rx_state, rx_count > 0,
         Begins(rx_skb, w, k), At(f, k), Summed(f, ack, k)
  PROVE  Begins(rx_skb, w, k + 1)' /\ At(f, k + 1)' /\ Summed(f, ack, k + 1)'
<1>1. PICK n \in Nat : n = Len(f.data)
  BY LenProperties DEF Sized, Frame
<1>2. w \in Seq(Byte) /\ Len(c) = 4 + n /\ (\A j \in 1..(4 + n) : w[j] = c[j])
  BY <1>1 DEF Holds
<1>3. PICK b : b = w[k + 1]
  OBVIOUS
<1>4. b \in Byte
  <2>1. k + 1 \in 1..Len(w)
    BY <1>2, LenProperties
  <2>2. QED
    BY <1>2, <1>3, <2>1, ElementOfSeq
<1>5. PICK skb : skb = Append(rx_skb, b)
  OBVIOUS
<1>6. skb \in Seq(Byte) /\ Len(skb) = k + 1 /\ skb[k + 1] = b
      /\ \A j \in 1..k : skb[j] = rx_skb[j]
  BY <1>4, <1>5, AppendProperties DEF Begins
<1>7. \A j \in 1..(k + 1) : skb[j] = w[j]
  BY <1>3, <1>6 DEF Begins
<1>8. /\ rx_skb' = skb
      /\ message_crc' = IF HasCrc(skb) /\ rx_state # "W4_CRC"
                        THEN CrcStep(message_crc, b) ELSE message_crc
      /\ rx_count' = rx_count - 1
  BY <1>3, <1>5, Zenon DEF Store
<1>9. rx_count \in Nat
  BY DEF Inv, Typed
<1>10. Begins(rx_skb, w, k + 1)'
  BY <1>6, <1>7, <1>8, Zenon DEF Begins
<1>11. At(f, k + 1)'
  BY <1>1, <1>8, <1>9 DEF At
<1>12. HasCrc(skb) = f.crc
  <2>1. PICK h : Announces(h, f) /\ \A j \in 1..4 : c[j] = h[j]
    BY Zenon DEF Holds
  <2>2. 1 \in 1..(k + 1) /\ 1 \in 1..(4 + n) /\ 1 \in 1..4
    BY <1>1
  <2>3. skb[1] = w[1] /\ w[1] = c[1] /\ c[1] = h[1]
    BY <1>2, <1>7, <2>1, <2>2, SMT
  <2>4. QED
    BY <2>1, <2>3, Zenon DEF HasCrc, Announces
<1>13. PICK s : s = Crcs(c)
  OBVIOUS
<1>14. ASSUME f.crc PROVE
         /\ k + 1 <= 4 + n => message_crc' = s[k + 1]
         /\ k + 1 >= 4 + n => message_crc' = s[4 + n]
  <2>1. /\ k <= 4 + n => message_crc = s[k]
        /\ k >= 4 + n => message_crc = s[4 + n]
    BY <1>1, <1>13, <1>14, Zenon DEF Summed
  <2>2. CASE k + 1 <= 4 + n
    <3>1. k + 1 \in 1..(4 + n) /\ (k + 1) - 1 = k /\ k <= 4 + n
      BY <1>1, <2>2
    <3>2. rx_state # "W4_CRC"
      BY <1>1, <2>2 DEF At
    <3>3. message_crc' = CrcStep(s[k], c[k + 1])
      BY <1>2, <1>3, <1>8, <1>12, <1>14, <2>1, <3>1, <3>2, Zenon
    <3>4. 4 + n \in Nat
      BY <1>1
    <3>5. s[k + 1] = CrcStep(s[(k + 1) - 1], c[k + 1])
      BY <1>2, <1>13, <3>1, <3>4, CrcsSteps, Zenon
    <3>6. message_crc' = s[k + 1]
      BY <3>1, <3>3, <3>5, Zenon
    <3>7. k + 1 >= 4 + n => 4 + n = k + 1
      BY <1>1, <2>2
    <3>8. QED
      BY <3>6, <3>7, Zenon
  <2>3. CASE ~(k + 1 <= 4 + n)
    <3>1. k >= 4 + n
      BY <1>1, <2>3
    <3>2. rx_state = "W4_CRC"
      BY <1>1, <1>9, <3>1 DEF At
    <3>3. message_crc' = message_crc
      BY <1>8, <3>2, Zenon
    <3>4. QED
      BY <2>1, <2>3, <3>1, <3>3, Zenon
  <2>4. QED
    BY <2>2, <2>3
<1>15. Summed(f, ack, k + 1)'
  BY <1>1, <1>13, <1>14, Zenon DEF Summed
<1>16. QED
  BY <1>10, <1>11, <1>15

(* One byte of a packet that is on the line as it was sent: the receiver   *)
(* stores it, or takes its escape.                                         *)
LEMMA ReadInside ==
  ASSUME NEW f, NEW ack, NEW k \in 0..Len(Packed(f, ack)), Sized(f),
         Holds(Packed(f, ack), Checked(f, ack), f),
         Inv, Inv', Receive, Inside(f, ack, k), rx_count > 0
  PROVE  \E m \in 0..Len(Packed(f, ack)) : Inside(f, ack, m)'
<1>1. PICK w : w = Packed(f, ack)
  OBVIOUS
<1>2. PICK n \in Nat : n = Len(f.data)
  BY LenProperties DEF Sized, Frame
<1>3. w \in Seq(Byte) /\ Len(w) = (IF f.crc THEN 6 ELSE 4) + n
  BY <1>1, <1>2 DEF Holds
<1>4. k \in Nat /\ k < Len(w)
  <2>1. k \in Nat /\ rx_count \in Nat
    BY <1>1, <1>3, LenProperties DEF Inv, Typed
  <2>2. At(f, k)
    BY DEF Inside
  <2>3. k + rx_count <= 4 + n \/ (f.crc /\ k + rx_count = 6 + n)
    BY <1>2, <2>1, <2>2 DEF At
  <2>4. Len(w) \in Nat /\ Len(w) >= 4 + n /\ (f.crc => Len(w) = 6 + n)
    BY <1>3
  <2>5. QED
    BY <2>1, <2>3, <2>4
<1>5. Begins(rx_skb, w, k) /\ At(f, k) /\ Summed(f, ack, k) /\ OnLine(w, k)
  BY <1>1, Zenon DEF Inside
<1>6. PICK b, v, u : b = w[k + 1] /\ v = Slipped(w)[k + 1] /\ u = Slipped(w)[k + 2]
  OBVIOUS
<1>7. Reads(b, v, u)
  BY <1>3, <1>4, <1>6, SlippedReads, Zenon
<1>8. exited = FALSE /\ exited' = FALSE
  BY DEF Inv, Typed
<1>9. ~Arrived
  BY DEF Arrived, Inv, Typed
<1>10. ShortPacket \/ EscapeByte \/ PlainByte \/ EscapedByte \/ InvalidEscape
  BY <1>9, Zenon DEF Receive, HeaderDone, DataDone, CrcDone, Delimiter, PktStart
<1>11. k + 1 \in 0..Len(w) /\ (k + 1) + 1 = k + 2
  BY <1>4, <1>3, LenProperties
<1>12. ASSUME Store(b), rx_state' = rx_state, input' = u, rx_esc_state' = "NOESC"
       PROVE  Inside(f, ack, k + 1)'
  <2>1. Begins(rx_skb, w, k + 1)' /\ At(f, k + 1)' /\ Summed(f, ack, k + 1)'
    BY <1>1, <1>4, <1>5, <1>6, <1>8, <1>12, StoreInside, Zenon
  <2>2. OnLine(w, k + 1)'
    BY <1>6, <1>11, <1>12, Zenon DEF OnLine
  <2>3. QED
    BY <1>1, <2>1, <2>2, Zenon DEF Inside
<1>13. CASE rx_esc_state = "NOESC" /\ Plain(b, v, u)
  <2>1. input = v /\ Head(input) = b /\ b \notin {192, 219} /\ Tail(input) = u
    BY <1>5, <1>6, <1>13 DEF OnLine, Plain
  <2>2. PlainByte
    BY <1>10, <1>13, <2>1 DEF ShortPacket, EscapeByte, EscapedByte, InvalidEscape
  <2>3. Store(b) /\ rx_state' = rx_state /\ input' = u /\ rx_esc_state' = "NOESC"
    BY <1>13, <2>1, <2>2, Zenon DEF PlainByte, Consume
  <2>4. QED
    BY <1>1, <1>11, <1>12, <2>3, Zenon
<1>14. CASE rx_esc_state = "NOESC" /\ Twofold(b, v, u)
  <2>1. input = v /\ Head(input) = 219
    BY <1>5, <1>6, <1>14 DEF OnLine, Twofold
  <2>2. EscapeByte
    BY <1>10, <1>14, <2>1 DEF ShortPacket, PlainByte, EscapedByte, InvalidEscape
  <2>3. /\ rx_esc_state' = "ESC" /\ input' = Tail(v)
        /\ rx_state' = rx_state /\ rx_count' = rx_count
        /\ rx_skb' = rx_skb /\ message_crc' = message_crc
    BY <2>1, <2>2, Zenon DEF EscapeByte, Consume
  <2>4. OnLine(w, k)'
    BY <1>6, <2>1, <2>3, Zenon DEF OnLine
  <2>5. Begins(rx_skb, w, k)' /\ At(f, k)' /\ Summed(f, ack, k)'
    BY <1>5, <2>3, Zenon DEF Begins, At, Summed
  <2>6. QED
    BY <1>1, <2>4, <2>5, Zenon DEF Inside
<1>15. CASE rx_esc_state # "NOESC"
  <2>1. rx_esc_state = "ESC" /\ input = Tail(v) /\ Head(v) = 219
    BY <1>5, <1>6, <1>15 DEF OnLine
  <2>2. Twofold(b, v, u)
    BY <1>7, <2>1 DEF Reads, Plain
  <2>3. Head(input) \in DOMAIN Unescape /\ Unescape[Head(input)] = b /\ Tail(input) = u
    BY <2>1, <2>2, Zenon DEF Twofold
  <2>4. Head(input) # 192
    BY <2>3 DEF Unescape
  <2>5. EscapedByte
    BY <1>10, <1>15, <2>3, <2>4, Zenon DEF ShortPacket, PlainByte, EscapeByte, InvalidEscape
  <2>6. Store(b) /\ rx_state' = rx_state /\ input' = u /\ rx_esc_state' = "NOESC"
    BY <2>3, <2>5, Zenon DEF EscapedByte, Consume
  <2>7. QED
    BY <1>1, <1>11, <1>12, <2>6, Zenon
<1>16. QED
  BY <1>7, <1>13, <1>14, <1>15, Zenon DEF Reads

(* h5_complete_rx_pkt hands on the frame whose packet is in the buffer.    *)
LEMMA CompleteDelivers ==
  ASSUME NEW f, NEW w, NEW c, NEW skb, Sized(f), Holds(w, c, f),
         Begins(skb, w, 4 + Len(f.data)), delivered \in Seq(Packets), CompletePkt(skb),
         f = Last, sent' = sent
  PROVE  Delivered'
<1>1. PICK n \in Nat : n = Len(f.data)
  BY LenProperties DEF Sized, Frame
<1>2. /\ \A j \in 1..(4 + n) : w[j] = c[j]
      /\ \A j \in 1..n : c[4 + j] = f.data[j]
  BY <1>1 DEF Holds
<1>3. skb \in Seq(Byte) /\ Len(skb) = 4 + n /\ \A j \in 1..(4 + n) : skb[j] = w[j]
  BY <1>1, Zenon DEF Begins
<1>4. PICK head, data : head = SubSeq(skb, 1, 3) /\ data = SubSeq(skb, 5, Len(skb))
  OBVIOUS
<1>5. data = f.data
  <2>1. data \in Seq(Byte) /\ Len(data) = n /\ \A j \in 1..n : data[j] = skb[4 + j]
    <3>1. ASSUME NEW i \in 5..(4 + n) PROVE skb[i] \in Byte
      BY <1>1, <1>3, ElementOfSeq
    <3>2. QED
      BY <1>1, <1>3, <1>4, <3>1, SubSeqProperties
  <2>2. ASSUME NEW j \in 1..n PROVE data[j] = f.data[j]
    <3>1. 4 + j \in 1..(4 + n)
      BY <1>1
    <3>2. QED
      BY <1>2, <1>3, <2>1, <3>1, Zenon
  <2>3. f.data \in Seq(Byte)
    BY DEF Sized, Frame
  <2>4. PICK d \in Seq(Byte) : d = f.data
    BY <2>3, Zenon
  <2>5. Len(data) = Len(d) /\ \A j \in 1..Len(data) : data[j] = d[j]
    BY <1>1, <2>1, <2>2, <2>4, Zenon
  <2>6. data = d
    BY <2>1, <2>5, SeqEqual, Zenon
  <2>7. QED
    BY <2>4, <2>6, Zenon
<1>6. head[2] % 16 = f.type
  <2>1. PICK h : Announces(h, f) /\ \A j \in 1..4 : c[j] = h[j]
    BY Zenon DEF Holds
  <2>a. 2 \in 1..(4 + n) /\ 2 \in 1..4
    BY <1>1
  <2>2. skb[2] = w[2] /\ w[2] = c[2] /\ c[2] = h[2]
    BY <1>2, <1>3, <2>1, <2>a, SMT
  <2>3. head[2] = skb[2]
    BY <1>1, <1>3, <1>4, SubSeqProperties
  <2>4. QED
    BY <2>1, <2>2, <2>3 DEF Announces
<1>7. delivered' = Append(delivered, [head |-> head, data |-> data])
  BY <1>4, Zenon DEF CompletePkt
<1>8. PICK p : p = [head |-> head, data |-> data]
  OBVIOUS
<1>9. delivered' # << >> /\ delivered'[Len(delivered')] = p
  BY <1>7, <1>8, AppendProperties
<1>10. p.data = f.data /\ p.head[2] % 16 = f.type
  BY <1>5, <1>6, <1>8, Zenon
<1>11. Last' = f
  BY DEF Last
<1>12. QED
  BY <1>9, <1>10, <1>11, Zenon DEF Delivered

(* The same once everything awaited has been stored: the header is taken   *)
(* for what it is, the CRC is right, and the frame is delivered.           *)
LEMMA DoneInside ==
  ASSUME NEW f, NEW ack, NEW k \in 0..Len(Packed(f, ack)), Sized(f),
         Holds(Packed(f, ack), Checked(f, ack), f), ~IsReliable(f.type),
         Inv, Receive, Inside(f, ack, k), rx_count = 0,
         delivered \in Seq(Packets), f = Last, sent' = sent
  PROVE  Followed(f, ack)'
<1>1. PICK w, c : w = Packed(f, ack) /\ c = Checked(f, ack)
  OBVIOUS
<1>2. PICK n \in Nat : n = Len(f.data)
  BY LenProperties DEF Sized, Frame
<1>3. PICK skb : skb = rx_skb
  OBVIOUS
<1>4. /\ Holds(w, c, f) /\ w \in Seq(Byte) /\ Len(w) = (IF f.crc THEN 6 ELSE 4) + n
      /\ Len(c) = 4 + n /\ \A j \in 1..(4 + n) : w[j] = c[j]
  BY <1>1, <1>2 DEF Holds
<1>5. k \in Nat /\ f.crc \in BOOLEAN
  BY <1>1, <1>4, LenProperties DEF Sized, Frame
<1>6. /\ skb \in Seq(Byte) /\ Len(skb) = k /\ \A j \in 1..k : skb[j] = w[j]
  BY <1>1, <1>3, Zenon DEF Inside, Begins
<1>7. At(f, k) /\ Summed(f, ack, k) /\ k >= 4
  <2>1. At(f, k) /\ Summed(f, ack, k)
    BY Zenon DEF Inside
  <2>2. k >= 4
    BY <1>2, <1>5, <2>1 DEF At
  <2>3. QED
    BY <2>1, <2>2
<1>8. rx_esc_state = "NOESC" /\ input = Slipped(w)[k + 1]
  <2>1. ~(rx_count > 0)
    OBVIOUS
  <2>2. QED
    BY <1>1, <2>1, Zenon DEF Inside, OnLine
<1>9. PICK h : Announces(h, f) /\ \A j \in 1..4 : c[j] = h[j]
  BY <1>4, Zenon DEF Holds
<1>10. \A j \in 1..4 : skb[j] = h[j]
  <2>1. ASSUME NEW j \in 1..4 PROVE skb[j] = h[j]
    <3>1. j \in 1..k /\ j \in 1..(4 + n)
      BY <1>2, <1>5, <1>7
    <3>2. QED
      BY <1>4, <1>6, <1>9, <3>1, Zenon
  <2>2. QED
    BY <2>1
<1>11. skb[1] = h[1] /\ skb[2] = h[2] /\ skb[3] = h[3] /\ skb[4] = h[4]
  BY <1>10
<1>12. /\ HeaderSum(skb) = skb[4] /\ LenOf(skb) = n /\ HasCrc(skb) = f.crc /\ ~Reliable(skb)
  <2>1. /\ HeaderSum(skb) = HeaderSum(h) /\ LenOf(skb) = LenOf(h)
        /\ HasCrc(skb) = HasCrc(h) /\ Reliable(skb) = Reliable(h)
    BY <1>11, Zenon DEF HeaderSum, LenOf, HasCrc, Reliable
  <2>2. QED
    BY <1>2, <1>9, <1>11, <2>1, Zenon DEF Announces
<1>13. ~Awaits
  BY DEF Awaits
<1>14. HeaderDone \/ DataDone \/ CrcDone \/ Delimiter \/ PktStart
  BY <1>13, Zenon DEF Receive, ShortPacket, EscapeByte, PlainByte, EscapedByte, InvalidEscape
<1>15. ASSUME input' = input, rx_esc_state' = rx_esc_state, rx_skb' = rx_skb,
              message_crc' = message_crc, At(f, k)'
       PROVE  Followed(f, ack)'
  <2>1. OnLine(w, k)'
    BY <1>8, <1>15, Zenon DEF OnLine
  <2>2. Begins(rx_skb, w, k)'
    BY <1>3, <1>6, <1>15, Zenon DEF Begins
  <2>3. Summed(f, ack, k)'
    BY <1>7, <1>15, Zenon DEF Summed
  <2>4. QED
    BY <1>1, <1>15, <2>1, <2>2, <2>3, Zenon DEF Followed, Inside
<1>16. ASSUME NEW t, CompletePkt(t), Begins(t, w, 4 + n), input' = input, k = Len(w)
       PROVE  Followed(f, ack)'
  <2>1. Delivered'
    BY <1>2, <1>4, <1>16, CompleteDelivers, Zenon
  <2>2. input' = <<192>>
    <3>1. Len(w) \in Nat
      BY <1>4, LenProperties
    <3>2. QED
      BY <1>8, <1>16, <3>1, SlippedSteps
  <2>3. rx_state' = "W4_PKT_DELIMITER" /\ rx_count' = 0
    BY <1>16, Zenon DEF CompletePkt, Drop
  <2>4. QED
    BY <2>1, <2>2, <2>3, Zenon DEF Followed
<1>17. CASE rx_state = "W4_HDR"
  <2>1. HeaderDone
    BY <1>14, <1>17 DEF DataDone, CrcDone, Delimiter, PktStart
  <2>2. /\ rx_state' = "W4_DATA" /\ rx_count' = n
        /\ input' = input /\ rx_esc_state' = rx_esc_state /\ rx_skb' = rx_skb
        /\ message_crc' = message_crc
    BY <1>3, <1>12, <2>1, Zenon DEF HeaderDone
  <2>3. k = 4
    BY <1>5, <1>7, <1>17 DEF At
  <2>4. At(f, k)'
    BY <1>2, <2>2, <2>3 DEF At
  <2>5. QED
    BY <1>15, <2>2, <2>4
<1>18. CASE rx_state = "W4_DATA"
  <2>1. DataDone
    BY <1>14, <1>18 DEF HeaderDone, CrcDone, Delimiter, PktStart
  <2>2. k = 4 + n
    BY <1>2, <1>5, <1>7, <1>18 DEF At
  <2>3. CASE f.crc
    <3>1. /\ rx_state' = "W4_CRC" /\ rx_count' = 2
          /\ input' = input /\ rx_esc_state' = rx_esc_state /\ rx_skb' = rx_skb
          /\ message_crc' = message_crc
      BY <1>3, <1>12, <2>1, <2>3, Zenon DEF DataDone
    <3>2. At(f, k)'
      BY <1>2, <2>2, <2>3, <3>1 DEF At
    <3>3. QED
      BY <1>15, <3>1, <3>2
  <2>4. CASE ~f.crc
    <3>1. CompletePkt(skb) /\ input' = input
      BY <1>3, <1>12, <2>1, <2>4, Zenon DEF DataDone
    <3>2. k = Len(w)
      BY <1>4, <2>2, <2>4
    <3>3. Begins(skb, w, 4 + n)
      BY <1>6, <2>2, Zenon DEF Begins
    <3>4. QED
      BY <1>16, <3>1, <3>2, <3>3, Zenon
  <2>5. QED
    BY <2>3, <2>4
<1>19. CASE rx_state = "W4_CRC"
  <2>1. CrcDone
    BY <1>14, <1>19 DEF HeaderDone, DataDone, Delimiter, PktStart
  <2>2. k = 6 + n /\ f.crc
    BY <1>2, <1>5, <1>7, <1>19 DEF At
  <2>3. k = Len(w)
    BY <1>4, <2>2
  <2>4. message_crc = Crcs(c)[4 + n]
    <3>1. k >= 4 + n
      BY <1>2, <2>2
    <3>2. QED
      BY <1>1, <1>2, <1>7, <2>2, <3>1, Zenon DEF Summed
  <2>5. w[k] + w[k - 1] * 256 = BitRev16(message_crc)
    <3>1. w[Len(w)] + w[Len(w) - 1] * 256 = CrcOf(c)
      BY <1>4, <2>2, Zenon DEF Holds
    <3>2. CrcOf(c) = BitRev16(message_crc)
      BY <1>4, <2>4, Zenon DEF CrcOf
    <3>3. QED
      BY <2>3, <3>1, <3>2, Zenon
  <2>6. skb[k] = w[k] /\ skb[k - 1] = w[k - 1]
    <3>1. k \in 1..k /\ k - 1 \in 1..k
      BY <1>2, <2>2
    <3>2. QED
      BY <1>6, <3>1, Zenon
  <2>7. BitRev16(message_crc) = skb[k] + skb[k - 1] * 256
    BY <2>5, <2>6, Zenon
  <2>8. PICK t : t = SubSeq(skb, 1, k - 2)
    OBVIOUS
  <2>9. CompletePkt(t) /\ input' = input
    BY <1>3, <1>6, <2>1, <2>7, <2>8 DEF CrcDone
  <2>10. Begins(t, w, 4 + n)
    <3>1. k - 2 = 4 + n
      BY <1>2, <2>2
    <3>2. ASSUME NEW i \in 1..(4 + n) PROVE skb[i] \in Byte /\ skb[i] = w[i]
      <4>1. i \in 1..k /\ i \in 1..Len(skb)
        BY <1>2, <1>6, <2>2
      <4>2. QED
        BY <1>6, <4>1, ElementOfSeq
    <3>3. t \in Seq(Byte) /\ Len(t) = 4 + n /\ \A j \in 1..(4 + n) : t[j] = skb[j]
      BY <1>2, <1>6, <2>8, <3>1, <3>2, SubSeqProperties
    <3>4. QED
      BY <3>2, <3>3, Zenon DEF Begins
  <2>11. QED
    BY <1>16, <2>3, <2>9, <2>10, Zenon
<1>20. QED
  BY <1>7, <1>17, <1>18, <1>19 DEF At

LEMMA FollowedReceive ==
  ASSUME NEW f, NEW ack, Sized(f), Holds(Packed(f, ack), Checked(f, ack), f),
         ~IsReliable(f.type), Inv, Inv', Receive, Followed(f, ack),
         delivered \in Seq(Packets), f = Last, sent' = sent
  PROVE  Followed(f, ack)'
<1>1. PICK w : w = Packed(f, ack)
  OBVIOUS
<1>2. PICK n \in Nat : n = Len(f.data)
  BY LenProperties DEF Sized, Frame
<1>3. w \in Seq(Byte) /\ 0 < Len(w) /\ Len(w) \in Nat
  <2>1. w \in Seq(Byte) /\ Len(w) = (IF f.crc THEN 6 ELSE 4) + n
    BY <1>1, <1>2, Zenon DEF Holds
  <2>2. QED
    BY <2>1
<1>4. PICK s : s = Slipped(w)[1]
  OBVIOUS
<1>5. s \in Seq(Byte) /\ s # << >> /\ Head(s) # 192
  <2>1. Reads(w[0 + 1], Slipped(w)[0 + 1], Slipped(w)[0 + 2])
    BY <1>3, SlippedReads
  <2>2. 0 + 1 = 1
    OBVIOUS
  <2>3. PICK b, u : Reads(b, s, u)
    BY <1>4, <2>1, <2>2, Zenon
  <2>4. QED
    BY <2>3 DEF Reads, Plain, Twofold
<1>6. exited = FALSE /\ rx_count \in Nat
  BY DEF Inv, Typed
<1>7. CASE input = PreparePkt(f, ack)
  <2>1. input = <<192>> \o s
    BY <1>1, <1>4, <1>7, Zenon DEF PreparePkt
  <2>2. Head(input) = 192 /\ Tail(input) = s
    BY <1>5, <2>1, HeadTailProperties, ConcatProperties
  <2>3. CASE input' = input
    BY <1>7, <2>3, Zenon DEF Followed
  <2>4. CASE input' = s /\ rx_state' = "W4_PKT_START" /\ rx_count' = 0
    BY <1>1, <1>4, <2>4, Zenon DEF Followed
  <2>5. ~EscapeByte /\ ~PlainByte /\ ~EscapedByte /\ ~InvalidEscape
    BY <2>2 DEF EscapeByte, PlainByte, EscapedByte, InvalidEscape, Unescape
  <2>6. ShortPacket => input' = s /\ rx_state' = "W4_PKT_START" /\ rx_count' = 0
    BY <2>2, Zenon DEF ShortPacket, Consume, Drop
  <2>7. HeaderDone \/ DataDone \/ CrcDone => input' = input
    BY Zenon DEF HeaderDone, DataDone, CrcDone
  <2>8. Delimiter => input' = s /\ rx_state' = "W4_PKT_START" /\ rx_count' = 0
    BY <2>2, Zenon DEF Delimiter, Arrived, Consume
  <2>9. PktStart => input' = s /\ rx_state' = "W4_PKT_START" /\ rx_count' = 0
    BY <2>2, Zenon DEF PktStart, Arrived, Consume
  <2>10. QED
    BY <2>3, <2>4, <2>5, <2>6, <2>7, <2>8, <2>9, Zenon DEF Receive
<1>8. CASE rx_state = "W4_PKT_START" /\ rx_count = 0 /\ input = Slipped(w)[1]
  <2>1. PktStart
    BY <1>8 DEF Receive, Awaits, ShortPacket, EscapeByte, PlainByte, EscapedByte,
                InvalidEscape, HeaderDone, DataDone, CrcDone, Delimiter
  <2>2. /\ rx_state' = "W4_HDR" /\ rx_count' = 4 /\ rx_esc_state' = "NOESC"
        /\ message_crc' = CrcInit /\ rx_skb' = << >> /\ input' = input
    BY <1>4, <1>5, <1>8, <2>1, Zenon DEF PktStart
  <2>3. 0 + 1 = 1 /\ 0 \in 0..Len(w)
    BY <1>3
  <2>4. OnLine(w, 0)'
    BY <1>8, <2>2, <2>3, Zenon DEF OnLine
  <2>5. Begins(rx_skb, w, 0)'
    BY <2>2 DEF Begins
  <2>6. At(f, 0)'
    BY <2>2 DEF At
  <2>7. Crcs(Checked(f, ack))[0] = CrcInit
    <3>1. PICK c : c = Checked(f, ack)
      OBVIOUS
    <3>2. PICK m \in Nat : m = Len(c)
      BY <1>2, <3>1 DEF Holds
    <3>3. Crcs(c)[0] = CrcInit
      BY <3>2, CrcsSteps, Zenon
    <3>4. QED
      BY <3>1, <3>3, Zenon
  <2>8. ~(0 >= 4 + Len(f.data))
    BY <1>2
  <2>9. Summed(f, ack, 0)'
    BY <2>2, <2>7, <2>8, Zenon DEF Summed
  <2>10. Inside(f, ack, 0)'
    BY <1>1, <2>4, <2>5, <2>6, <2>9, Zenon DEF Inside
  <2>11. QED
    BY <1>1, <2>3, <2>10, Zenon DEF Followed
<1>9. ASSUME NEW k \in 0..Len(w), Inside(f, ack, k)
      PROVE  Followed(f, ack)'
  <2>1. CASE rx_count > 0
    <3>1. \E m \in 0..Len(Packed(f, ack)) : Inside(f, ack, m)'
      BY <1>1, <1>9, <2>1, ReadInside, Zenon
    <3>2. QED
      BY <3>1, Zenon DEF Followed
  <2>2. CASE rx_count = 0
    BY <1>1, <1>9, <2>2, DoneInside, Zenon
  <2>3. QED
    BY <1>6, <2>1, <2>2
<1>10. CASE rx_state = "W4_PKT_DELIMITER" /\ rx_count = 0 /\ input = <<192>> /\ Delivered
  <2>1. Delimiter
    BY <1>10 DEF Receive, Awaits, ShortPacket, EscapeByte, PlainByte, EscapedByte,
                 InvalidEscape, HeaderDone, DataDone, CrcDone, PktStart
  <2>2. input' = << >>
    BY <1>10, <2>1, HeadTailProperties DEF Delimiter, Consume
  <2>3. delivered' = delivered
    BY <2>1, Zenon DEF Delimiter
  <2>4. Delivered'
    BY <1>10, <2>3 DEF Delivered, Last
  <2>5. QED
    BY <2>2, <2>4, Zenon DEF Followed
<1>11. CASE input = << >>
  BY <1>11, Zenon
    DEF Receive, Awaits, Arrived, ShortPacket, EscapeByte, PlainByte, EscapedByte,
        InvalidEscape, HeaderDone, DataDone, CrcDone, Delimiter, PktStart
<1>12. QED
  BY <1>1, <1>7, <1>8, <1>9, <1>10, <1>11, Zenon DEF Followed

LEMMA ReceiveSync == ASSUME Inv, Inv', Chosen, Sync, Receive PROVE Sync'
<1>1. UNCHANGED <<sent, intact, line>>
  BY DEF Receive, ShortPacket, EscapeByte, PlainByte, EscapedByte, InvalidEscape,
         HeaderDone, DataDone, CrcDone, Delimiter, PktStart, envvars
<1>2. delivered' \in Seq(Packets)
  <2>1. ASSUME NEW skb \in Seq(Byte), Len(skb) >= 4, CompletePkt(skb)
        PROVE  delivered' \in Seq(Packets)
    <3>1. PICK m \in Nat : m = Len(skb) /\ m >= 4
      BY <2>1, LenProperties
    <3>2. \A i \in 1..m : skb[i] \in Byte
      BY <3>1, ElementOfSeq
    <3>3. SubSeq(skb, 1, 3) \in Seq(Byte)
      BY <3>1, <3>2, SubSeqProperties
    <3>4. SubSeq(skb, 5, Len(skb)) \in Seq(Byte)
      BY <3>1, <3>2, SubSeqProperties
    <3>5. PICK p : p = [head |-> SubSeq(skb, 1, 3), data |-> SubSeq(skb, 5, Len(skb))]
      OBVIOUS
    <3>6. p \in Packets
      BY <3>3, <3>4, <3>5 DEF Packets
    <3>7. delivered' = Append(delivered, p)
      BY <2>1, <3>5, Zenon DEF CompletePkt
    <3>8. QED
      BY <3>6, <3>7, AppendProperties DEF Sync
  <2>2. CASE DataDone
    <3>1. rx_skb \in Seq(Byte) /\ Len(rx_skb) >= 4
      BY <2>2 DEF DataDone, Inv, Typed, Room
    <3>2. delivered' = delivered \/ CompletePkt(rx_skb)
      BY <2>2, Zenon DEF DataDone
    <3>3. QED
      BY <2>1, <3>1, <3>2, Zenon DEF Sync
  <2>3. CASE CrcDone
    <3>1. PICK t : t = SubSeq(rx_skb, 1, Len(rx_skb) - 2)
      OBVIOUS
    <3>2. delivered' = delivered \/ CompletePkt(t)
      BY <2>3, <3>1 DEF CrcDone
    <3>3. t \in Seq(Byte) /\ Len(t) >= 4
      <4>a. Len(rx_skb) \in Nat /\ Len(rx_skb) >= 6
        BY <2>3, LenProperties DEF CrcDone, Arrived, Inv, Typed, Room
      <4>1. PICK m \in Nat : m = Len(rx_skb) /\ m >= 6
        BY <4>a
      <4>2. \A i \in 1..(m - 2) : rx_skb[i] \in Byte
        BY <4>1, ElementOfSeq DEF Inv, Typed
      <4>3. QED
        BY <3>1, <4>1, <4>2, SubSeqProperties DEF Inv, Typed
    <3>4. QED
      BY <2>1, <3>2, <3>3, Zenon DEF Sync
  <2>4. CASE ~DataDone /\ ~CrcDone
    BY <2>4 DEF Sync, Receive, ShortPacket, EscapeByte, PlainByte, EscapedByte,
                InvalidEscape, HeaderDone, Delimiter, PktStart
  <2>5. QED
    BY <2>2, <2>3, <2>4
<1>3. sent' \in Seq(On.frames)'
  BY <1>1, Zenon DEF Sync, On
<1>4. Last' = Last
  BY <1>1 DEF Last
<1>5. ASSUME intact, ~IsReliable(Last.type)
      PROVE  \E ack \in {0, 3} : Followed(Last, ack)'
  <2>1. PICK ack \in {0, 3} : Followed(Last, ack)
    BY <1>5, Zenon DEF Sync
  <2>2. PICK f : f = Last
    OBVIOUS
  <2>3. f \in On.frames
    BY <1>5, <2>2, ElementOfSeq, EmptySeq DEF Sync, Last
  <2>4. Sized(f) /\ Holds(Packed(f, ack), Checked(f, ack), f)
    BY <2>3, EncodedIs, Zenon
  <2>5. delivered \in Seq(Packets)
    BY DEF Sync
  <2>6. Followed(f, ack)'
    BY <1>1, <1>5, <2>1, <2>2, <2>4, <2>5, FollowedReceive, Zenon
  <2>7. f = Last'
    BY <1>4, <2>2
  <2>8. QED
    BY <2>6, <2>7, Zenon
<1>6. QED
  BY <1>1, <1>2, <1>3, <1>4, <1>5, Zenon DEF Sync

LEMMA FeedSync == ASSUME Chosen, Sync, Feed PROVE Sync'
<1>1. UNCHANGED <<line, delivered>>
  BY DEF Feed, FeedIntact, FeedDamaged, FeedStray, rxvars
<1>2. On' = On
  BY <1>1 DEF On
<1>3. delivered' \in Seq(Packets)
  BY <1>1 DEF Sync
<1>4. ASSUME NEW f \in On.frames, sent' = Append(sent, f)
      PROVE  sent' \in Seq(On.frames) /\ sent' # << >> /\ Last' = f
  BY <1>4, AppendProperties DEF Sync, Last
<1>5. CASE FeedIntact
  <2>1. PICK f \in On.frames, ack \in {0, 3} :
          input' = Encoded[line][f][ack] /\ sent' = Append(sent, f)
    BY <1>5, Zenon DEF FeedIntact
  <2>2. input' = PreparePkt(f, ack)
    BY <2>1, EncodedIs, Zenon
  <2>3. sent' \in Seq(On.frames) /\ sent' # << >> /\ Last' = f
    BY <1>4, <2>1, Zenon
  <2>4. Followed(f, ack)'
    BY <2>2, Zenon DEF Followed
  <2>5. QED
    BY <1>2, <1>3, <2>3, <2>4, Zenon DEF Sync
<1>6. CASE FeedDamaged
  <2>1. PICK f \in On.frames : sent' = Append(sent, f)
    BY <1>6, Zenon DEF FeedDamaged
  <2>2. sent' \in Seq(On.frames)
    BY <1>4, <2>1, Zenon
  <2>3. ~intact'
    BY <1>6 DEF FeedDamaged
  <2>4. QED
    BY <1>2, <1>3, <2>2, <2>3, Zenon DEF Sync
<1>7. CASE FeedStray
  BY <1>2, <1>3, <1>7, Zenon DEF FeedStray, Sync
<1>8. QED
  BY <1>5, <1>6, <1>7 DEF Feed

LEMMA StutterSync == Sync /\ UNCHANGED vars => Sync'
<1>1. SUFFICES ASSUME Sync, UNCHANGED vars PROVE Sync'
  OBVIOUS
<1>2. /\ On' = On /\ Last' = Last /\ Delivered' = Delivered
      /\ sent' = sent /\ delivered' = delivered /\ intact' = intact
  BY <1>1 DEF vars, rxvars, envvars, On, Last, Delivered
<1>3. ASSUME NEW f, NEW ack, Followed(f, ack) PROVE Followed(f, ack)'
  <2>1. UNCHANGED <<rx_state, rx_count, rx_esc_state, rx_skb, message_crc, input>>
    BY <1>1 DEF vars, rxvars
  <2>2. \A k : Inside(f, ack, k)' = Inside(f, ack, k)
    BY <2>1 DEF Inside, Begins, At, Summed, OnLine
  <2>3. QED
    BY <1>2, <1>3, <2>1, <2>2 DEF Followed
<1>4. PICK f : f = Last
  OBVIOUS
<1>5. intact => sent # << >> /\ (IsReliable(f.type) \/ \E ack \in {0, 3} : Followed(f, ack))
  BY <1>1, <1>4, Zenon DEF Sync
<1>6. intact => \/ IsReliable(f.type)
                \/ \E ack \in {0, 3} : Followed(f, ack)'
  BY <1>3, <1>5, Zenon
<1>7. QED
  BY <1>1, <1>2, <1>4, <1>5, <1>6, Zenon DEF Sync

(* A frame fed to the line as it was sent is read back as it was packed,   *)
(* byte by byte, from whatever state the receiver is in.                   *)
LEMMA Synchronised == Spec => []Sync
<1>1. Init => Chosen /\ Sync
  BY DEF Init, Chosen, Sync
<1>2. Inv /\ Inv' /\ Chosen /\ Sync /\ [Next]_vars => Sync'
  BY ReceiveSync, FeedSync, StutterSync DEF Next, Idle
<1>3. QED
  BY <1>1, <1>2, ChosenInv, Invariance, PTL DEF Spec

(* Whatever the line carried before: a frame that arrives as it was sent   *)
(* is delivered with its payload and its type (h5_recv and                 *)
(* h5_prepare_pkt, SLIP, header, length and CRC).                          *)
THEOREM IntactAlways == Spec => []IntactDelivered
<1>1. ASSUME Inv, Chosen, Sync PROVE IntactDelivered
  <2>1. SUFFICES ASSUME intact, input = << >>, ~IsReliable(Last.type) PROVE Delivered
    BY Zenon DEF IntactDelivered, Delivered, Last
  <2>2. PICK f : f = Last
    OBVIOUS
  <2>3. PICK ack \in {0, 3} : Followed(f, ack)
    BY <1>1, <2>1, <2>2, Zenon DEF Sync
  <2>4. f \in On.frames
    BY <1>1, <2>1, <2>2, ElementOfSeq, EmptySeq DEF Sync, Last
  <2>5. Sized(f) /\ Holds(Packed(f, ack), Checked(f, ack), f)
    BY <1>1, <2>4, EncodedIs, Zenon
  <2>6. PICK w : w = Packed(f, ack)
    OBVIOUS
  <2>7. PICK n \in Nat : n = Len(w) /\ 0 < n
    <3>1. Len(f.data) \in Nat
      BY <2>5, LenProperties DEF Sized, Frame
    <3>2. Len(w) = (IF f.crc THEN 6 ELSE 4) + Len(f.data)
      BY <2>5, <2>6, Zenon DEF Holds
    <3>3. PICK d \in Nat : d = Len(f.data)
      BY <3>1, Zenon
    <3>4. Len(w) = (IF f.crc THEN 6 ELSE 4) + d
      BY <3>2, <3>3, Zenon
    <3>5. Len(w) \in Nat /\ 0 < Len(w)
      BY <3>4
    <3>6. QED
      BY <3>5, Zenon
  <2>8. w \in Seq(Byte)
    BY <2>5, <2>6, Zenon DEF Holds
  <2>9. ASSUME NEW k \in 0..n
        PROVE  /\ Slipped(w)[k + 1] # << >>
               /\ Head(Slipped(w)[k + 1]) = 219 => Tail(Slipped(w)[k + 1]) # << >>
    <3>1. CASE k < n
      <4>1. Reads(w[k + 1], Slipped(w)[k + 1], Slipped(w)[k + 2])
        BY <2>7, <2>8, <3>1, SlippedReads
      <4>2. QED
        BY <4>1 DEF Reads, Plain, Twofold
    <3>2. CASE k = n
      <4>1. Slipped(w)[k + 1] = <<192>>
        BY <2>7, <3>2, SlippedSteps
      <4>2. QED
        BY <4>1
    <3>3. QED
      BY <3>1, <3>2
  <2>10. input # PreparePkt(f, ack)
    <3>1. 1 \in 1..(n + 1)
      BY <2>7
    <3>2. Slipped(w)[1] \in Seq(Byte) /\ <<192>> \in Seq(Byte)
      BY <2>7, <2>8, <3>1, SlippedTyped DEF Byte
    <3>3. <<192>> \o Slipped(w)[1] # << >>
      BY <3>2, ConcatProperties
    <3>4. QED
      BY <2>1, <2>6, <3>3 DEF PreparePkt
  <2>11. input # Slipped(w)[1]
    <3>1. 0 \in 0..n /\ 0 + 1 = 1
      BY <2>7
    <3>2. Slipped(w)[1] # << >>
      BY <2>9, <3>1
    <3>3. QED
      BY <2>1, <3>2, Zenon
  <2>12. ASSUME NEW k \in 0..n PROVE ~OnLine(w, k)
    BY <2>1, <2>9 DEF OnLine
  <2>13. input # <<192>>
    BY <2>1
  <2>14. QED
    BY <2>2, <2>3, <2>6, <2>7, <2>10, <2>11, <2>12, <2>13, Zenon DEF Followed, Inside
<1>2. Init => Chosen
  BY DEF Init, Chosen
<1>3. QED
  BY <1>1, <1>2, ChosenInv, Invariance, Synchronised, PTL DEF Spec
=============================================================================
