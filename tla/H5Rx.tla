-------------------------------- MODULE H5Rx --------------------------------
(***************************************************************************)
(* The byte level of the three-wire transport: h5_prepare_pkt turns a      *)
(* packet into SLIP-escaped bytes between 0xc0 delimiters, h5_recv takes   *)
(* bytes apart again, one iteration of its loop per action.  The line is   *)
(* fed with intact frames, damaged frames and stray bytes.                 *)
(***************************************************************************)
EXTENDS Integers, Sequences

CONSTANTS
  CrcStep(_, _),  \* h5_crc_update: the CRC after one more byte
  BitRev16(_),    \* bit_rev16
  Lines,          \* the lines considered: a function to LineType
  BufLen          \* what skb_alloc is asked for, 0x1005

Byte == 0..255
Word == 0..65535

(* A line: the packets that may be sent, the values a damaged or stray byte *)
(* may take, how much of each is fed to it, and whether the link is in      *)
(* H5_PATCH with the last packet out.                                       *)
Frame == [type: 0..15, seq: 0..7, data: Seq(Byte), crc: BOOLEAN]
LineType ==
  [frames: SUBSET Frame, noise: SUBSET Byte,
   maxFrames: Nat, maxDamage: Nat, maxStray: Nat, resync: BOOLEAN]

ASSUME LinesAssumption ==
  \A l \in DOMAIN Lines : /\ Lines[l].frames \subseteq Frame
                          /\ Lines[l].noise \subseteq Byte
ASSUME BufLenAssumption == BufLen = 4101

VARIABLES
  line,         \* the line of this run
  rx_state, rx_count, rx_esc_state, message_crc, rxseq_txack,
  rx_skb,       \* the bytes in the receive buffer ...
  live,         \* ... and whether that buffer is allocated
  exited,       \* skb_put found the buffer too small: the program stopped
  input,        \* bytes on the line, not yet read
  delivered,    \* packets completed: [head, data]
  sent, damage, stray,  \* what has been fed so far; sent is a sequence
  intact        \* the frame in input, or just read, arrived as it was sent

rxvars  == <<rx_state, rx_count, rx_esc_state, message_crc, rxseq_txack, rx_skb, live,
             exited, delivered>>
envvars == <<line, sent, damage, stray, intact>>
vars    == <<rxvars, input, envvars>>

-----------------------------------------------------------------------------
(* Encoding (h5_slip_one_byte, h5_prepare_pkt).                            *)
Escape(b) == CASE b = 192 -> <<219, 220>> [] b = 219 -> <<219, 221>>
               [] b = 17  -> <<219, 222>> [] b = 19  -> <<219, 223>>
               [] OTHER   -> <<b>>

Unescape == [b \in {220, 221, 222, 223} |->
               CASE b = 220 -> 192 [] b = 221 -> 219 [] b = 222 -> 17 [] OTHER -> 19]

(* ACL data, command and event packets are reliable.                       *)
IsReliable(type) == type \in {1, 2, 4}

HeaderSum(h) == 255 - ((h[1] + h[2] + h[3]) % 256)

Header(f, ack) ==
  LET h0 == ack * 8 + (IF IsReliable(f.type) THEN 128 + f.seq ELSE 0)
                    + (IF f.crc THEN 64 ELSE 0)
      h1 == ((Len(f.data) * 16) % 256) + f.type
      h2 == (Len(f.data) \div 16) % 256
  IN  <<h0, h1, h2, HeaderSum(<<h0, h1, h2>>)>>

CrcInit == 65535

(* What is written for the bytes of a packet from each of them on, up to   *)
(* the closing delimiter; the CRC of the bytes up to each, and of all.     *)
Slipped(bytes) ==
  LET from[k \in 1..(Len(bytes) + 1)] ==
        IF k > Len(bytes) THEN <<192>> ELSE Escape(bytes[k]) \o from[k + 1]
  IN  from

Crcs(bytes) ==
  LET f[n \in 0..Len(bytes)] == IF n = 0 THEN CrcInit ELSE CrcStep(f[n - 1], bytes[n])
  IN  f
CrcOf(bytes) == BitRev16(Crcs(bytes)[Len(bytes)])

Checked(f, ack) == Header(f, ack) \o f.data

(* The packet before it is escaped, with its CRC, high byte first.         *)
Packed(f, ack) ==
  LET crc == CrcOf(Checked(f, ack))
  IN  IF f.crc THEN Checked(f, ack) \o <<crc \div 256, crc % 256>> ELSE Checked(f, ack)

PreparePkt(f, ack) == <<192>> \o Slipped(Packed(f, ack))[1]

(* The packets of each line, encoded with either acknowledgement number.   *)
Encoded == [l \in DOMAIN Lines |-> [f \in Lines[l].frames |->
                                     [ack \in {0, 3} |-> PreparePkt(f, ack)]]]

(* A CRC is sixteen bits, and a payload fits the twelve bits of its length.*)
ASSUME FramesAssumption ==
  \A l \in DOMAIN Lines : \A f \in Lines[l].frames :
    /\ Len(f.data) <= 4095
    /\ \A ack \in {0, 3} : CrcOf(Checked(f, ack)) \in Word

-----------------------------------------------------------------------------
(* The header of the packet being received: flags, number and length.      *)
Reliable(h) == h[1] >= 128
HasCrc(h)   == (h[1] \div 64) % 2 = 1
SeqOf(h)    == h[1] % 8
(* Mutant: the high bits shifted once too often.                           *)
MutLenOfShift(h)  == (h[2] \div 16) + h[3] * 32
LenOf(h)    == (h[2] \div 16) + h[3] * 16

Init ==
  /\ line \in DOMAIN Lines
  /\ rx_state = "W4_PKT_DELIMITER" /\ rx_count = 0 /\ rx_esc_state = "NOESC"
  /\ message_crc = 0 /\ rxseq_txack = 0
  /\ rx_skb = << >> /\ live = FALSE /\ exited = FALSE
  /\ input = << >> /\ delivered = << >>
  /\ sent = << >> /\ damage = 0 /\ stray = 0 /\ intact = FALSE

(* h5_recv has a byte, and awaits it; or has what it awaited.              *)
Awaits  == ~exited /\ input # << >> /\ rx_count > 0
Arrived == ~exited /\ input # << >> /\ rx_count = 0

Consume == input' = Tail(input)

Drop(state) == rx_state' = state /\ rx_count' = 0 /\ live' = FALSE

(* skb_put of one byte, and the CRC over everything but the CRC itself.    *)
Store(b) ==
  LET skb == Append(rx_skb, b)
  IN  IF Len(skb) > BufLen
      THEN exited' = TRUE /\ UNCHANGED <<rx_skb, message_crc, rx_count>>
      ELSE /\ rx_skb' = skb
           /\ message_crc' = IF HasCrc(skb) /\ rx_state # "W4_CRC"
                             THEN CrcStep(message_crc, b) ELSE message_crc
           /\ rx_count' = rx_count - 1
           /\ UNCHANGED exited

(* h5_recv while bytes of a known number are awaited.                      *)
(* Mutant: after a short packet a further delimiter is waited for.         *)
MutShortPacket ==
  /\ Awaits /\ Head(input) = 192
  /\ Consume /\ Drop("W4_PKT_DELIMITER")
  /\ UNCHANGED <<rx_esc_state, message_crc, rxseq_txack, rx_skb, exited, delivered, envvars>>

ShortPacket ==
  /\ Awaits /\ Head(input) = 192
  /\ Consume /\ Drop("W4_PKT_START")
  /\ UNCHANGED <<rx_esc_state, message_crc, rxseq_txack, rx_skb, exited, delivered, envvars>>

EscapeByte ==
  /\ Awaits /\ rx_esc_state = "NOESC" /\ Head(input) = 219
  /\ Consume /\ rx_esc_state' = "ESC"
  /\ UNCHANGED <<rx_state, rx_count, message_crc, rxseq_txack, rx_skb, live, exited,
                 delivered, envvars>>

PlainByte ==
  /\ Awaits /\ rx_esc_state = "NOESC" /\ Head(input) \notin {192, 219}
  /\ Consume /\ Store(Head(input))
  /\ UNCHANGED <<rx_state, rx_esc_state, rxseq_txack, live, delivered, envvars>>

EscapedByte ==
  /\ Awaits /\ rx_esc_state = "ESC" /\ Head(input) \in DOMAIN Unescape
  /\ Consume /\ Store(Unescape[Head(input)])
  /\ rx_esc_state' = "NOESC"
  /\ UNCHANGED <<rx_state, rxseq_txack, live, delivered, envvars>>

(* Mutant: the buffer is freed but rx_count is not reset.                  *)
MutInvalidEscape ==
  /\ Awaits /\ rx_esc_state = "ESC"
  /\ Head(input) \notin DOMAIN Unescape \cup {192}
  /\ Consume /\ rx_state' = "W4_PKT_DELIMITER" /\ live' = FALSE
  /\ UNCHANGED <<rx_count, rx_esc_state, message_crc, rxseq_txack, rx_skb, exited,
                 delivered, envvars>>

InvalidEscape ==
  /\ Awaits /\ rx_esc_state = "ESC"
  /\ Head(input) \notin DOMAIN Unescape \cup {192}
  /\ Consume /\ Drop("W4_PKT_DELIMITER")
  /\ UNCHANGED <<rx_esc_state, message_crc, rxseq_txack, rx_skb, exited, delivered, envvars>>

(* h5_recv once they have arrived; none of these consumes a byte.          *)
(* Mutant: a header with a wrong check sum leaves the state as it is.      *)
MutHeaderDone ==
  /\ Arrived /\ rx_state = "W4_HDR"
  /\ \/ HeaderSum(rx_skb) # rx_skb[4] /\ UNCHANGED <<rx_state, rx_count, live, rxseq_txack>>
     \/ /\ HeaderSum(rx_skb) = rx_skb[4]
        /\ rx_state' = "W4_DATA" /\ rx_count' = LenOf(rx_skb)
        /\ UNCHANGED <<live, rxseq_txack>>
  /\ UNCHANGED <<rx_esc_state, message_crc, rx_skb, exited, input, delivered, envvars>>

HeaderDone ==
  /\ Arrived /\ rx_state = "W4_HDR"
  /\ \/ /\ HeaderSum(rx_skb) # rx_skb[4]
        /\ Drop("W4_PKT_DELIMITER") /\ UNCHANGED rxseq_txack
     \/ /\ HeaderSum(rx_skb) = rx_skb[4]
        /\ Reliable(rx_skb) /\ SeqOf(rx_skb) # rxseq_txack
        /\ Drop("W4_PKT_DELIMITER")
        /\ rxseq_txack' = IF Lines[line].resync THEN SeqOf(rx_skb) ELSE rxseq_txack
     \/ /\ HeaderSum(rx_skb) = rx_skb[4]
        /\ Reliable(rx_skb) => SeqOf(rx_skb) = rxseq_txack
        /\ rx_state' = "W4_DATA" /\ rx_count' = LenOf(rx_skb)
        /\ UNCHANGED <<live, rxseq_txack>>
  /\ UNCHANGED <<rx_esc_state, message_crc, rx_skb, exited, input, delivered, envvars>>

(* h5_complete_rx_pkt, with the payload found in the buffer.               *)
CompletePkt(skb) ==
  /\ rxseq_txack' = IF Reliable(skb) THEN (SeqOf(skb) + 1) % 8 ELSE rxseq_txack
  /\ delivered' = Append(delivered, [head |-> SubSeq(skb, 1, 3),
                                     data |-> SubSeq(skb, 5, Len(skb))])
  /\ rx_skb' = skb
  /\ Drop("W4_PKT_DELIMITER")

DataDone ==
  /\ Arrived /\ rx_state = "W4_DATA"
  /\ IF HasCrc(rx_skb)
     THEN /\ rx_state' = "W4_CRC" /\ rx_count' = 2
          /\ UNCHANGED <<rxseq_txack, delivered, live, rx_skb>>
     ELSE CompletePkt(rx_skb)
  /\ UNCHANGED <<rx_esc_state, message_crc, exited, input, envvars>>

(* Mutant: the CRC is removed but not compared.                            *)
MutCrcDone ==
  /\ Arrived /\ rx_state = "W4_CRC"
  /\ CompletePkt(SubSeq(rx_skb, 1, Len(rx_skb) - 2))
  /\ UNCHANGED <<rx_esc_state, message_crc, exited, input, envvars>>

CrcDone ==
  /\ Arrived /\ rx_state = "W4_CRC"
  /\ LET n == Len(rx_skb)
     IN  IF BitRev16(message_crc) = rx_skb[n] + rx_skb[n - 1] * 256
         THEN CompletePkt(SubSeq(rx_skb, 1, n - 2))
         ELSE Drop("W4_PKT_DELIMITER") /\ UNCHANGED <<rxseq_txack, delivered, rx_skb>>
  /\ UNCHANGED <<rx_esc_state, message_crc, exited, input, envvars>>

(* h5_recv between packets.                                                *)
Delimiter ==
  /\ Arrived /\ rx_state = "W4_PKT_DELIMITER"
  /\ Consume
  /\ rx_state' = IF Head(input) = 192 THEN "W4_PKT_START" ELSE rx_state
  /\ UNCHANGED <<rx_count, rx_esc_state, message_crc, rxseq_txack, rx_skb, live, exited,
                 delivered, envvars>>

PktStart ==
  /\ Arrived /\ rx_state = "W4_PKT_START"
  /\ IF Head(input) = 192
     THEN /\ Consume
          /\ UNCHANGED <<rx_state, rx_count, rx_esc_state, message_crc, rx_skb, live>>
     ELSE /\ rx_state' = "W4_HDR" /\ rx_count' = 4 /\ rx_esc_state' = "NOESC"
          /\ message_crc' = CrcInit /\ rx_skb' = << >> /\ live' = TRUE
          /\ UNCHANGED input
  /\ UNCHANGED <<rxseq_txack, exited, delivered, envvars>>

-----------------------------------------------------------------------------
(* The line.  Each feed waits until the last one has been read.            *)
On == Lines[line]

FeedIntact ==
  /\ input = << >> /\ ~exited /\ Len(sent) < On.maxFrames
  /\ \E f \in On.frames, ack \in {0, 3} :
       input' = Encoded[line][f][ack] /\ sent' = Append(sent, f)
  /\ intact' = TRUE
  /\ UNCHANGED <<rxvars, line, damage, stray>>

(* One byte of a frame is replaced, lost or inserted.                      *)
Damage(bytes) ==
  \/ \E k \in 1..Len(bytes), b \in On.noise : input' = [bytes EXCEPT ![k] = b]
  \/ \E k \in 1..Len(bytes) :
       input' = SubSeq(bytes, 1, k - 1) \o SubSeq(bytes, k + 1, Len(bytes))
  \/ \E k \in 0..Len(bytes), b \in On.noise :
       input' = SubSeq(bytes, 1, k) \o <<b>> \o SubSeq(bytes, k + 1, Len(bytes))

FeedDamaged ==
  /\ input = << >> /\ ~exited /\ Len(sent) < On.maxFrames /\ damage < On.maxDamage
  /\ \E f \in On.frames : Damage(Encoded[line][f][0]) /\ sent' = Append(sent, f)
  /\ intact' = FALSE /\ damage' = damage + 1
  /\ UNCHANGED <<rxvars, line, stray>>

FeedStray ==
  /\ input = << >> /\ ~exited /\ stray < On.maxStray
  /\ \E b \in On.noise : input' = <<b>>
  /\ intact' = FALSE /\ stray' = stray + 1
  /\ UNCHANGED <<rxvars, line, sent, damage>>

Feed    == FeedIntact \/ FeedDamaged \/ FeedStray
Receive == \/ ShortPacket \/ EscapeByte \/ PlainByte \/ EscapedByte \/ InvalidEscape
           \/ HeaderDone \/ DataDone \/ CrcDone \/ Delimiter \/ PktStart
(* h5_recv has read everything and returned, or the program has stopped.   *)
Idle == (input = << >> \/ exited) /\ UNCHANGED vars

Next == Feed \/ Receive \/ Idle

Spec == Init /\ [][Next]_vars

(* h5_recv runs until its buffer is used up.                               *)
FairSpec == Spec /\ WF_vars(Receive)

-----------------------------------------------------------------------------
(* No sequence of bytes makes the receiver run out of its buffer, which    *)
(* would end the program in skb_put: what has been stored, what is still   *)
(* awaited and the CRC that may follow always fit in the 0x1005 bytes      *)
(* (h5_recv, "Max len of a H5 pkt= 0xFFF (payload) +4 (header) +2 (crc)"). *)
BufferFits ==
  /\ ~exited
  /\ rx_state = "W4_DATA" /\ live =>
       Len(rx_skb) + rx_count + (IF HasCrc(rx_skb) THEN 2 ELSE 0) <= BufLen

(* The buffer is only touched while it is allocated: every path that frees *)
(* it also leaves the states in which h5_recv stores to it or looks at it. *)
BufferLive == rx_count > 0 \/ rx_state \in {"W4_HDR", "W4_DATA", "W4_CRC"} => live

(* Self-synchronisation and round trip: a frame that arrives as it was     *)
(* sent is delivered, unchanged, whatever the line carried before it       *)
(* (for reliable packets the number must also be the expected one).        *)
IntactDelivered ==
  LET f == sent[Len(sent)]
  IN  intact /\ input = << >> /\ ~IsReliable(f.type) =>
        /\ delivered # << >>
        /\ delivered[Len(delivered)].data = f.data
        /\ delivered[Len(delivered)].head[2] % 16 = f.type

(* With the CRC in every frame and no stray bytes, a frame damaged in one  *)
(* byte is never taken for a packet that was not sent, and no packet is    *)
(* delivered more often than frames were sent (W4_CRC in h5_recv).         *)
NoForgery ==
  (On.maxStray = 0 /\ \A f \in On.frames : f.crc) =>
  /\ Len(delivered) <= Len(sent)
  /\ \A k \in 1..Len(delivered) : \E j \in 1..Len(sent) :
       /\ delivered[k].data = sent[j].data
       /\ delivered[k].head[2] % 16 = sent[j].type

(* The loop of h5_recv always uses up its input.                           *)
ReadsAll == []<>(input = << >>)
=============================================================================
