------------------------------- MODULE MCH5Rx -------------------------------
(* Instances of H5Rx for TLC, with the real CRC. *)
EXTENDS H5Rx, H5Crc

Packet(type, seq, data, crc) == [type |-> type, seq |-> seq, data |-> data, crc |-> crc]

(* Link control, a pure acknowledgement, payloads that need escaping, one   *)
(* longer than the four length bits of the second header byte hold, and a   *)
(* reliable event.                                                          *)
Long == [k \in 1..18 |-> 10 * k]
MixedFrames == {Packet(15, 0, <<1, 126>>, FALSE), Packet(0, 0, << >>, TRUE),
                Packet(15, 0, <<192, 219, 17, 19>>, TRUE), Packet(15, 0, Long, TRUE),
                Packet(4, 0, <<14, 4>>, FALSE)}
StrayBytes == {0, 192, 219, 255}

CrcFrames == {Packet(4, 0, <<14, 192>>, TRUE), Packet(4, 1, <<219>>, TRUE),
              Packet(15, 0, <<17>>, TRUE)}
DamageBytes == {0, 1, 15, 64, 128, 192, 219, 220, 221, 222, 223, 255}

(* The receiver's states over stray bytes with a damaged or an intact frame *)
(* among them; two frames, every damage to one byte of one of them.         *)
MCLines ==
  [sync |-> [frames |-> MixedFrames, noise |-> StrayBytes,
             maxFrames |-> 1, maxDamage |-> 1, maxStray |-> 5, resync |-> TRUE],
   crc  |-> [frames |-> CrcFrames, noise |-> DamageBytes,
             maxFrames |-> 2, maxDamage |-> 1, maxStray |-> 0, resync |-> FALSE]]
=============================================================================
