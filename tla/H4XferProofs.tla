---------------------------- MODULE H4XferProofs ----------------------------
(***************************************************************************)
(* The data pointer of the download over H4, for every controller, event   *)
(* and number of refused commands, and every length of the firmware.       *)
(***************************************************************************)
EXTENDS H4Xfer, SequenceTheorems, TLAPS

(* The index that rolls over stays below the last packet's number, so that *)
(* the pointer is moved on exactly where the index is the one expected.    *)
LEMMA RollOverBelow == ASSUME NEW n \in Nat, NEW end \in Nat, n < end
                       PROVE  RollOver(n) < end
<1>1. CASE n <= 127
  BY <1>1, SMT DEF RollOver
<1>2. CASE n > 127
  <2>1. n % 128 \in 0..127
    BY SMT
  <2>2. QED
    BY <1>2, <2>1, SMT DEF RollOver
<1>3. QED
  BY <1>1, <1>2, SMT

Types ==
  /\ chip \in Chips /\ op \in H4Ops
  /\ pc \in {"issue", "type", "header", "payload", "done", "failed", "exit"}
  /\ i \in Nat /\ offset \in Nat

(* Packets are numbered from zero to the last, and none is sent before the *)
(* download begins.                                                        *)
Within ==
  /\ op \in {"OP_LMP_VER", "OP_ROM_VER", "OP_SET_BAUD"} => i = 0 /\ offset = 0
  /\ i <= LastIdx

IInv == Types /\ Within /\ DataInOrder

LEMMA ChipLength == Types => LastIdx \in Nat
<1>1. ASSUME NEW c \in ChipType PROVE c.endIdx \in Nat
  <2>1. c.endIdx \in 0..MaxEndIdx
    BY DEF ChipType
  <2>2. QED
    BY <2>1, SMT
<1>2. QED
  BY <1>1, ChipsAssumption DEF Types, LastIdx

LEMMA InitIInv == Init => IInv
<1> SUFFICES ASSUME Init PROVE IInv
  OBVIOUS
<1>1. Types
  BY DEF Init, Types, H4Ops
<1>2. Within /\ DataInOrder
  BY <1>1, ChipLength DEF Init, Within, DataInOrder
<1>3. QED
  BY <1>1, <1>2 DEF IInv

(* What the caller does with a result keeps the invariant, whatever the    *)
(* index answered.                                                         *)
LEMMA VersionDoneKeeps == IInv /\ UNCHANGED chip /\ VersionDone => IInv'
<1> SUFFICES ASSUME IInv, UNCHANGED chip, VersionDone PROVE IInv'
  OBVIOUS
<1>1. i = 0 /\ offset = 0 /\ i' = 0 /\ offset' = 0
  BY DEF IInv, Within, VersionDone
<1>2. op' \in H4Ops /\ pc' \in {"failed", "issue"}
  BY DEF VersionDone, NextOp, H4Ops
<1>3. Types'
  BY <1>1, <1>2 DEF IInv, Types
<1>4. QED
  BY <1>1, <1>3, ChipLength, LastIdx' = LastIdx
     DEF IInv, Types, Within, DataInOrder, LastIdx

LEMMA SpeedDoneKeeps == IInv /\ UNCHANGED chip /\ SpeedDone => IInv'
  BY DEF IInv, Types, Within, DataInOrder, LastIdx, SpeedDone, H4Ops

LEMMA PatchDoneKeeps ==
  ASSUME IInv, pc \notin {"failed", "exit"}, UNCHANGED chip, NEW c, PatchDone(c)
  PROVE  IInv'
<1>1. op = "OP_PATCH" /\ offset = i /\ LastIdx' = LastIdx /\ LastIdx \in Nat /\ i \in 0..LastIdx
  BY ChipLength, SMT DEF PatchDone, IInv, Types, Within, DataInOrder, LastIdx
<1>2. CASE Mismatch(c)
  BY <1>1, <1>2 DEF PatchDone, IInv, Types, Within, DataInOrder
<1>3. CASE ~Mismatch(c) /\ i < LastIdx
  <2>1. c = RollOver(i)
    BY <1>1, <1>3 DEF Mismatch
  <2>2. PastData(c)
    BY <1>1, <1>3, <2>1, RollOverBelow DEF PastData, LastIdx
  <2>3. i' = i + 1 /\ offset' = offset + 1 /\ op' = op /\ pc' = "issue"
    BY <1>3, <2>2 DEF PatchDone
  <2>4. QED
    BY <1>1, <1>3, <2>3 DEF IInv, Types, Within, DataInOrder
<1>4. CASE ~Mismatch(c) /\ ~(i < LastIdx)
  <2>1. i' = i /\ op' = "OP_HCI_RESET" /\ pc' = "issue" /\ offset' \in {offset, offset + 1}
    BY <1>4 DEF PatchDone
  <2>2. QED
    BY <1>1, <2>1 DEF IInv, Types, Within, DataInOrder, H4Ops
<1>5. QED
  BY <1>2, <1>3, <1>4

LEMMA CallerKeeps ==
  ASSUME IInv, pc \notin {"failed", "exit"}, UNCHANGED chip, Failed \/ Succeeded
  PROVE  IInv'
<1>1. CASE VersionDone
  BY <1>1, VersionDoneKeeps
<1>2. CASE SpeedDone
  BY <1>2, SpeedDoneKeeps
<1>3. ASSUME NEW c, PatchDone(c) PROVE IInv'
  BY <1>3, PatchDoneKeeps
<1>4. CASE op = "OP_HCI_RESET" /\ pc' \in {"failed", "done"} /\ UNCHANGED <<op, i, stepvars>>
  BY <1>4 DEF IInv, Types, Within, DataInOrder, LastIdx, stepvars
<1>5. QED
  BY <1>1, <1>2, <1>3, <1>4 DEF Failed, Succeeded

(* A step that leaves the caller's state alone.                            *)
LEMMA ProgressKeeps ==
  ASSUME IInv, UNCHANGED <<chip, op, i, offset>>,
         pc \in {"failed", "exit"} => pc' = pc,
         pc' \in {"issue", "type", "header", "payload", "done", "failed", "exit"}
  PROVE  IInv'
  BY DEF IInv, Types, Within, DataInOrder, LastIdx

LEMMA JudgeKeeps ==
  ASSUME IInv, pc \notin {"failed", "exit"}, UNCHANGED chip, Judge
  PROVE  IInv'
<1>1. CASE pc' = "type" /\ UNCHANGED <<op, i, stepvars>>
  BY <1>1, ProgressKeeps DEF stepvars
<1>2. QED
  BY <1>1, CallerKeeps DEF Judge

LEMMA IInvStep == IInv /\ [Next]_vars => IInv'
<1> SUFFICES ASSUME IInv, [Next]_vars PROVE IInv'
  OBVIOUS
<1>0. pc \in {"issue", "type", "header", "payload", "done", "failed", "exit"}
  BY DEF IInv, Types
<1> USE DEF xfervars, progvars, stepvars, chipvars
<1>1. CASE WriteCmd
  BY <1>1, ProgressKeeps DEF WriteCmd
<1>2. CASE WriteFails
  BY <1>2, CallerKeeps DEF WriteFails
<1>3. CASE ReadType
  BY <1>3, ProgressKeeps DEF ReadType
<1>4. CASE ReadHeader
  <2>1. CASE Failed
    BY <1>4, <2>1, CallerKeeps DEF ReadHeader
  <2>2. CASE pc' = "payload" /\ UNCHANGED <<op, i, stepvars>>
    BY <1>4, <2>2, ProgressKeeps DEF ReadHeader
  <2>3. QED
    BY <1>4, <2>1, <2>2 DEF ReadHeader
<1>5. CASE ReadShortHeader
  BY <1>5, JudgeKeeps DEF ReadShortHeader
<1>6. CASE ReadPayload
  <2>1. CASE Judge
    BY <1>6, <2>1, JudgeKeeps DEF ReadPayload
  <2>2. CASE UNCHANGED <<pc, op, i, stepvars>>
    BY <1>0, <1>6, <2>2, ProgressKeeps DEF ReadPayload
  <2>3. QED
    BY <1>6, <2>1, <2>2 DEF ReadPayload
<1>7. CASE Timeout
  BY <1>7, ProgressKeeps DEF Timeout, Polling
<1>8. CASE PollError
  BY <1>8, CallerKeeps DEF PollError, Polling
<1>9. CASE HangUp
  BY <1>0, <1>9, ProgressKeeps DEF HangUp
<1>10. CASE Execute
  BY <1>0, <1>10, ProgressKeeps DEF Execute
<1>11. CASE Refuse
  BY <1>0, <1>11, ProgressKeeps DEF Refuse
<1>12. CASE ChipEvent
  BY <1>0, <1>12, ProgressKeeps DEF ChipEvent
<1>13. CASE Finished
  BY <1>0, <1>13, ProgressKeeps DEF Finished, vars
<1>14. CASE UNCHANGED vars
  BY <1>0, <1>14, ProgressKeeps DEF vars
<1>15. QED
  BY <1>1, <1>2, <1>3, <1>4, <1>5, <1>6, <1>7, <1>8, <1>9, <1>10, <1>11, <1>12, <1>13, <1>14
     DEF Next, Host

(* Every packet carries its own part of the firmware, for every length and *)
(* whatever the controller answers, refuses or sends of its own            *)
(* (rtb_download_fwc).                                                     *)
THEOREM DataAlwaysInOrder == Spec => []DataInOrder
<1>1. IInv => DataInOrder
  BY DEF IInv
<1>2. QED
  BY InitIInv, IInvStep, <1>1, PTL DEF Spec


-----------------------------------------------------------------------------
(* What the line carries.  An event is taken for the completion of a       *)
(* command where the bytes of its code stand at the right place and the    *)
(* byte behind them is zero, or, as the buffer was cleared, was not read.  *)
Low(o)  == CASE o = "OP_LMP_VER" -> 1 [] o = "OP_ROM_VER" -> 109 [] o = "OP_SET_BAUD" -> 23
             [] o = "OP_PATCH" -> 32 [] o = "OP_HCI_RESET" -> 3
High(o) == CASE o = "OP_LMP_VER" -> 16 [] o = "OP_HCI_RESET" -> 12 [] OTHER -> 252
Rank(o) == CASE o = "OP_LMP_VER" -> 1 [] o = "OP_ROM_VER" -> 2 [] o = "OP_SET_BAUD" -> 3
             [] o = "OP_PATCH" -> 4 [] o = "OP_HCI_RESET" -> 5

(* The code of a command at k; with a zero behind it; anywhere; once.      *)
Names(s, k)        == \E o \in H4Ops : s[k] = Low(o) /\ s[k + 1] = High(o)
Completes(s, k, o) == s[k] = Low(o) /\ s[k + 1] = High(o) /\ s[k + 2] = 0
Contains(s, o)     == \E k \in 1..Len(s) - 2 : Completes(s, k, o)
Once(s, o)         == \A k, l \in 1..Len(s) - 2 : Completes(s, k, o) /\ Completes(s, l, o) => k = l

(* No code stands behind what may be the length of an event that ends      *)
(* with it.                                                                *)
Long(s) == \A k \in 1..Len(s) - 1 : Names(s, k) => k < 3 \/ s[k - 2] # 3

Drops(t, s, n) == Len(s) = Len(t) + n /\ \A k \in 1..Len(t) : t[k] = s[k + n]

(* An event, and one that names no command.                                *)
IsEvent(e) == /\ e \in Seq(Byte) /\ Len(e) >= 1 /\ e[1] = 4
              /\ \A k \in 1..Len(e) - 1 : Names(e, k) => k >= 3 /\ e[k - 2] # 3
IsBare(e)  == IsEvent(e) /\ \A k \in 1..Len(e) - 1 : ~Names(e, k)

LEMMA Codes == ASSUME NEW o \in H4Ops
               PROVE  /\ Opcode(o) = <<Low(o), High(o)>> /\ Low(o) \in 1..255
                      /\ High(o) \in {12, 16, 252} /\ Rank(o) \in 1..5
                      /\ \A p \in H4Ops : Low(o) = Low(p) => o = p
  BY DEF Opcode, Low, High, Rank, H4Ops

(* What t says of the commands, s says as well. *)
Less(t, s) == /\ Long(s) => Long(t)
              /\ \A o \in H4Ops : /\ Contains(t, o) => Contains(s, o)
                                  /\ Once(s, o) => Once(t, o)

LEMMA DropKeeps ==
  ASSUME NEW s \in Seq(Byte), NEW t \in Seq(Byte), NEW n \in Nat, Drops(t, s, n)
  PROVE  Less(t, s)
<1>1. PICK l \in Nat : l = Len(t) /\ Len(s) = l + n
  BY LenProperties DEF Drops
<1>2. \A k \in 1..l : t[k] = s[k + n]
  BY <1>1 DEF Drops
<1>3. ASSUME NEW k \in 1..l - 1
      PROVE  /\ t[k] = s[k + n] /\ t[k + 1] = s[(k + n) + 1] /\ k + n \in 1..Len(s) - 1
             /\ Names(t, k) => Names(s, k + n)
  <2>1. k \in 1..l /\ k + 1 \in 1..l /\ (k + 1) + n = (k + n) + 1 /\ k + n \in 1..(l + n) - 1
    BY SMT
  <2>2. QED
    BY <1>1, <1>2, <2>1 DEF Names
<1>4. ASSUME NEW k \in 1..l - 2, NEW o
      PROVE  k + n \in 1..Len(s) - 2 /\ (Completes(t, k, o) => Completes(s, k + n, o))
  <2>1. /\ k \in 1..l /\ k + 1 \in 1..l /\ k + 2 \in 1..l /\ (k + 1) + n = (k + n) + 1
        /\ (k + 2) + n = (k + n) + 2 /\ k + n \in 1..(l + n) - 2
    BY SMT
  <2>2. QED
    BY <1>1, <1>2, <2>1 DEF Completes
<1>5. ASSUME Long(s) PROVE Long(t)
  <2> SUFFICES ASSUME NEW k \in 1..l - 1, Names(t, k), ~(k < 3) PROVE t[k - 2] # 3
    BY <1>1 DEF Long
  <2>1. k - 2 \in 1..l /\ (k - 2) + n = (k + n) - 2 /\ ~(k + n < 3)
    BY SMT
  <2>2. s[(k + n) - 2] # 3
    BY <1>3, <1>5, <2>1 DEF Long
  <2>3. QED
    BY <1>2, <2>1, <2>2
<1>6. ASSUME NEW o \in H4Ops PROVE Contains(t, o) => Contains(s, o)
  BY <1>1, <1>4 DEF Contains
<1>7. ASSUME NEW o \in H4Ops, Once(s, o) PROVE Once(t, o)
  <2> SUFFICES ASSUME NEW k \in 1..l - 2, NEW m \in 1..l - 2, Completes(t, k, o),
                      Completes(t, m, o)
               PROVE  k = m
    BY <1>1 DEF Once
  <2>1. k + n = m + n
    BY <1>4, <1>7 DEF Once
  <2>2. QED
    BY <2>1, SMT
<1>8. QED
  BY <1>5, <1>6, <1>7 DEF Less

(* Once the only completion of a command is dropped, there is none.        *)
LEMMA DropOnly ==
  ASSUME NEW s \in Seq(Byte), NEW t \in Seq(Byte), NEW n \in Nat, n >= 5, Drops(t, s, n),
         NEW o \in H4Ops, Once(s, o), Completes(s, 5, o), Len(s) >= 7
  PROVE  ~Contains(t, o)
<1> SUFFICES ASSUME Contains(t, o) PROVE FALSE
  OBVIOUS
<1>1. PICK l \in Nat : l = Len(t) /\ Len(s) = l + n
  BY LenProperties DEF Drops
<1>2. \A k \in 1..l : t[k] = s[k + n]
  BY <1>1 DEF Drops
<1>3. PICK k \in 1..l - 2 : Completes(t, k, o)
  BY <1>1 DEF Contains
<1>4. /\ k \in 1..l /\ k + 1 \in 1..l /\ k + 2 \in 1..l /\ (k + 1) + n = (k + n) + 1
      /\ (k + 2) + n = (k + n) + 2 /\ k + n \in 1..(l + n) - 2 /\ k + n # 5
  BY SMT
<1>5. Completes(s, k + n, o)
  BY <1>2, <1>3, <1>4 DEF Completes
<1>6. 5 \in 1..Len(s) - 2
  BY <1>1, SMT
<1>7. QED
  BY <1>1, <1>4, <1>5, <1>6 DEF Once

LEMMA Joined ==
  ASSUME NEW s \in Seq(Byte), NEW t \in Seq(Byte)
  PROVE  /\ s \o t \in Seq(Byte) /\ Len(s \o t) = Len(s) + Len(t)
         /\ \A k \in 1..Len(s) : (s \o t)[k] = s[k]
         /\ \A k \in 1..Len(t) : (s \o t)[Len(s) + k] = t[k]
<1>1. PICK l, m \in Nat : l = Len(s) /\ m = Len(t)
  BY LenProperties
<1>2. /\ s \o t \in Seq(Byte) /\ Len(s \o t) = l + m
      /\ \A k \in 1..l + m : (s \o t)[k] = IF k <= l THEN s[k] ELSE t[k - l]
  BY <1>1, ConcatProperties
<1>3. ASSUME NEW k \in 1..l PROVE (s \o t)[k] = s[k]
  <2>1. k \in 1..l + m /\ k <= l
    BY SMT
  <2>2. QED
    BY <1>2, <2>1
<1>4. ASSUME NEW k \in 1..m PROVE (s \o t)[l + k] = t[k]
  <2>1. l + k \in 1..l + m /\ ~(l + k <= l) /\ (l + k) - l = k
    BY SMT
  <2>2. QED
    BY <1>2, <2>1
<1>5. QED
  BY <1>1, <1>2, <1>3, <1>4

(* The same with the lengths known.                                        *)
Cat(s, t) == s \o t

Joins(e, s, t, l, m) == /\ e \in Seq(Byte) /\ Len(e) = l + m
                        /\ \A k \in 1..l : e[k] = s[k]
                        /\ \A k \in 1..m : e[l + k] = t[k]

LEMMA CatIs ==
  \A s, t \in Seq(Byte), l, m \in Nat :
    Len(s) = l /\ Len(t) = m => Joins(Cat(s, t), s, t, l, m)
<1> SUFFICES ASSUME NEW s \in Seq(Byte), NEW t \in Seq(Byte), NEW l \in Nat, NEW m \in Nat,
                    Len(s) = l, Len(t) = m
             PROVE  Joins(Cat(s, t), s, t, l, m)
  OBVIOUS
<1>1. PICK e \in Seq(Byte) : e = s \o t
  BY ConcatProperties
<1>2. Len(e) = Len(s) + Len(t) /\ \A k \in 1..Len(s) : e[k] = s[k]
  BY <1>1, Joined
<1>3. \A k \in 1..Len(t) : e[Len(s) + k] = t[k]
  BY <1>1, Joined
<1>4. Cat(s, t) = e
  BY <1>1 DEF Cat
<1>5. QED
  BY <1>2, <1>3, <1>4 DEF Joins

(* No completion and no code lies across the start of an event.            *)
LEMMA Across ==
  ASSUME NEW s \in Seq(Byte), NEW e, IsEvent(e)
  PROVE  /\ s \o e \in Seq(Byte) /\ Len(s \o e) = Len(s) + Len(e)
         /\ \A o \in H4Ops, k \in 1..Len(s \o e) - 2 : Completes(s \o e, k, o) =>
              \/ k \in 1..Len(s) - 2 /\ Completes(s, k, o)
              \/ k - Len(s) \in 1..Len(e) - 2 /\ Completes(e, k - Len(s), o)
         /\ Long(s) => Long(s \o e)
<1> DEFINE t == s \o e
<1>1. PICK l, m \in Nat : l = Len(s) /\ m = Len(e) /\ m >= 1 /\ e \in Seq(Byte) /\ e[1] = 4
  BY LenProperties DEF IsEvent
<1>2. /\ t \in Seq(Byte) /\ Len(t) = l + m
      /\ \A k \in 1..l : t[k] = s[k]
      /\ \A k \in 1..m : t[l + k] = e[k]
  BY <1>1, Joined
<1> HIDE DEF t
<1>3. t[l + 1] = 4
  <2>1. 1 \in 1..m
    BY <1>1, SMT
  <2>2. QED
    BY <1>1, <1>2, <2>1
<1>4. ASSUME NEW k \in 1..(l + m) - 1, Names(t, k)
      PROVE  \/ k \in 1..l - 1 /\ Names(s, k)
             \/ k - l \in 1..m - 1 /\ Names(e, k - l)
  <2>1. CASE k \in 1..l - 1
    <3>1. k \in 1..l /\ k + 1 \in 1..l
      BY <2>1, SMT
    <3>2. QED
      BY <1>2, <1>4, <2>1, <3>1 DEF Names
  <2>2. CASE k = l
    BY <1>3, <1>4, <2>2, Codes DEF Names
  <2>3. CASE k > l
    <3>1. k - l \in 1..m /\ (k - l) + 1 \in 1..m /\ k - l \in 1..m - 1 /\ l + (k - l) = k
          /\ l + ((k - l) + 1) = k + 1
      BY <1>1, <2>3, SMT
    <3>2. t[k] = e[k - l] /\ t[k + 1] = e[(k - l) + 1]
      BY <1>2, <3>1, SMTT(30)
    <3>3. QED
      BY <1>4, <3>1, <3>2 DEF Names
  <2>4. QED
    BY <1>1, <2>1, <2>2, <2>3, SMT
<1>5. ASSUME NEW o \in H4Ops, NEW k \in 1..(l + m) - 2, Completes(t, k, o)
      PROVE  \/ k \in 1..l - 2 /\ Completes(s, k, o)
             \/ k - l \in 1..m - 2 /\ Completes(e, k - l, o)
  <2>1. CASE k \in 1..l - 2
    <3>1. k \in 1..l /\ k + 1 \in 1..l /\ k + 2 \in 1..l
      BY <2>1, SMT
    <3>2. QED
      BY <1>2, <1>5, <2>1, <3>1 DEF Completes
  <2>2. k # l
    BY <1>3, <1>5, Codes DEF Completes
  <2>3. k # l - 1
    <3>1. SUFFICES ASSUME k = l - 1 PROVE FALSE
      OBVIOUS
    <3>2. k + 2 = l + 1
      BY <3>1, SMT
    <3>3. QED
      BY <1>3, <1>5, <3>2 DEF Completes
  <2>4. CASE k > l
    <3>1. /\ k - l \in 1..m /\ (k - l) + 1 \in 1..m /\ (k - l) + 2 \in 1..m
          /\ k - l \in 1..m - 2 /\ l + (k - l) = k
          /\ l + ((k - l) + 1) = k + 1 /\ l + ((k - l) + 2) = k + 2
      BY <1>1, <2>4, SMT
    <3>2. t[k] = e[k - l] /\ t[k + 1] = e[(k - l) + 1] /\ t[k + 2] = e[(k - l) + 2]
      BY <1>2, <3>1
    <3>3. QED
      BY <1>5, <3>1, <3>2 DEF Completes
  <2>5. QED
    BY <1>1, <2>1, <2>2, <2>3, <2>4, SMT
<1>6. ASSUME Long(s) PROVE Long(t)
  <2> SUFFICES ASSUME NEW k \in 1..(l + m) - 1, Names(t, k), ~(k < 3) PROVE t[k - 2] # 3
    BY <1>2 DEF Long
  <2>1. CASE k \in 1..l - 1 /\ Names(s, k)
    <3>1. k - 2 \in 1..l
      BY <2>1, SMT
    <3>2. s[k - 2] # 3
      BY <1>1, <1>6, <2>1 DEF Long
    <3>3. QED
      BY <1>2, <3>1, <3>2
  <2>2. CASE k - l \in 1..m - 1 /\ Names(e, k - l)
    <3>1. k - l >= 3 /\ e[(k - l) - 2] # 3
      BY <1>1, <2>2 DEF IsEvent
    <3>2. (k - l) - 2 \in 1..m /\ l + ((k - l) - 2) = k - 2
      BY <1>1, <2>2, <3>1, SMT
    <3>3. QED
      BY <1>2, <3>1, <3>2
  <2>3. QED
    BY <1>4, <2>1, <2>2
<1>7. QED
  BY <1>1, <1>2, <1>5, <1>6 DEF t

(* Taking the first n bytes of a sequence that follows another.            *)
LEMMA Taking ==
  ASSUME NEW b \in Seq(Byte), NEW s \in Seq(Byte), NEW n \in 0..Len(s)
  PROVE  LET h == SubSeq(s, 1, n)
             t == SubSeq(s, n + 1, Len(s))
         IN  /\ t \in Seq(Byte) /\ b \o h \in Seq(Byte)
             /\ Len(t) = Len(s) - n /\ Len(b \o h) = Len(b) + n
             /\ \A k \in 1..Len(b) : (b \o h)[k] = b[k]
             /\ (b \o h) \o t = b \o s
             /\ Drops(t, b \o s, Len(b) + n)
<1> DEFINE h == SubSeq(s, 1, n)
           t == SubSeq(s, n + 1, Len(s))
<1>1. PICK l, m \in Nat : l = Len(s) /\ m = Len(b) /\ n \in 0..l
  BY LenProperties
<1>2. \A k \in 1..l : s[k] \in Byte
  BY <1>1, ElementOfSeq
<1>3. h \in Seq(Byte) /\ Len(h) = n /\ \A k \in 1..n : h[k] = s[k]
  <2>1. n \in Int /\ \A k \in 1..n : s[k] \in Byte
    BY <1>1, <1>2, SMT
  <2>2. h \in Seq(Byte) /\ Len(h) = (IF 1 <= n THEN n - 1 + 1 ELSE 0)
        /\ \A k \in 1..n - 1 + 1 : h[k] = s[1 + k - 1]
    BY <2>1, SubSeqProperties
  <2>3. QED
    BY <1>1, <2>2, SMT
<1>4. t \in Seq(Byte) /\ Len(t) = l - n /\ \A k \in 1..l - n : t[k] = s[k + n]
  <2>1. n + 1 \in Int /\ l \in Int /\ \A k \in n + 1..l : s[k] \in Byte
    BY <1>1, <1>2, SMT
  <2>2. t \in Seq(Byte) /\ Len(t) = (IF n + 1 <= l THEN l - (n + 1) + 1 ELSE 0)
        /\ \A k \in 1..l - (n + 1) + 1 : t[k] = s[(n + 1) + k - 1]
    BY <1>1, <2>1, SubSeqProperties
  <2>3. QED
    BY <1>1, <2>2, SMT
<1> HIDE DEF h, t
<1>5. /\ b \o h \in Seq(Byte) /\ Len(b \o h) = m + n
      /\ \A k \in 1..m + n : (b \o h)[k] = IF k <= m THEN b[k] ELSE h[k - m]
  BY <1>1, <1>3, ConcatProperties
<1>6. /\ b \o s \in Seq(Byte) /\ Len(b \o s) = m + l
      /\ \A k \in 1..m + l : (b \o s)[k] = IF k <= m THEN b[k] ELSE s[k - m]
  BY <1>1, ConcatProperties
<1>7. /\ (b \o h) \o t \in Seq(Byte) /\ Len((b \o h) \o t) = (m + n) + (l - n)
      /\ \A k \in 1..(m + n) + (l - n) :
           ((b \o h) \o t)[k] = IF k <= m + n THEN (b \o h)[k] ELSE t[k - (m + n)]
  BY <1>4, <1>5, ConcatProperties
<1>8. (b \o h) \o t = b \o s
  <2>1. ASSUME NEW k \in 1..m + l PROVE ((b \o h) \o t)[k] = (b \o s)[k]
    <3>1. CASE k <= m
      BY <1>1, <1>5, <1>6, <1>7, <3>1
    <3>2. CASE m < k /\ k <= m + n
      <4>1. k - m \in 1..n /\ k \in 1..m + n /\ k \in 1..(m + n) + (l - n) /\ ~(k <= m)
        BY <1>1, <3>2, SMT
      <4>2. h[k - m] = s[k - m]
        BY <1>3, <4>1
      <4>3. ((b \o h) \o t)[k] = (b \o h)[k] /\ (b \o h)[k] = h[k - m]
            /\ (b \o s)[k] = s[k - m]
        BY <1>5, <1>6, <1>7, <3>2, <4>1
      <4>4. QED
        BY <4>2, <4>3
    <3>3. CASE m + n < k
      <4>1. k - (m + n) \in 1..l - n /\ (k - (m + n)) + n = k - m
            /\ k \in 1..(m + n) + (l - n) /\ ~(k <= m) /\ ~(k <= m + n)
        BY <1>1, <3>3, SMT
      <4>2. t[k - (m + n)] = s[k - m]
        BY <1>4, <4>1
      <4>3. ((b \o h) \o t)[k] = t[k - (m + n)] /\ (b \o s)[k] = s[k - m]
        BY <1>6, <1>7, <4>1
      <4>4. QED
        BY <4>2, <4>3
    <3>4. k <= m \/ (m < k /\ k <= m + n) \/ m + n < k
      BY <1>1, SMT
    <3>5. QED
      BY <3>1, <3>2, <3>3, <3>4
  <2>2. Len((b \o h) \o t) = Len(b \o s) /\ Len(b \o s) = m + l
    BY <1>1, <1>6, <1>7, SMT
  <2>3. QED
    BY <1>6, <1>7, <2>1, <2>2, SeqEqual
<1>9. Drops(t, b \o s, m + n)
  <2>1. ASSUME NEW k \in 1..l - n PROVE t[k] = (b \o s)[k + (m + n)]
    <3>1. k + (m + n) \in 1..m + l /\ (k + (m + n)) - m = k + n /\ ~(k + (m + n) <= m)
      BY <1>1, SMT
    <3>2. (b \o s)[k + (m + n)] = s[k + n]
      BY <1>6, <3>1
    <3>3. QED
      BY <1>4, <3>2
  <2>2. Len(b \o s) = Len(t) + (m + n)
    BY <1>1, <1>4, <1>6, SMT
  <2>3. QED
    BY <1>4, <2>1, <2>2 DEF Drops
<1>10. \A k \in 1..m : (b \o h)[k] = b[k]
  BY <1>1, <1>5, SMT
<1>11. QED
  BY <1>1, <1>4, <1>5, <1>8, <1>9, <1>10 DEF h, t

(* The parameters of an answer name no command, but for the index of a     *)
(* packet, which is the last byte.                                         *)
LEMMA ParamsAre ==
  ASSUME NEW o \in H4Ops, NEW idx \in Byte
  PROVE  LET p == Params(o, idx) IN
         /\ p \in Seq(Byte) /\ Len(p) \in {0, 1, 8}
         /\ \A k \in 1..Len(p) - 1, q \in H4Ops : p[k] # Low(q)
         /\ Len(p) >= 1 /\ o # "OP_PATCH" => p[1] \in {1, 8}
         /\ o = "OP_PATCH" => Len(p) = 1
<1>1. CASE o = "OP_LMP_VER"
  <2>1. Params(o, idx) = <<8, 13, 0, 8, 93, 0, 4, 14>>
    BY <1>1 DEF Params
  <2>2. \A q \in H4Ops : Low(q) \in {1, 3, 23, 32, 109}
    BY DEF Low, H4Ops
  <2>3. \A k \in 1..7 : Params(o, idx)[k] \in {0, 4, 8, 13, 93}
    <3>1. \A k \in 1..7 : k \in {1, 2, 3, 4, 5, 6, 7}
      BY SMT
    <3>2. QED
      BY <2>1, <3>1
  <2>4. Params(o, idx) \in Seq(Byte) /\ Len(Params(o, idx)) = 8 /\ Params(o, idx)[1] = 8
    BY <2>1 DEF Byte
  <2>5. ASSUME NEW k \in 1..7, NEW q \in H4Ops PROVE Params(o, idx)[k] # Low(q)
    <3>1. Low(q) \in {1, 3, 23, 32, 109}
      BY <2>2
    <3>2. Params(o, idx)[k] \in {0, 4, 8, 13, 93}
      BY <2>3
    <3>3. \A x \in {0, 4, 8, 13, 93}, y \in {1, 3, 23, 32, 109} : x # y
      BY SMT
    <3>4. QED
      BY <3>1, <3>2, <3>3, Zenon
  <2>6. /\ \A k \in 1..8 - 1, q \in H4Ops : Params(o, idx)[k] # Low(q)
        /\ o # "OP_PATCH" /\ 8 \in {0, 1, 8} /\ 8 \in {1, 8}
    BY <1>1, <2>5
  <2>7. QED
    BY <2>4, <2>6, Zenon
<1>2. CASE o = "OP_ROM_VER"
  BY <1>2 DEF Params, Byte
<1>3. CASE o = "OP_PATCH"
  BY <1>3 DEF Params, Byte
<1>4. CASE o \in {"OP_SET_BAUD", "OP_HCI_RESET"}
  BY <1>4 DEF Params, Byte
<1>5. QED
  BY <1>1, <1>2, <1>3, <1>4 DEF H4Ops

LEMMA CompletionBytes ==
  ASSUME NEW o \in H4Ops, NEW st \in {0, 1}, NEW p \in Seq(Byte), Len(p) \in {0, 1, 8}
  PROVE  LET e == Completion(o, st, p) IN
         /\ e \in Seq(Byte) /\ Len(e) = 7 + Len(p)
         /\ e[1] = 4 /\ e[2] = 14 /\ e[3] = 4 + Len(p) /\ e[4] = 1
         /\ e[5] = Low(o) /\ e[6] = High(o) /\ e[7] = st
         /\ \A k \in 1..Len(p) : e[7 + k] = p[k]
<1>1. PICK m \in {0, 1, 8} : m = Len(p)
  OBVIOUS
<1>2. 4 + m \in Byte /\ 4 \in Byte /\ 14 \in Byte /\ 1 \in Byte /\ st \in Byte
  <2>1. \A k \in {0, 1, 8} : 4 + k \in 0..255
    BY SMT
  <2>2. QED
    BY <2>1 DEF Byte
<1>3. PICK a \in Seq(Byte) : a = <<4, 14, 4 + m, 1>>
  <2>1. <<4, 14, 4 + m, 1>> \in Seq(Byte)
    BY <1>2
  <2>2. QED
    BY <2>1, Zenon
<1>4. PICK b \in Seq(Byte) : b = <<Low(o), High(o)>>
  <2>1. Low(o) \in Byte /\ High(o) \in Byte
    BY DEF Byte, Low, High, H4Ops
  <2>2. <<Low(o), High(o)>> \in Seq(Byte)
    BY <2>1
  <2>3. QED
    BY <2>2, Zenon
<1>5. PICK c \in Seq(Byte) : c = <<st>>
  <2>1. <<st>> \in Seq(Byte)
    BY <1>2
  <2>2. QED
    BY <2>1, Zenon
<1>6. /\ Len(a) = 4 /\ a[1] = 4 /\ a[2] = 14 /\ a[3] = 4 + m /\ a[4] = 1
      /\ Len(b) = 2 /\ b[1] = Low(o) /\ b[2] = High(o)
      /\ Len(c) = 1 /\ c[1] = st
  BY <1>3, <1>4, <1>5
<1>7. /\ 1 \in Nat /\ 2 \in Nat /\ 4 \in Nat /\ 6 \in Nat /\ 7 \in Nat /\ m \in Nat
      /\ 4 + 2 = 6 /\ 6 + 1 = 7
  BY SMT
<1> DEFINE ab  == Cat(a, b)
           abc == Cat(ab, c)
           all == Cat(abc, p)
<1>8. Completion(o, st, p) = all
  BY <1>1, <1>3, <1>4, <1>5, Codes, Zenon DEF Completion, Cat
<1>9. /\ ab \in Seq(Byte) /\ Len(ab) = 6 /\ \A k \in 1..4 : ab[k] = a[k]
      /\ \A k \in 1..2 : ab[4 + k] = b[k]
  <2>1. Joins(ab, a, b, 4, 2)
    BY <1>6, <1>7, CatIs, Zenon
  <2> HIDE DEF ab
  <2>2. QED
    BY <1>7, <2>1 DEF Joins
<1> HIDE DEF ab
<1>10. /\ abc \in Seq(Byte) /\ Len(abc) = 7 /\ \A k \in 1..6 : abc[k] = ab[k]
       /\ \A k \in 1..1 : abc[6 + k] = c[k]
  <2>1. Joins(abc, ab, c, 6, 1)
    BY <1>6, <1>7, <1>9, CatIs, Zenon
  <2> HIDE DEF abc
  <2>2. QED
    BY <1>7, <2>1 DEF Joins
<1> HIDE DEF abc
<1>11. /\ all \in Seq(Byte) /\ Len(all) = 7 + m /\ \A k \in 1..7 : all[k] = abc[k]
       /\ \A k \in 1..m : all[7 + k] = p[k]
  <2>1. Joins(all, abc, p, 7, m)
    BY <1>1, <1>7, <1>10, CatIs, Zenon
  <2> HIDE DEF all
  <2>2. QED
    BY <1>7, <2>1 DEF Joins
<1> HIDE DEF all
<1>12. /\ abc[1] = 4 /\ abc[2] = 14 /\ abc[3] = 4 + m /\ abc[4] = 1
       /\ abc[5] = Low(o) /\ abc[6] = High(o) /\ abc[7] = st
  <2>1. ab[1] = a[1] /\ ab[2] = a[2] /\ ab[3] = a[3] /\ ab[4] = a[4]
        /\ ab[5] = b[1] /\ ab[6] = b[2]
    BY <1>9
  <2>2. abc[1] = ab[1] /\ abc[2] = ab[2] /\ abc[3] = ab[3] /\ abc[4] = ab[4]
        /\ abc[5] = ab[5] /\ abc[6] = ab[6] /\ abc[7] = c[1]
    BY <1>10
  <2>3. QED
    BY <1>6, <2>1, <2>2, Zenon
<1>13. all[1] = abc[1] /\ all[2] = abc[2] /\ all[3] = abc[3] /\ all[4] = abc[4]
       /\ all[5] = abc[5] /\ all[6] = abc[6] /\ all[7] = abc[7]
  BY <1>11
<1>14. QED
  BY <1>1, <1>8, <1>11, <1>12, <1>13, Zenon

(* The completion of o is an event; the only command it may complete is o, *)
(* and only if it was not refused.                                         *)
LEMMA CompletionIs ==
  ASSUME NEW o \in H4Ops, NEW st \in {0, 1}, NEW idx \in Byte
  PROVE  LET e == Completion(o, st, Params(o, idx)) IN
         /\ IsEvent(e) /\ Len(e) >= 7
         /\ \A p \in H4Ops, k \in 1..Len(e) - 2 :
              Completes(e, k, p) => k = 5 /\ p = o /\ st = 0
<1> DEFINE par == Params(o, idx)
           e == Completion(o, st, par)
<1>1. PICK m \in {0, 1, 8} : m = Len(par)
  BY ParamsAre
<1>2. /\ \A k \in 1..m - 1, q \in H4Ops : par[k] # Low(q)
      /\ m >= 1 /\ o # "OP_PATCH" => par[1] \in {1, 8}
      /\ o = "OP_PATCH" => m = 1
  BY <1>1, ParamsAre
<1>3. /\ e \in Seq(Byte) /\ Len(e) = 7 + m
      /\ e[1] = 4 /\ e[2] = 14 /\ e[3] = 4 + m /\ e[4] = 1
      /\ e[5] = Low(o) /\ e[6] = High(o) /\ e[7] = st
      /\ \A k \in 1..m : e[7 + k] = par[k]
  BY <1>1, ParamsAre, CompletionBytes
<1> HIDE DEF par, e
<1>4. ASSUME NEW k \in 1..(7 + m) - 1, NEW q \in H4Ops, e[k] = Low(q), e[k + 1] = High(q)
      PROVE  k = 5 \/ (k = 7 /\ st = 1 /\ o = "OP_PATCH")
  <2>1. Low(q) \in {1, 109, 23, 32, 3} /\ High(q) \in {16, 252, 12}
        /\ Low(o) \in {1, 109, 23, 32, 3} /\ High(o) \in {16, 252, 12}
    BY DEF Low, High, H4Ops
  <2>2. k \notin {1, 2, 3, 6}
    BY <1>1, <1>3, <1>4, <2>1
  <2>3. k # 4
    BY <1>3, <1>4, <2>1
  <2>4. ASSUME k = 7 PROVE st = 1 /\ o = "OP_PATCH"
    <3>1. st = 1
      BY <1>3, <1>4, <2>1, <2>4
    <3>2. m >= 1 /\ 1 \in 1..m
      BY <1>1, <1>4, <2>4
    <3>3. e[7 + 1] = par[1]
      BY <1>3, <3>2
    <3>4. par[1] \notin {1, 8}
      BY <1>4, <2>1, <2>4, <3>3
    <3>5. QED
      BY <1>2, <3>1, <3>2, <3>4
  <2>5. ~(k > 7)
    <3>1. SUFFICES ASSUME k > 7 PROVE FALSE
      OBVIOUS
    <3>2. k - 7 \in 1..m - 1 /\ k - 7 \in 1..m /\ 7 + (k - 7) = k
      BY <1>1, <3>1, SMT
    <3>3. e[k] = par[k - 7]
      BY <1>3, <3>2
    <3>4. QED
      BY <1>2, <1>4, <3>2, <3>3
  <2>6. QED
    BY <1>1, <2>2, <2>3, <2>4, <2>5, SMT
<1>5. ASSUME NEW k \in 1..Len(e) - 1, Names(e, k) PROVE k >= 3 /\ e[k - 2] # 3
  <2>1. PICK q \in H4Ops : e[k] = Low(q) /\ e[k + 1] = High(q)
    BY <1>5 DEF Names
  <2>2. k = 5 \/ (k = 7 /\ o = "OP_PATCH")
    BY <1>3, <1>4, <2>1
  <2>3. CASE k = 5
    BY <1>1, <1>3, <2>3
  <2>4. CASE k = 7 /\ o = "OP_PATCH"
    BY <1>3, <2>4 DEF Low
  <2>5. QED
    BY <2>2, <2>3, <2>4
<1>6. ASSUME NEW q \in H4Ops, NEW k \in 1..Len(e) - 2, Completes(e, k, q)
      PROVE  k = 5 /\ q = o /\ st = 0
  <2>1. k \in 1..(7 + m) - 1 /\ k \in 1..5 + m
    BY <1>1, <1>3, SMT
  <2>2. k # 7
    BY <1>2, <1>4, <1>6, <2>1 DEF Completes
  <2>3. k = 5
    BY <1>4, <1>6, <2>1, <2>2 DEF Completes
  <2>4. QED
    BY <1>3, <1>6, <2>3, Codes DEF Completes
<1>7. Len(e) >= 7 /\ Len(e) >= 1
  BY <1>1, <1>3
<1>8. QED
  BY <1>3, <1>5, <1>6, <1>7 DEF IsEvent, e, par


-----------------------------------------------------------------------------
(* The invariant.  The bytes of the event that is being read, and those    *)
(* still to be read, say of each command whether it was answered.          *)
Going  == pc \notin {"done", "failed", "exit"}
Inside == pc \in {"header", "payload"}
Stream == IF Inside THEN buf \o line ELSE line

TypeBytes ==
  /\ line \in Seq(Byte) /\ buf \in Seq(Byte) /\ left \in Nat
  /\ pending = << >> \/ pending \in H4Ops \X Byte

(* What is known of the event being read.                                  *)
Reading ==
  /\ pc = "header" => buf = <<4>>
  /\ pc = "payload" => Len(buf) >= 3 /\ Len(buf) + left = 3 + buf[3] /\ buf[1] = 4

(* Only commands before this one, and this one if it was carried out and   *)
(* is polled for, are answered on the line, this one at most once.         *)
Answered ==
  Going =>
    /\ Once(Stream, op)
    /\ \A o \in H4Ops : Contains(Stream, o) =>
         Rank(o) < Rank(op) \/ (o = op /\ Polling /\ executed = Current)

(* The same of the command the controller has still to answer.             *)
Asked ==
  Going /\ pending # << >> =>
    /\ ~Contains(Stream, op)
    /\ Rank(pending[1]) < Rank(op) \/ (Polling /\ pending = Current)

(* The packets before this one were accepted, and this one if an answer on *)
(* the line says so.                                                       *)
Accepted ==
  /\ Going /\ op = "OP_PATCH" => 0..(i - 1) \subseteq accepted
  /\ Going /\ op = "OP_PATCH" /\ Contains(Stream, op) => i \in accepted
  /\ op = "OP_HCI_RESET" => 0..(LastIdx - 1) \subseteq accepted
  /\ pc = "done" => op = "OP_HCI_RESET"

SInv == IInv /\ TypeBytes /\ Reading /\ Long(Stream) /\ Answered /\ Asked /\ Accepted

(* No event the controller sends of its own has the code of a command in   *)
(* it.                                                                     *)
Unlike == \A c \in Chips : \A e \in c.unasked : IsBare(e)

LEMMA StreamTyped == ASSUME TypeBytes PROVE Stream \in Seq(Byte)
  BY ConcatProperties DEF TypeBytes, Stream

LEMMA InitSInv == Init => SInv
<1> SUFFICES ASSUME Init PROVE SInv
  OBVIOUS
<1>1. IInv
  BY InitIInv
<1>2. Stream = << >> /\ Len(Stream) = 0
  BY DEF Init, Stream, Inside
<1>3. TypeBytes /\ Reading
  BY DEF Init, TypeBytes, Reading
<1>4. Long(Stream) /\ \A o \in H4Ops : ~Contains(Stream, o) /\ Once(Stream, o)
  BY <1>2, SMT DEF Long, Contains, Once
<1>5. op \in H4Ops
  BY <1>1 DEF IInv, Types
<1>6. Answered /\ Asked /\ Accepted
  BY <1>4, <1>5 DEF Init, Answered, Asked, Accepted
<1>7. QED
  BY <1>1, <1>3, <1>4, <1>6 DEF SInv

-----------------------------------------------------------------------------
(* Steps that leave the caller where it is.                                *)
LEMMA ProgressSInv ==
  ASSUME SInv, IInv', TypeBytes', Reading', UNCHANGED <<chip, op, i, executed, accepted>>,
         pending' \in {pending, << >>}, (Polling /\ Polling') \/ pc' = pc,
         Less(Stream', Stream)
  PROVE  SInv'
<1>1. op \in H4Ops
  BY DEF SInv, IInv, Types
<1>2. /\ Going' = Going /\ Polling' = Polling /\ Current' = Current /\ LastIdx' = LastIdx
      /\ pc' = "done" => pc = "done"
  BY DEF Going, Polling, Current, SentIdx, LastIdx
<1>3. /\ Long(Stream')
      /\ \A o \in H4Ops : /\ Contains(Stream', o) => Contains(Stream, o)
                          /\ Once(Stream, o) => Once(Stream', o)
  BY DEF Less, SInv
<1>4. Answered'
  BY <1>1, <1>2, <1>3 DEF SInv, Answered
<1>5. Asked'
  BY <1>1, <1>2, <1>3 DEF SInv, Asked
<1>6. Accepted'
  BY <1>1, <1>2, <1>3 DEF SInv, Accepted
<1>7. QED
  BY <1>3, <1>4, <1>5, <1>6 DEF SInv


(* What the caller does with a result: it stops, begins the next command   *)
(* or sends the next packet.                                               *)
Stops == /\ pc' \in {"done", "failed", "exit"}
         /\ op' = "OP_HCI_RESET" => op = "OP_HCI_RESET"
         /\ pc' = "done" => op' = "OP_HCI_RESET"

Advances == /\ pc' = "issue" /\ op' \in H4Ops /\ Rank(op') > Rank(op)
            /\ op' = "OP_PATCH" => i' = 0
            /\ op' = "OP_HCI_RESET" => op = "OP_PATCH" /\ i = LastIdx

NextPacket == pc' = "issue" /\ op = "OP_PATCH" /\ op' = op /\ i' = i + 1

LEMMA FailedMoves ==
  ASSUME IInv, Going, UNCHANGED chip, Failed PROVE Stops \/ Advances
<1> USE DEF IInv, Types, H4Ops
<1>1. CASE VersionDone
  <2>1. CASE pc' = "failed"
    BY <1>1, <2>1 DEF VersionDone, NextOp, Stops
  <2>2. CASE pc' = "issue"
    <3>1. op' \in H4Ops /\ op' # "OP_HCI_RESET" /\ Rank(op') > Rank(op)
      BY <1>1 DEF VersionDone, NextOp, Rank
    <3>2. i' = 0
      BY <1>1 DEF VersionDone, Within
    <3>3. QED
      BY <2>2, <3>1, <3>2 DEF Advances
  <2>3. QED
    BY <1>1, <2>1, <2>2 DEF VersionDone
<1>2. CASE SpeedDone
  BY <1>2 DEF SpeedDone, Within, Rank, Advances
<1>3. CASE PatchDone(255)
  <2>1. PICK l \in Nat : l = LastIdx /\ i <= l /\ l <= MaxEndIdx
    <3>1. chip.endIdx \in 0..MaxEndIdx
      BY ChipsAssumption DEF ChipType
    <3>2. MaxEndIdx \in Nat
      BY SMT DEF MaxEndIdx
    <3>3. QED
      BY <3>1, <3>2 DEF LastIdx, Within
  <2>2. CASE i = l
    BY <1>3, <2>1, <2>2 DEF PatchDone, Mismatch, Rank, Advances, Stops
  <2>3. CASE i # l
    <3>1. RollOver(i) # 255
      <4>1. RollOver(i) <= 128
        BY SMT DEF RollOver
      <4>2. RollOver(i) \in Nat
        BY SMT DEF RollOver
      <4>3. QED
        BY <4>1, <4>2, SMT
    <3>2. Mismatch(255)
      BY <2>1, <2>3, <3>1 DEF Mismatch
    <3>3. QED
      BY <1>3, <3>2 DEF PatchDone, Stops
  <2>4. QED
    BY <2>2, <2>3
<1>4. CASE op = "OP_HCI_RESET" /\ pc' = "failed" /\ UNCHANGED <<op, i, stepvars>>
  BY <1>4 DEF Stops
<1>5. QED
  BY <1>1, <1>2, <1>3, <1>4 DEF Failed

LEMMA SucceededMoves ==
  ASSUME IInv, Going, UNCHANGED chip, Succeeded PROVE Stops \/ Advances \/ NextPacket
<1>1. CASE VersionDone \/ SpeedDone
  <2>1. CASE VersionDone
    <3>1. CASE pc' = "failed"
      BY <2>1, <3>1 DEF VersionDone, NextOp, Stops
    <3>2. CASE pc' = "issue"
      <4>1. op' \in H4Ops /\ op' # "OP_HCI_RESET" /\ Rank(op') > Rank(op)
        BY <2>1 DEF VersionDone, NextOp, Rank, H4Ops
      <4>2. i' = 0
        BY <2>1 DEF VersionDone, IInv, Within
      <4>3. QED
        BY <3>2, <4>1, <4>2 DEF Advances
    <3>3. QED
      BY <2>1, <3>1, <3>2 DEF VersionDone
  <2>2. CASE SpeedDone
    BY <2>2 DEF SpeedDone, IInv, Within, Rank, Advances, H4Ops
  <2>3. QED
    BY <1>1, <2>1, <2>2
<1>2. ASSUME NEW c, PatchDone(c) PROVE Stops \/ Advances \/ NextPacket
  <2>1. op = "OP_PATCH" /\ i \in Nat /\ LastIdx \in Nat /\ i <= LastIdx
    BY <1>2, ChipLength DEF PatchDone, IInv, Types, Within
  <2>2. CASE Mismatch(c)
    BY <1>2, <2>1, <2>2 DEF PatchDone, Stops
  <2>3. CASE ~Mismatch(c) /\ i < LastIdx
    BY <1>2, <2>1, <2>3 DEF PatchDone, NextPacket
  <2>4. CASE ~Mismatch(c) /\ ~(i < LastIdx)
    <3>1. op' = "OP_HCI_RESET" /\ pc' = "issue" /\ i = LastIdx
      BY <1>2, <2>1, <2>4 DEF PatchDone
    <3>2. QED
      BY <2>1, <3>1 DEF Advances, Rank, H4Ops
  <2>5. QED
    BY <2>2, <2>3, <2>4
<1>3. CASE op = "OP_HCI_RESET" /\ pc' = "done" /\ UNCHANGED <<op, i, stepvars>>
  BY <1>3 DEF Stops
<1>4. QED
  BY <1>1, <1>2, <1>3 DEF Succeeded

(* The result of the current command is taken.                             *)
LEMMA MoveSInv ==
  ASSUME SInv, IInv', TypeBytes', Going, UNCHANGED <<chip, pending, executed, accepted>>,
         Less(Stream', Stream),
         Stops \/ Advances \/ (NextPacket /\ Contains(Stream, op) /\ ~Contains(Stream', op))
  PROVE  SInv'
<1>0. op \in H4Ops /\ op' \in H4Ops /\ i \in Nat /\ LastIdx' = LastIdx /\ LastIdx \in Nat
  BY ChipLength DEF SInv, IInv, Types, LastIdx
<1>1. /\ Long(Stream')
      /\ \A o \in H4Ops : /\ Contains(Stream', o) => Contains(Stream, o)
                          /\ Once(Stream, o) => Once(Stream', o)
  BY DEF Less, SInv
<1>2. \A o \in H4Ops : Rank(o) \in 1..5
  BY Codes
<1>3. Reading'
  BY DEF Stops, Advances, NextPacket, Reading
<1>4. CASE Stops
  <2>1. Answered' /\ Asked'
    BY <1>4 DEF Stops, Going, Answered, Asked
  <2>2. Accepted'
    BY <1>0, <1>4 DEF Stops, SInv, Accepted, Going
  <2>3. QED
    BY <1>1, <1>3, <2>1, <2>2 DEF SInv
<1>5. CASE Advances
  <2>1. \A o \in H4Ops : Contains(Stream', o) => Rank(o) <= Rank(op)
    BY <1>0, <1>1, <1>2 DEF SInv, Answered
  <2>2. \A o \in H4Ops : Contains(Stream', o) => Rank(o) < Rank(op')
    BY <1>0, <1>2, <1>5, <2>1 DEF Advances
  <2>3. ~Contains(Stream', op')
    BY <1>0, <1>2, <2>2
  <2>4. Answered'
    <3>1. Once(Stream', op')
      BY <2>3 DEF Once, Contains
    <3>2. QED
      BY <2>2, <3>1 DEF Answered
  <2>5. Asked'
    <3>1. SUFFICES ASSUME pending # << >> PROVE Rank(pending[1]) < Rank(op')
      BY <2>3 DEF Asked
    <3>2. pending[1] \in H4Ops
      BY <3>1 DEF SInv, TypeBytes
    <3>3. Rank(pending[1]) <= Rank(op)
      BY <1>0, <1>2, <3>1, <3>2 DEF SInv, Asked, Current
    <3>4. QED
      BY <1>0, <1>2, <1>5, <3>2, <3>3 DEF Advances
  <2>6. Accepted'
    <3>1. op' = "OP_PATCH" => 0..(i' - 1) \subseteq accepted
      BY <1>5 DEF Advances
    <3>2. op' = "OP_HCI_RESET" => 0..(LastIdx - 1) \subseteq accepted
      BY <1>5 DEF Advances, SInv, Accepted
    <3>3. QED
      BY <1>0, <1>5, <2>3, <3>1, <3>2 DEF Advances, Accepted
  <2>7. QED
    BY <1>1, <1>3, <2>4, <2>5, <2>6 DEF SInv
<1>6. CASE NextPacket /\ Contains(Stream, op) /\ ~Contains(Stream', op)
  <2>1. op = "OP_PATCH" /\ op' = op /\ i' = i + 1 /\ pc' = "issue" /\ op # "OP_HCI_RESET"
    BY <1>6 DEF NextPacket
  <2>2. i \in accepted /\ 0..(i - 1) \subseteq accepted
    BY <1>6, <2>1 DEF SInv, Accepted
  <2>3. pending = << >>
    BY <1>6 DEF SInv, Asked
  <2>4. Answered'
    <3>1. Once(Stream', op)
      BY <1>0, <1>1 DEF SInv, Answered
    <3>2. \A o \in H4Ops : Contains(Stream', o) => Rank(o) < Rank(op)
      BY <1>1, <1>6 DEF SInv, Answered
    <3>3. QED
      BY <2>1, <3>1, <3>2 DEF Answered
  <2>5. Asked'
    BY <2>3 DEF Asked
  <2>6. Accepted'
    <3>1. 0..(i' - 1) \subseteq accepted
      <4>1. \A k \in 0..(i' - 1) : k = i \/ k \in 0..(i - 1)
        BY <1>0, <2>1, SMT
      <4>2. QED
        BY <2>2, <4>1
    <3>2. QED
      BY <1>6, <2>1, <3>1 DEF Accepted
  <2>7. QED
    BY <1>1, <1>3, <2>4, <2>5, <2>6 DEF SInv
<1>7. QED
  BY <1>4, <1>5, <1>6


-----------------------------------------------------------------------------
(* A command is written, carried out or refused; an event is sent.         *)
LEMMA CurrentTyped == ASSUME IInv PROVE Current \in H4Ops \X Byte
<1>1. LastIdx \in Nat /\ i \in Nat /\ op \in H4Ops
  BY ChipLength DEF IInv, Types
<1>2. \A k \in 0..128 : k \in Byte /\ OrBit7(k) \in Byte
  BY SMT DEF OrBit7, Byte
<1>3. RollOver(i) \in 0..128
  BY <1>1, SMT DEF RollOver
<1>4. SentIdx \in Byte
  <2>1. RollOver(i) \in Byte /\ OrBit7(RollOver(i)) \in Byte
    BY <1>2, <1>3
  <2>2. SentIdx = OrBit7(RollOver(i)) \/ SentIdx = RollOver(i)
    BY DEF SentIdx, CurrIdx
  <2>3. QED
    BY <2>1, <2>2
<1>5. 0 \in Byte
  BY DEF Byte
<1>6. QED
  BY <1>1, <1>4, <1>5 DEF Current

LEMMA WriteSInv == ASSUME SInv, IInv', WriteCmd PROVE SInv'
<1>1. /\ pc = "issue" /\ pc' = "type" /\ buf' = << >> /\ left' = 0
      /\ UNCHANGED <<chip, op, i, line, executed, accepted>>
      /\ pending' \in {Current, pending}
  BY DEF WriteCmd
<1>2. /\ op \in H4Ops /\ Stream = line /\ Stream' = line /\ Going /\ Going' /\ ~Polling /\ Polling'
      /\ Current' = Current /\ LastIdx' = LastIdx
  BY <1>1 DEF SInv, IInv, Types, Stream, Inside, Going, Polling, Current, SentIdx, LastIdx
<1>3. TypeBytes'
  BY <1>1, CurrentTyped DEF SInv, TypeBytes
<1>4. \A o \in H4Ops : Contains(line, o) => Rank(o) < Rank(op)
  BY <1>2 DEF SInv, Answered
<1>5. Rank(op) \in 1..5
  BY <1>2, Codes
<1>6. ~Contains(line, op)
  BY <1>2, <1>4, <1>5
<1>7. Reading' /\ Long(Stream')
  BY <1>1, <1>2 DEF SInv, Reading
<1>8. Answered'
  BY <1>1, <1>2, <1>4 DEF SInv, Answered
<1>9. Asked'
  BY <1>1, <1>2, <1>6 DEF SInv, Asked
<1>10. Accepted'
  BY <1>1, <1>2 DEF SInv, Accepted
<1>11. QED
  BY <1>3, <1>7, <1>8, <1>9, <1>10 DEF SInv

(* What is sent arrives behind what is on the line, or not at all.         *)
LEMMA SendsEvent ==
  ASSUME TypeBytes, NEW e \in Seq(Byte), Send(e), UNCHANGED <<pc, buf>>
  PROVE  line' \in Seq(Byte) /\ (Stream' = Stream \/ Stream' = Stream \o e)
<1>1. line' = line \/ line' = line \o e
  BY DEF Send
<1>2. line \in Seq(Byte) /\ buf \in Seq(Byte) /\ line \o e \in Seq(Byte)
  BY ConcatProperties DEF TypeBytes
<1>3. (buf \o line) \o e = buf \o (line \o e)
  BY <1>2, ConcatAssociative
<1>4. CASE line' = line
  BY <1>2, <1>4 DEF Stream, Inside
<1>5. CASE line' = line \o e
  <2>1. CASE Inside
    <3>1. Stream = buf \o line /\ Stream' = buf \o (line \o e)
      BY <1>5, <2>1 DEF Stream, Inside
    <3>2. QED
      BY <1>2, <1>3, <1>5, <3>1
  <2>2. CASE ~Inside
    <3>1. Stream = line /\ Stream' = line \o e
      BY <1>5, <2>2 DEF Stream, Inside
    <3>2. QED
      BY <1>2, <1>5, <3>1
  <2>3. QED
    BY <2>1, <2>2
<1>6. QED
  BY <1>1, <1>4, <1>5

(* An event that completes nothing.                                        *)
LEMMA IdleEvent ==
  ASSUME NEW s \in Seq(Byte), NEW e, IsEvent(e),
         \A o \in H4Ops, k \in 1..Len(e) - 2 : ~Completes(e, k, o)
  PROVE  Less(s \o e, s)
<1> DEFINE t == s \o e
<1>1. /\ \A o \in H4Ops, k \in 1..Len(t) - 2 : Completes(t, k, o) =>
           k \in 1..Len(s) - 2 /\ Completes(s, k, o)
      /\ Long(s) => Long(t)
  BY Across
<1> HIDE DEF t
<1>2. \A o \in H4Ops : Contains(t, o) => Contains(s, o)
  BY <1>1 DEF Contains
<1>3. \A o \in H4Ops : Once(s, o) => Once(t, o)
  BY <1>1 DEF Once
<1>4. Less(t, s)
  BY <1>1, <1>2, <1>3 DEF Less
<1>5. QED
  BY <1>4 DEF t

LEMMA SameLess == \A s : Less(s, s)
  BY DEF Less

LEMMA SameReading == ASSUME Reading, UNCHANGED <<pc, buf, left>> PROVE Reading'
  BY DEF Reading

LEMMA RefuseSInv == ASSUME SInv, IInv', Refuse PROVE SInv'
<1>1. /\ pending # << >> /\ pending' = << >>
      /\ Send(Completion(pending[1], 1, Params(pending[1], pending[2])))
      /\ UNCHANGED <<chip, op, pc, i, buf, left, executed, accepted>>
  BY DEF Refuse, xfervars, progvars
<1>2. pending[1] \in H4Ops /\ pending[2] \in Byte
  BY <1>1 DEF SInv, TypeBytes
<1> DEFINE e == Completion(pending[1], 1, Params(pending[1], pending[2]))
<1>3. IsEvent(e) /\ \A o \in H4Ops, k \in 1..Len(e) - 2 : ~Completes(e, k, o)
  BY <1>2, CompletionIs
<1>4. Send(e)
  BY <1>1
<1> HIDE DEF e
<1>5. line' \in Seq(Byte) /\ (Stream' = Stream \/ Stream' = Stream \o e)
  BY <1>1, <1>3, <1>4, SendsEvent DEF SInv, IsEvent
<1>6. Less(Stream', Stream)
  BY <1>3, <1>5, IdleEvent, SameLess, StreamTyped DEF SInv
<1>7. TypeBytes' /\ Reading'
  BY <1>1, <1>5, SameReading DEF SInv, TypeBytes
<1>8. QED
  BY <1>1, <1>6, <1>7, ProgressSInv

LEMMA EventSInv == ASSUME Unlike, SInv, IInv', ChipEvent PROVE SInv'
<1>1. PICK e \in chip.unasked : Send(e)
  BY DEF ChipEvent
<1>2. UNCHANGED <<chip, op, pc, i, buf, left, pending, executed, accepted>>
  BY DEF ChipEvent, xfervars, progvars
<1>3. IsBare(e)
  BY <1>1 DEF Unlike, SInv, IInv, Types
<1>4. \A o \in H4Ops, k \in 1..Len(e) - 2 : ~Completes(e, k, o)
  <2> SUFFICES ASSUME NEW o \in H4Ops, NEW k \in 1..Len(e) - 2, Completes(e, k, o) PROVE FALSE
    OBVIOUS
  <2>1. Len(e) \in Nat
    BY <1>3, LenProperties DEF IsBare, IsEvent
  <2>2. k \in 1..Len(e) - 1
    BY <2>1, SMT
  <2>3. QED
    BY <1>3, <2>2 DEF IsBare, Names, Completes
<1>5. line' \in Seq(Byte) /\ (Stream' = Stream \/ Stream' = Stream \o e)
  BY <1>1, <1>2, <1>3, SendsEvent DEF SInv, IsBare, IsEvent
<1>6. Less(Stream', Stream)
  BY <1>3, <1>4, <1>5, IdleEvent, SameLess, StreamTyped DEF SInv, IsBare
<1>7. TypeBytes' /\ Reading'
  BY <1>2, <1>5, SameReading DEF SInv, TypeBytes
<1>8. QED
  BY <1>2, <1>6, <1>7, ProgressSInv


(* A stream behind which the completion of o arrives.                      *)
LEMMA AnswerSent ==
  ASSUME NEW s \in Seq(Byte), NEW o \in H4Ops, NEW idx \in Byte
  PROVE  LET t == s \o Completion(o, 0, Params(o, idx)) IN
         /\ Long(s) => Long(t)
         /\ \A q \in H4Ops : Contains(t, q) => Contains(s, q) \/ q = o
         /\ \A q \in H4Ops : ~Contains(s, q) => Once(t, q)
<1> DEFINE e == Completion(o, 0, Params(o, idx))
<1>1. IsEvent(e) /\ \A q \in H4Ops, k \in 1..Len(e) - 2 : Completes(e, k, q) => k = 5 /\ q = o
  BY CompletionIs
<1> HIDE DEF e
<1> DEFINE t == s \o e
<1>2. /\ Len(t) = Len(s) + Len(e)
      /\ \A q \in H4Ops, k \in 1..Len(t) - 2 : Completes(t, k, q) =>
           \/ k \in 1..Len(s) - 2 /\ Completes(s, k, q)
           \/ k - Len(s) \in 1..Len(e) - 2 /\ Completes(e, k - Len(s), q)
      /\ Long(s) => Long(t)
  BY <1>1, Across
<1> HIDE DEF t
<1>3. ASSUME NEW q \in H4Ops, NEW k \in 1..Len(t) - 2, Completes(t, k, q)
      PROVE  Contains(s, q) \/ (q = o /\ k - Len(s) = 5)
  BY <1>1, <1>2, <1>3 DEF Contains
<1>4. ASSUME NEW q \in H4Ops, Contains(t, q) PROVE Contains(s, q) \/ q = o
  BY <1>3, <1>4 DEF Contains
<1>5. ASSUME NEW q \in H4Ops, ~Contains(s, q) PROVE Once(t, q)
  <2> SUFFICES ASSUME NEW k \in 1..Len(t) - 2, NEW m \in 1..Len(t) - 2,
                      Completes(t, k, q), Completes(t, m, q)
               PROVE  k = m
    BY DEF Once
  <2>1. k - Len(s) = 5 /\ m - Len(s) = 5
    BY <1>3, <1>5
  <2>2. Len(s) \in Nat
    BY LenProperties
  <2>3. QED
    BY <2>1, <2>2, SMT
<1>6. QED
  BY <1>2, <1>4, <1>5 DEF t, e

LEMMA ExecuteSInv == ASSUME SInv, IInv', Execute PROVE SInv'
<1> DEFINE o == pending[1]
           e == Completion(o, 0, Params(o, pending[2]))
<1>1. /\ pending # << >> /\ pending' = << >> /\ Send(e) /\ executed' = pending
      /\ accepted \subseteq accepted'
      /\ o = "OP_PATCH" => i \in accepted'
      /\ UNCHANGED <<chip, op, pc, i, buf, left>>
  <2>1. accepted' = IF o = "OP_PATCH" THEN accepted \cup {i} ELSE accepted
    BY DEF Execute
  <2>2. accepted \subseteq accepted' /\ (o = "OP_PATCH" => i \in accepted')
    BY <2>1
  <2>3. Send(e) /\ pending # << >> /\ pending' = << >> /\ executed' = pending
    BY DEF Execute
  <2>4. QED
    BY <2>2, <2>3 DEF Execute, xfervars, progvars
<1>2. o \in H4Ops /\ pending[2] \in Byte /\ op \in H4Ops
  BY <1>1 DEF SInv, TypeBytes, IInv, Types
<1>3. e \in Seq(Byte)
  BY <1>2, CompletionIs DEF IsEvent
<1> HIDE DEF e
<1>4. line' \in Seq(Byte) /\ (Stream' = Stream \/ Stream' = Stream \o e)
  BY <1>1, <1>3, SendsEvent DEF SInv
<1>5. /\ Long(Stream')
      /\ \A q \in H4Ops : Contains(Stream', q) => Contains(Stream, q) \/ q = o
      /\ \A q \in H4Ops : ~Contains(Stream, q) => Once(Stream', q)
  <2>1. CASE Stream' = Stream
    <3>1. \A q \in H4Ops : ~Contains(Stream, q) => Once(Stream, q)
      BY DEF Contains, Once
    <3>2. QED
      BY <2>1, <3>1 DEF SInv
  <2>2. CASE Stream' = Stream \o e
    BY <1>2, <2>2, AnswerSent, StreamTyped DEF SInv, e
  <2>3. QED
    BY <1>4, <2>1, <2>2
<1> HIDE DEF o
<1>6. /\ Going' = Going /\ Polling' = Polling /\ Current' = Current /\ LastIdx' = LastIdx
  BY <1>1 DEF Going, Polling, Current, SentIdx, LastIdx
<1>7. Going => ~Contains(Stream, op) /\ (Rank(o) < Rank(op) \/ (Polling /\ pending = Current))
  BY <1>1 DEF SInv, Asked, o
<1>8. TypeBytes' /\ Reading'
  BY <1>1, <1>4, SameReading DEF SInv, TypeBytes
<1>9. Answered'
  <2>1. SUFFICES ASSUME Going
                 PROVE  /\ Once(Stream', op)
                        /\ \A q \in H4Ops : Contains(Stream', q) =>
                             \/ Rank(q) < Rank(op)
                             \/ q = op /\ Polling /\ pending = Current
    BY <1>1, <1>6 DEF Answered
  <2>2. Once(Stream', op)
    BY <1>2, <1>5, <1>7, <2>1
  <2>3. ASSUME NEW q \in H4Ops, Contains(Stream', q)
        PROVE  Rank(q) < Rank(op) \/ (q = op /\ Polling /\ pending = Current)
    <3>1. CASE Contains(Stream, q)
      BY <1>7, <2>1, <3>1 DEF SInv, Answered
    <3>2. CASE q = o
      <4>1. pending = Current => q = op
        BY <3>2 DEF Current, o
      <4>2. QED
        BY <1>7, <2>1, <3>2, <4>1
    <3>3. QED
      BY <1>5, <2>3, <3>1, <3>2
  <2>4. QED
    BY <2>2, <2>3
<1>10. Asked'
  BY <1>1 DEF Asked
<1>11. Accepted'
  <2>1. Going /\ op = "OP_PATCH" /\ Contains(Stream', op) => i \in accepted'
    BY <1>1, <1>2, <1>5, <1>7
  <2>2. /\ Going /\ op = "OP_PATCH" => 0..(i - 1) \subseteq accepted'
        /\ op = "OP_HCI_RESET" => 0..(LastIdx - 1) \subseteq accepted'
        /\ pc = "done" => op = "OP_HCI_RESET"
    BY <1>1 DEF SInv, Accepted
  <2>3. QED
    BY <1>1, <1>6, <2>1, <2>2 DEF Accepted
<1>12. QED
  BY <1>5, <1>8, <1>9, <1>10, <1>11 DEF SInv


-----------------------------------------------------------------------------
(* The host reads.                                                         *)
LEMMA LessTrans == \A r, s, t : Less(r, s) /\ Less(s, t) => Less(r, t)
  BY DEF Less

LEMMA TakeOut ==
  ASSUME TypeBytes, NEW n \in 0..Len(line), Take(n), Inside
  PROVE  /\ line' \in Seq(Byte) /\ Len(line') = Len(line) - n
         /\ Drops(line', Stream, Len(buf) + n) /\ Less(line', Stream)
<1>1. line \in Seq(Byte) /\ buf \in Seq(Byte) /\ Stream = buf \o line
      /\ line' = SubSeq(line, n + 1, Len(line))
  BY DEF TypeBytes, Stream, Take
<1>2. line' \in Seq(Byte) /\ Len(line') = Len(line) - n /\ Drops(line', buf \o line, Len(buf) + n)
  BY <1>1, Taking
<1>3. Len(buf) + n \in Nat
  BY <1>1, LenProperties
<1>4. Drops(line', Stream, Len(buf) + n)
  BY <1>1, <1>2
<1>5. Less(line', Stream)
  BY <1>2, <1>3, <1>4, DropKeeps, StreamTyped
<1>6. QED
  BY <1>2, <1>4, <1>5

(* What was read of an event is given up.                                  *)
LEMMA GivenUp == ASSUME TypeBytes, UNCHANGED line, ~Inside' PROVE Less(Stream', Stream)
<1>1. Stream' = line
  BY DEF Stream
<1>2. CASE Inside
  <2>1. PICK l, m \in Nat : l = Len(line) /\ m = Len(buf)
    BY LenProperties DEF TypeBytes
  <2>2. /\ Stream = buf \o line /\ line \in Seq(Byte) /\ buf \in Seq(Byte)
    BY <1>2 DEF TypeBytes, Stream
  <2>3. Len(Stream) = Len(buf) + Len(line) /\ \A k \in 1..Len(line) : Stream[Len(buf) + k] = line[k]
    BY <2>2, Joined
  <2>4. Len(Stream) = l + m /\ \A k \in 1..l : line[k] = Stream[k + m]
    BY <2>1, <2>3
  <2>5. Drops(line, Stream, m)
    BY <2>1, <2>4 DEF Drops
  <2>6. QED
    BY <1>1, <2>1, <2>2, <2>5, DropKeeps, StreamTyped
<1>3. CASE ~Inside
  BY <1>1, <1>3, SameLess DEF Stream
<1>4. QED
  BY <1>2, <1>3

LEMMA AbandonSInv ==
  ASSUME SInv, IInv', Going, UNCHANGED <<chip, buf, left, line, pending, executed, accepted>>,
         Stops \/ Advances
  PROVE  SInv'
<1>1. ~Inside'
  BY DEF Stops, Advances, Inside
<1>2. TypeBytes'
  BY DEF SInv, TypeBytes
<1>3. QED
  BY <1>1, <1>2, GivenUp, MoveSInv DEF SInv

(* A byte of a sequence is a byte; the first is its head.                  *)
LEMMA Bytes ==
  ASSUME NEW s \in Seq(Byte), Len(s) >= 1
  PROVE  Head(s) = s[1] /\ \A k \in 1..Len(s) : s[k] \in 0..255
<1>1. Head(s) = s[1]
  OBVIOUS
<1>2. \A k \in 1..Len(s) : s[k] \in Byte
  BY ElementOfSeq
<1>3. QED
  BY <1>1, <1>2 DEF Byte

LEMMA TypeSInv == ASSUME SInv, IInv', ReadType PROVE SInv'
<1>1. /\ pc = "type" /\ Take(1) /\ UNCHANGED <<chip, op, i, left, pending, executed, accepted>>
      /\ line \in Seq(Byte) /\ buf \in Seq(Byte) /\ Stream = line /\ line # << >>
  BY DEF ReadType, SInv, TypeBytes, Stream, Inside
<1>2. 1 \in 0..Len(line) /\ Len(line) >= 1 /\ 1 \in Nat
  BY <1>1, EmptySeq, LenProperties, SMT
<1>3. PICK none \in Seq(Byte) : none = << >> /\ Len(none) = 0
  <2>1. << >> \in Seq(Byte) /\ Len(<< >>) = 0
    OBVIOUS
  <2>2. QED
    BY <2>1, Zenon
<1> DEFINE h == SubSeq(line, 1, 1)
<1>4. /\ line' \in Seq(Byte)
      /\ (none \o h) \o line' = none \o line /\ Drops(line', none \o line, Len(none) + 1)
  <2>1. line' = SubSeq(line, 1 + 1, Len(line))
    BY <1>1 DEF Take
  <2>2. QED
    BY <1>1, <1>2, <2>1, Taking
<1>5. h \in Seq(Byte) /\ Len(h) = 1 /\ h[1] = line[1]
  <2>1. \A k \in 1..1 : line[k] \in Byte
    BY <1>1, <1>2, ElementOfSeq
  <2>2. h \in Seq(Byte) /\ Len(h) = (IF 1 <= 1 THEN 1 - 1 + 1 ELSE 0)
        /\ \A k \in 1..1 - 1 + 1 : h[k] = line[1 + k - 1]
    BY <2>1, SubSeqProperties
  <2>3. QED
    BY <2>2, SMT
<1> HIDE DEF h
<1>6. none \o h = h /\ none \o line = line
  BY <1>1, <1>3, <1>5, ConcatEmptySeq
<1>7. h \o line' = line /\ Drops(line', line, 1)
  <2>1. Len(none) + 1 = 1
    BY <1>3
  <2>2. QED
    BY <1>4, <1>6, <2>1
<1>8. CASE Head(line) = 4
  <2>1. buf' = <<4>> /\ pc' = "header"
    BY <1>8 DEF ReadType
  <2>2. h = <<4>>
    BY <1>1, <1>2, <1>5, <1>8, Bytes
  <2>3. Stream' = Stream
    BY <1>1, <1>7, <2>1, <2>2 DEF Stream, Inside
  <2>4. TypeBytes' /\ Reading'
    <3>1. <<4>> \in Seq(Byte)
      BY <1>5, <2>2
    <3>2. QED
      BY <1>1, <1>4, <2>1, <3>1 DEF SInv, TypeBytes, Reading
  <2>5. Polling /\ Polling'
    BY <1>1, <2>1 DEF Polling
  <2>6. QED
    BY <1>1, <2>3, <2>4, <2>5, SameLess, ProgressSInv
<1>9. CASE Head(line) # 4
  <2>1. buf' = buf /\ pc' = pc
    BY <1>9 DEF ReadType
  <2>2. Stream' = line'
    BY <1>1, <2>1 DEF Stream, Inside
  <2>3. Less(Stream', Stream)
    BY <1>1, <1>2, <1>4, <1>7, <2>2, DropKeeps
  <2>4. TypeBytes' /\ Reading'
    BY <1>1, <1>4, <2>1 DEF SInv, TypeBytes, Reading
  <2>5. QED
    BY <1>1, <2>1, <2>3, <2>4, ProgressSInv
<1>10. QED
  BY <1>8, <1>9


(* The next n bytes of the event are read.                                 *)
LEMMA ReadMore ==
  ASSUME TypeBytes, Inside, NEW n \in 0..Len(line), Take(n),
         buf' = buf \o SubSeq(line, 1, n)
  PROVE  /\ TypeBytes /\ line' \in Seq(Byte) /\ buf' \in Seq(Byte)
         /\ Len(buf') = Len(buf) + n
         /\ \A k \in 1..Len(buf) : buf'[k] = buf[k]
         /\ buf' \o line' = Stream
<1>1. line \in Seq(Byte) /\ buf \in Seq(Byte) /\ Stream = buf \o line
      /\ line' = SubSeq(line, n + 1, Len(line))
  BY DEF TypeBytes, Stream, Take
<1>2. QED
  BY <1>1, Taking

(* Without the code of the command, that is, with fewer than six bytes, an *)
(* event completes nothing.                                                *)
LEMMA OkIsLong ==
  ASSUME op \in H4Ops, buf' \in Seq(Byte), Outcome = "ok"
  PROVE  /\ Len(buf') >= 6 /\ buf'[5] = Low(op) /\ buf'[6] = High(op)
         /\ Len(buf') >= 7 => buf'[7] = 0
<1>1. <<At(4), At(5)>> = Opcode(op) /\ At(6) = 0
  BY DEF Outcome
<1>2. At(4) = Low(op) /\ At(5) = High(op) /\ Low(op) # 0 /\ High(op) # 0
  <2>1. Opcode(op) = <<Low(op), High(op)>> /\ Low(op) \in 1..255 /\ High(op) \in {12, 16, 252}
    BY Codes
  <2>2. <<At(4), At(5)>> = <<Low(op), High(op)>>
    BY <1>1, <2>1
  <2>3. At(4) = Low(op) /\ At(5) = High(op)
    BY ONLY <2>2
  <2>4. Low(op) # 0 /\ High(op) # 0
    BY ONLY <2>1
  <2>5. QED
    BY <2>3, <2>4, Zenon
<1>3. PICK l \in Nat : l = Len(buf')
  BY LenProperties
<1>4. 4 < l
  BY <1>2, <1>3 DEF At
<1>5. 5 < l
  BY <1>2, <1>3 DEF At
<1>6. buf'[5] = At(4) /\ buf'[6] = At(5)
  <2>1. At(4) = buf'[4 + 1]
    BY <1>3, <1>4 DEF At
  <2>2. At(5) = buf'[5 + 1]
    BY <1>3, <1>5 DEF At
  <2>3. QED
    BY <2>1, <2>2
<1>7. l >= 7 => buf'[7] = 0
  <2>1. SUFFICES ASSUME l >= 7 PROVE buf'[7] = 0
    OBVIOUS
  <2>2. At(6) = buf'[6 + 1]
    BY <1>3, <2>1 DEF At
  <2>3. QED
    BY <1>1, <2>2
<1>8. QED
  BY <1>2, <1>3, <1>5, <1>6, <1>7

(* An event that is not taken for a completion.                            *)
LEMMA JudgedSInv ==
  ASSUME SInv, IInv', Polling, UNCHANGED <<chip, pending, executed, accepted>>,
         TypeBytes', Less(line', Stream), Judge, Outcome # "ok"
  PROVE  SInv'
<1>1. CASE pc' = "type" /\ UNCHANGED <<op, i, stepvars>>
  <2>1. Polling' /\ Reading' /\ Stream' = line'
    BY <1>1 DEF Polling, Reading, Stream, Inside
  <2>2. QED
    BY <1>1, <2>1, ProgressSInv
<1>2. CASE Failed
  <2>1. Going /\ (Stops \/ Advances)
    BY <1>2, FailedMoves DEF Polling, Going, SInv
  <2>2. Stream' = line'
    BY <2>1 DEF Stops, Advances, Stream, Inside
  <2>3. QED
    BY <2>1, <2>2, MoveSInv
<1>3. QED
  BY <1>1, <1>2 DEF Judge

LEMMA ShortHeaderSInv == ASSUME SInv, IInv', ReadShortHeader PROVE SInv' /\ Outcome # "ok"
<1>1. /\ pc = "header" /\ Take(1) /\ line # << >> /\ Inside /\ Polling /\ Judge
      /\ buf' = <<4, Head(line)>> /\ op \in H4Ops /\ line \in Seq(Byte) /\ left' = left
      /\ UNCHANGED <<chip, pending, executed, accepted>>
  BY DEF ReadShortHeader, Inside, Polling, SInv, IInv, Types, TypeBytes
<1>2. 1 \in 0..Len(line) /\ Len(line) >= 1
  BY <1>1, EmptySeq, LenProperties, SMT
<1>3. buf' \in Seq(Byte) /\ Len(buf') = 2
  <2>1. Head(line) \in Byte /\ 4 \in Byte
    BY <1>1, <1>2, Bytes DEF Byte
  <2>2. QED
    BY <1>1, <2>1
<1>4. line' \in Seq(Byte) /\ Less(line', Stream)
  BY <1>1, <1>2, TakeOut DEF SInv
<1>5. TypeBytes'
  BY <1>1, <1>3, <1>4 DEF SInv, TypeBytes
<1>6. Outcome # "ok"
  BY <1>1, <1>3, OkIsLong
<1>7. QED
  BY <1>1, <1>4, <1>5, <1>6, JudgedSInv

LEMMA HeaderSInv == ASSUME SInv, IInv', ReadHeader PROVE SInv'
<1>1. /\ pc = "header" /\ Take(2) /\ Len(line) >= 2 /\ Inside /\ Polling /\ Going
      /\ buf' = <<4, line[1], line[2]>> /\ left' = line[2] /\ buf = <<4>>
      /\ line \in Seq(Byte) /\ buf \in Seq(Byte)
      /\ UNCHANGED <<chip, pending, executed, accepted>>
  BY DEF ReadHeader, Inside, Polling, Going, SInv, TypeBytes, Reading
<1>2. 2 \in 0..Len(line) /\ Len(line) >= 1
  BY <1>1, LenProperties, SMT
<1>3. line[1] \in 0..255 /\ line[2] \in 0..255
  BY <1>1, <1>2, Bytes
<1>4. buf' \in Seq(Byte) /\ Len(buf') = 3 /\ buf'[1] = 4 /\ buf'[2] = line[1] /\ buf'[3] = line[2]
  <2>1. line[1] \in Byte /\ line[2] \in Byte /\ 4 \in Byte
    BY <1>3 DEF Byte
  <2>2. QED
    BY <1>1, <2>1
<1>5. line' \in Seq(Byte) /\ Less(line', Stream)
  BY <1>1, <1>2, TakeOut DEF SInv
<1>6. TypeBytes'
  <2>1. \A k \in 0..255 : k \in Nat
    BY SMT
  <2>2. left' \in Nat /\ (pending' = << >> \/ pending' \in H4Ops \X Byte)
    BY <1>1, <1>3, <2>1, Zenon DEF SInv, TypeBytes
  <2>3. QED
    BY <1>4, <1>5, <2>2, Zenon DEF TypeBytes
<1>7. CASE Failed
  <2>1. Stops \/ Advances
    BY <1>1, <1>7, FailedMoves DEF SInv
  <2>2. Stream' = line'
    BY <2>1 DEF Stops, Advances, Stream, Inside
  <2>3. QED
    BY <1>1, <1>5, <1>6, <2>1, <2>2, MoveSInv
<1>8. CASE pc' = "payload" /\ UNCHANGED <<op, i, stepvars>>
  <2> DEFINE h == SubSeq(line, 1, 2)
  <2>1. h \in Seq(Byte) /\ Len(h) = 2 /\ h[1] = line[1] /\ h[2] = line[2]
    <3>1. \A k \in 1..2 : line[k] \in Byte
      BY <1>1, <1>2, ElementOfSeq
    <3>2. h \in Seq(Byte) /\ Len(h) = (IF 1 <= 2 THEN 2 - 1 + 1 ELSE 0)
          /\ \A k \in 1..2 - 1 + 1 : h[k] = line[1 + k - 1]
      BY <3>1, SubSeqProperties
    <3>3. QED
      BY <3>2, SMT
  <2> HIDE DEF h
  <2>2. PICK e : e = Cat(buf, h)
    OBVIOUS
  <2>3. e = <<4, line[1], line[2]>>
    <3>1. Len(buf) = 1 /\ buf[1] = 4 /\ 1 \in Nat /\ 2 \in Nat
      BY <1>1
    <3>2. Joins(e, buf, h, 1, 2)
      BY <1>1, <2>1, <2>2, <3>1, CatIs, Zenon
    <3>3. e \in Seq(Byte) /\ Len(e) = 1 + 2
      BY <3>2 DEF Joins
    <3>4. e[1] = buf[1] /\ \A k \in 1..2 : e[1 + k] = h[k]
      BY <3>2 DEF Joins
    <3>5. Len(e) = 3
      BY <3>3
    <3>6. e[2] = h[1] /\ e[3] = h[2]
      BY <3>4
    <3>7. e[1] = 4 /\ e[2] = line[1] /\ e[3] = line[2]
      BY <2>1, <3>1, <3>4, <3>6, Zenon
    <3>8. e = <<e[1], e[2], e[3]>>
      BY ONLY <3>3, <3>5
    <3>9. QED
      BY <3>7, <3>8, Zenon
  <2>4. buf' \o line' = Stream
    <3>1. buf' = buf \o SubSeq(line, 1, 2)
      BY <1>1, <2>2, <2>3, Zenon DEF h, Cat
    <3>2. QED
      BY <1>1, <1>2, <3>1, ReadMore DEF SInv
  <2>5. Stream' = Stream
    BY <1>8, <2>4 DEF Stream, Inside
  <2>6. Reading'
    BY <1>1, <1>3, <1>4, <1>8 DEF Reading
  <2>7. Polling'
    BY <1>8 DEF Polling
  <2>8. QED
    BY <1>1, <1>6, <1>8, <2>5, <2>6, <2>7, SameLess, ProgressSInv
<1>9. QED
  BY <1>7, <1>8 DEF ReadHeader


(* The parameters, up to the last: the event is judged.  One taken for the *)
(* completion of the current command is the first on the stream, and it    *)
(* has a byte behind the code, since none on the line ends with the code.  *)
LEMMA PayloadReads ==
  ASSUME SInv, ReadPayload
  PROVE  \E n \in 0..Len(line) :
           /\ n <= left /\ Take(n) /\ buf' = buf \o SubSeq(line, 1, n) /\ left' = left - n
           /\ IF n = left THEN Judge ELSE UNCHANGED <<pc, op, i, stepvars>>
           /\ TypeBytes' /\ Len(buf') = Len(buf) + n
           /\ \A k \in 1..Len(buf) : buf'[k] = buf[k]
           /\ buf' \o line' = Stream /\ Less(line', Stream)
           /\ Drops(line', Stream, Len(buf'))
<1>1. PICK n \in 0..left :
        /\ n <= Len(line) /\ Take(n) /\ buf' = buf \o SubSeq(line, 1, n) /\ left' = left - n
        /\ IF n = left THEN Judge ELSE UNCHANGED <<pc, op, i, stepvars>>
  BY DEF ReadPayload
<1>2. Inside /\ TypeBytes /\ UNCHANGED pending
  BY DEF ReadPayload, Inside, SInv
<1>3. n \in 0..Len(line) /\ n <= left /\ left - n \in Nat
  BY <1>1, <1>2, LenProperties DEF TypeBytes
<1>4. /\ line' \in Seq(Byte) /\ buf' \in Seq(Byte) /\ Len(buf') = Len(buf) + n
      /\ \A k \in 1..Len(buf) : buf'[k] = buf[k]
      /\ buf' \o line' = Stream
  BY <1>1, <1>2, <1>3, ReadMore
<1>5. Less(line', Stream) /\ Drops(line', Stream, Len(buf) + n)
  BY <1>1, <1>2, <1>3, TakeOut
<1>6. TypeBytes'
  BY <1>1, <1>2, <1>3, <1>4 DEF TypeBytes
<1>7. Drops(line', Stream, Len(buf'))
  BY <1>4, <1>5
<1>8. QED
  BY <1>1, <1>3, <1>4, <1>5, <1>6, <1>7, Zenon

LEMMA OkAnswers ==
  ASSUME SInv, ReadPayload, pc' # "payload", Outcome = "ok"
  PROVE  /\ Completes(Stream, 5, op) /\ Len(buf') >= 7 /\ Len(Stream) >= 7
         /\ Contains(Stream, op)
<1>1. PICK n \in 0..Len(line) :
        /\ n <= left /\ left' = left - n
        /\ IF n = left THEN Judge ELSE UNCHANGED <<pc, op, i, stepvars>>
        /\ TypeBytes' /\ Len(buf') = Len(buf) + n
        /\ \A k \in 1..Len(buf) : buf'[k] = buf[k]
        /\ buf' \o line' = Stream /\ Drops(line', Stream, Len(buf'))
  BY PayloadReads
<1>2. /\ pc = "payload" /\ op \in H4Ops /\ buf \in Seq(Byte) /\ buf' \in Seq(Byte)
      /\ line' \in Seq(Byte) /\ left \in Nat
      /\ Len(buf) >= 3 /\ Len(buf) + left = 3 + buf[3]
  BY <1>1 DEF ReadPayload, SInv, IInv, Types, TypeBytes, Reading
<1>3. n = left
  BY <1>1, <1>2
<1>4. /\ Len(buf') >= 6 /\ buf'[5] = Low(op) /\ buf'[6] = High(op)
      /\ Len(buf') >= 7 => buf'[7] = 0
  BY <1>2, OkIsLong
<1>5. PICK l, m \in Nat : l = Len(buf') /\ m = Len(line') /\ Len(Stream) = l + m
  BY <1>1, <1>2, LenProperties DEF Drops
<1>6. \A k \in 1..l : Stream[k] = buf'[k]
  BY <1>1, <1>2, <1>5, Joined
<1>7. Stream[5] = Low(op) /\ Stream[6] = High(op) /\ Stream[3] = buf'[3]
  <2>1. 5 \in 1..l /\ 6 \in 1..l /\ 3 \in 1..l
    BY <1>4, <1>5, SMT
  <2>2. QED
    BY <1>4, <1>6, <2>1
<1>8. Len(buf') = 3 + buf'[3]
  <2>1. 3 \in 1..Len(buf)
    BY <1>2, LenProperties, SMT
  <2>2. buf'[3] = buf[3]
    BY <1>1, <2>1
  <2>3. QED
    BY <1>1, <1>2, <1>3, <2>2
<1>9. Stream[3] # 3
  <2>1. 5 \in 1..Len(Stream) - 1
    BY <1>4, <1>5, SMT
  <2>2. Names(Stream, 5)
    BY <1>2, <1>7 DEF Names
  <2>3. ~(5 < 3) /\ 5 - 2 = 3
    BY SMT
  <2>4. QED
    BY <2>1, <2>2, <2>3 DEF SInv, Long
<1>10. Len(buf') >= 7
  <2>1. PICK x : x = buf'[3]
    OBVIOUS
  <2>2. x \in 0..255
    <3>1. 3 \in 1..Len(buf') /\ Len(buf') >= 1
      BY <1>4, <1>5, SMT
    <3>2. QED
      BY <1>2, <2>1, <3>1, Bytes
  <2>3. x # 3 /\ l = 3 + x /\ l >= 6
    BY <1>4, <1>5, <1>7, <1>8, <1>9, <2>1, Zenon
  <2>4. l >= 7
    BY <2>2, <2>3
  <2>5. QED
    BY <1>5, <2>4
<1>11. Stream[7] = 0
  <2>1. 7 \in 1..l
    BY <1>5, <1>10, SMT
  <2>2. QED
    BY <1>4, <1>6, <1>10, <2>1
<1>12. Completes(Stream, 5, op)
  BY <1>7, <1>11 DEF Completes
<1>13. 5 \in 1..Len(Stream) - 2 /\ Len(Stream) >= 7
  BY <1>5, <1>10, SMT
<1>14. QED
  BY <1>10, <1>12, <1>13 DEF Contains

LEMMA PayloadSInv == ASSUME SInv, IInv', ReadPayload PROVE SInv'
<1>1. PICK n \in 0..Len(line) :
        /\ n <= left /\ left' = left - n
        /\ IF n = left THEN Judge ELSE UNCHANGED <<pc, op, i, stepvars>>
        /\ TypeBytes' /\ Len(buf') = Len(buf) + n
        /\ \A k \in 1..Len(buf) : buf'[k] = buf[k]
        /\ buf' \o line' = Stream /\ Less(line', Stream)
        /\ Drops(line', Stream, Len(buf'))
  BY PayloadReads
<1>2. /\ pc = "payload" /\ Inside /\ Polling /\ Going /\ op \in H4Ops
      /\ UNCHANGED <<chip, pending, executed, accepted>>
  BY DEF ReadPayload, Inside, Polling, Going, SInv, IInv, Types
<1>3. CASE n # left
  <2>1. UNCHANGED <<pc, op, i, stepvars>>
    BY <1>1, <1>3
  <2>2. Stream' = Stream /\ Polling'
    BY <1>1, <1>2, <2>1 DEF Stream, Inside, Polling
  <2>3. Reading'
    <3>1. PICK b, c \in Nat : b = Len(buf) /\ c = n /\ left \in Nat
      BY <1>1, LenProperties DEF SInv, TypeBytes
    <3>2. b >= 3 /\ b + left = 3 + buf[3] /\ buf[1] = 4
      BY <1>2, <3>1 DEF SInv, Reading
    <3>3. buf'[1] = buf[1] /\ buf'[3] = buf[3]
      BY <1>1, <3>1, <3>2
    <3>4. Len(buf') = b + c /\ left' = left - c /\ c <= left
      BY <1>1, <3>1
    <3>5. Len(buf') >= 3 /\ Len(buf') + left' = 3 + buf'[3] /\ buf'[1] = 4
      BY <3>1, <3>2, <3>3, <3>4
    <3>6. QED
      BY <1>2, <2>1, <3>5 DEF Reading
  <2>4. QED
    BY <1>1, <1>2, <2>1, <2>2, <2>3, SameLess, ProgressSInv
<1>4. CASE n = left /\ Outcome # "ok"
  BY <1>1, <1>2, <1>4, JudgedSInv
<1>5. CASE n = left /\ Outcome = "ok"
  <2>1. Succeeded
    BY <1>1, <1>5 DEF Judge
  <2>2. Stops \/ Advances \/ NextPacket
    BY <1>2, <2>1, SucceededMoves DEF SInv
  <2>3. Stream' = line' /\ pc' # "payload"
    BY <2>2 DEF Stops, Advances, NextPacket, Stream, Inside
  <2>4. /\ Completes(Stream, 5, op) /\ Len(buf') >= 7 /\ Len(Stream) >= 7
        /\ Contains(Stream, op)
    BY <1>5, <2>3, OkAnswers
  <2>5. ~Contains(Stream', op)
    <3>1. line' \in Seq(Byte) /\ Len(buf') \in Nat /\ Len(buf') >= 5 /\ Once(Stream, op)
      BY <1>1, <1>2, <2>4, LenProperties DEF TypeBytes, SInv, Answered
    <3>2. Stream \in Seq(Byte)
      BY StreamTyped DEF SInv
    <3>3. ~Contains(line', op)
      BY <1>1, <1>2, <2>4, <3>1, <3>2, DropOnly
    <3>4. QED
      BY <2>3, <3>3
  <2>6. Less(Stream', Stream)
    BY <1>1, <2>3
  <2>7. QED
    BY <1>1, <1>2, <2>2, <2>4, <2>5, <2>6, MoveSInv
<1>6. QED
  BY <1>3, <1>4, <1>5


-----------------------------------------------------------------------------
LEMMA SInvStep == ASSUME Unlike PROVE SInv /\ [Next]_vars => SInv'
<1> SUFFICES ASSUME SInv, [Next]_vars PROVE SInv'
  OBVIOUS
<1>0. IInv'
  BY IInvStep DEF SInv
<1>1. CASE WriteCmd
  BY <1>0, <1>1, WriteSInv
<1>2. CASE WriteFails \/ PollError
  <2>1. /\ Failed /\ Going
        /\ UNCHANGED <<chip, buf, left, line, pending, executed, accepted>>
    BY <1>2 DEF WriteFails, PollError, Polling, Going, xfervars, chipvars
  <2>2. Stops \/ Advances
    BY <2>1, FailedMoves DEF SInv
  <2>3. QED
    BY <1>0, <2>1, <2>2, AbandonSInv
<1>3. CASE Timeout
  <2>1. /\ Going /\ Stops
        /\ UNCHANGED <<chip, buf, left, line, pending, executed, accepted>>
    BY <1>3 DEF Timeout, Polling, Going, Stops, xfervars, chipvars
  <2>2. QED
    BY <1>0, <2>1, AbandonSInv
<1>4. CASE ReadType
  BY <1>0, <1>4, TypeSInv
<1>5. CASE ReadHeader
  BY <1>0, <1>5, HeaderSInv
<1>6. CASE ReadShortHeader
  BY <1>0, <1>6, ShortHeaderSInv
<1>7. CASE ReadPayload
  BY <1>0, <1>7, PayloadSInv
<1>8. CASE Execute
  BY <1>0, <1>8, ExecuteSInv
<1>9. CASE Refuse
  BY <1>0, <1>9, RefuseSInv
<1>10. CASE ChipEvent
  BY <1>0, <1>10, EventSInv
<1>11. CASE HangUp \/ Finished \/ UNCHANGED vars
  <2>1. UNCHANGED <<chip, op, pc, i, buf, left, line, pending, executed, accepted>>
    BY <1>11 DEF HangUp, Finished, vars, xfervars, progvars, chipvars
  <2>2. TypeBytes' /\ Reading' /\ Stream' = Stream
    BY <2>1 DEF SInv, TypeBytes, Reading, Stream, Inside
  <2>3. QED
    BY <1>0, <2>1, <2>2, SameLess, ProgressSInv
<1>12. QED
  BY <1>1, <1>2, <1>3, <1>4, <1>5, <1>6, <1>7, <1>8, <1>9, <1>10, <1>11 DEF Next, Host

(* An attach that succeeds has had every packet but the last accepted, for *)
(* every length of the firmware, whatever the controller refuses, however  *)
(* its answers are cut and whatever it sends in between, as long as that   *)
(* does not spell a command's code (rtb_download_fwc, "Index mismatch").   *)
THEOREM RefusalNoticed == ASSUME Unlike PROVE Spec => []NoticedUpToLast
<1>1. SInv => NoticedUpToLast
  BY DEF SInv, Accepted, NoticedUpToLast
<1>2. SInv /\ [Next]_vars => SInv'
  BY SInvStep
<1>3. QED
  BY InitSInv, <1>1, <1>2, PTL DEF Spec

(* A command is taken for completed only after the controller carried out  *)
(* this very command: no answer to an earlier one, no part of an answer,   *)
(* and no event in between is taken for it (start_xfer_wait).              *)
THEOREM NoAnswerMistaken == ASSUME Unlike PROVE Spec => OkMeansExecuted
<1>1. SInv /\ [Next]_vars => [TakenForDone => executed = Current]_vars
  <2> SUFFICES ASSUME SInv, Next, TakenForDone PROVE executed = Current
    OBVIOUS
  <2>0. op \in H4Ops /\ Polling /\ buf' # buf /\ pc' \in {"issue", "done"} /\ Outcome = "ok"
    BY DEF SInv, IInv, Types, TakenForDone
  <2>1. CASE ReadPayload
    <3>1. Contains(Stream, op) /\ Going
      BY <2>0, <2>1, OkAnswers DEF Polling, Going
    <3>2. Rank(op) \in 1..5
      BY <2>0, Codes
    <3>3. Rank(op) < Rank(op) \/ executed = Current
      BY <2>0, <3>1 DEF SInv, Answered
    <3>4. QED
      BY <3>2, <3>3
  <2>2. CASE ReadHeader
    <3>1. buf' \in Seq(Byte) /\ Len(buf') = 3
      <4>1. Len(line) >= 1 /\ line \in Seq(Byte) /\ 1 \in 1..Len(line) /\ 2 \in 1..Len(line)
        BY <2>2, LenProperties, SMT DEF ReadHeader, SInv, TypeBytes
      <4>2. line[1] \in Byte /\ line[2] \in Byte /\ 4 \in Byte
        BY <4>1, Bytes DEF Byte
      <4>3. buf' = <<4, line[1], line[2]>>
        BY <2>2 DEF ReadHeader
      <4>4. QED
        BY <4>2, <4>3
    <3>2. Len(buf') >= 6
      BY <2>0, <3>1, OkIsLong
    <3>3. QED
      BY <3>1, <3>2
  <2>3. CASE ReadShortHeader
    <3>1. IInv'
      BY <2>3, IInvStep DEF Next, Host, SInv
    <3>2. QED
      BY <2>0, <2>3, <3>1, ShortHeaderSInv
  <2>4. CASE ReadType
    BY <2>0, <2>4 DEF ReadType
  <2>5. CASE WriteCmd
    BY <2>0, <2>5 DEF WriteCmd, Polling
  <2>6. CASE \/ WriteFails \/ Timeout \/ PollError \/ HangUp
             \/ Execute \/ Refuse \/ ChipEvent \/ Finished
    BY <2>0, <2>6 DEF WriteFails, Timeout, PollError, HangUp, Execute, Refuse, ChipEvent, Finished,
       xfervars, vars
  <2>7. QED
    BY <2>1, <2>2, <2>3, <2>4, <2>5, <2>6 DEF Next, Host
<1>2. SInv /\ [Next]_vars => SInv'
  BY SInvStep
<1>3. QED
  BY InitSInv, <1>1, <1>2, PTL DEF Spec, OkMeansExecuted
=============================================================================
