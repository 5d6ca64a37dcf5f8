--------------------------- MODULE PatchRamProofs ---------------------------
(***************************************************************************)
(* The download to a Broadcom controller, for every set of command lines   *)
(* and controllers, every number of packets in the file but zero, and      *)
(* every number of alarms: no reset reaches the controller between the     *)
(* minidriver and the last packet, and, if the controller behaves, every   *)
(* answer is that to the command just sent, and it is ready at the end.    *)
(***************************************************************************)
EXTENDS PatchRam, SequenceTheorems, TLAPS

(* The program of main, from its end: what follows the last reset, the     *)
(* packets with what follows them, and so on.                              *)
Rest(o) ==
  If(o.baudrate, <<"baud">>) \o If(o.bdaddr, <<"bdaddr">>) \o If(o.lpm, <<"lpm">>)
  \o If(o.scopcm, <<"sco", "pcm">>) \o If(o.i2s, <<"i2s">>) \o If(o.enable_hci, <<"hci">>)
  \o <<"exit">>
Final(o)     == <<"reset">> \o Rest(o)
Slowed(o)    == If(o.fast, <<"slow">>) \o Final(o)
Run(n)       == [k \in 1..n |-> "packet"]
Pieces(o, n) == Run(n) \o Slowed(o)
AfterMini(o) == If(~o.no2bytes, <<"two">>) \o Pieces(o, Packets)
Download(o)  == <<"minidriver">> \o AfterMini(o)
Opened(o)    == If(o.fast /\ o.baudrate, <<"baud">>) \o Download(o)
Named(o)     == <<"open">> \o Opened(o)
AfterReset(o) == <<"name">> \o Named(o)
Start(o)     == <<"reset">> \o AfterReset(o)

RestOps == {"baud", "bdaddr", "lpm", "sco", "pcm", "i2s", "hci", "exit"}
Ops     == RestOps \cup {"reset", "name", "open", "minidriver", "two", "packet", "slow"}

LEMMA HeadTail == ASSUME NEW S, NEW x \in S, NEW s \in Seq(S)
                  PROVE  /\ <<x>> \o s # << >> /\ <<x>> \o s \in Seq(S)
                         /\ Head(<<x>> \o s) = x /\ Tail(<<x>> \o s) = s
<1>1. <<x>> \in Seq(S) /\ Len(<<x>>) = 1 /\ <<x>>[1] = x
  OBVIOUS
<1>2. <<x>> \o s \in Seq(S) /\ Len(<<x>> \o s) = 1 + Len(s)
  BY <1>1, ConcatProperties
<1>3. <<x>> \o s # << >>
  BY <1>2, LenProperties, SMT
<1>4. (<<x>> \o s)[1] = x
  BY <1>1, <1>2, ConcatProperties, LenProperties, SMT
<1>5. /\ Tail(<<x>> \o s) \in Seq(S) /\ Len(Tail(<<x>> \o s)) = Len(s)
      /\ \A k \in 1..Len(s) : Tail(<<x>> \o s)[k] = (<<x>> \o s)[k + 1]
  BY <1>2, <1>3, HeadTailProperties, LenProperties, SMT
<1>6. \A k \in 1..Len(s) : (<<x>> \o s)[k + 1] = s[k]
  BY <1>1, <1>2, ConcatProperties, LenProperties, SMT
<1>7. Tail(<<x>> \o s) = s
  BY <1>5, <1>6, SeqEqual, SMT
<1>8. QED
  BY <1>2, <1>3, <1>4, <1>7, HeadTailProperties, SMT

(* Concatenation, as an operator of which only the following is known.     *)
Cat(a, b) == a \o b

Closed(T) == /\ \A x, y \in T : Cat(x, y) \in T
             /\ \A x, y, z \in T : Cat(Cat(x, y), z) = Cat(x, Cat(y, z))

LEMMA Regroup == Closed(Seq(Ops))
  BY ConcatAssociative, ConcatProperties DEF Cat, Closed

(* Chains of concatenations, from the left and from the right.             *)
LEMMA Regroup6 ==
  ASSUME NEW T, Closed(T),
         NEW a \in T, NEW b \in T, NEW c \in T, NEW d \in T, NEW e \in T, NEW f \in T
  PROVE  /\ Cat(Cat(Cat(Cat(Cat(a, b), c), d), e), f)
               = Cat(a, Cat(b, Cat(c, Cat(d, Cat(e, f)))))
         /\ Cat(Cat(Cat(Cat(a, b), c), d), e) \in T
<1>1. /\ Cat(a, b) \in T /\ Cat(Cat(a, b), c) \in T /\ Cat(Cat(Cat(a, b), c), d) \in T
      /\ Cat(Cat(Cat(Cat(a, b), c), d), e) \in T
  BY DEF Closed
<1>2. /\ Cat(e, f) \in T /\ Cat(d, Cat(e, f)) \in T /\ Cat(c, Cat(d, Cat(e, f))) \in T
  BY DEF Closed
<1>3. Cat(Cat(Cat(Cat(Cat(a, b), c), d), e), f) = Cat(Cat(Cat(Cat(a, b), c), d), Cat(e, f))
  BY <1>1 DEF Closed
<1>4. @ = Cat(Cat(Cat(a, b), c), Cat(d, Cat(e, f)))
  BY <1>1, <1>2 DEF Closed
<1>5. @ = Cat(Cat(a, b), Cat(c, Cat(d, Cat(e, f))))
  BY <1>1, <1>2 DEF Closed
<1>6. @ = Cat(a, Cat(b, Cat(c, Cat(d, Cat(e, f)))))
  BY <1>1, <1>2 DEF Closed
<1>7. QED
  BY <1>1, <1>3, <1>4, <1>5, <1>6 DEF Closed

LEMMA Regroup5 ==
  ASSUME NEW T, Closed(T),
         NEW h \in T, NEW a \in T, NEW b \in T, NEW c \in T, NEW d \in T
  PROVE  /\ Cat(Cat(Cat(Cat(h, a), b), c), d) = Cat(h, Cat(Cat(Cat(a, b), c), d))
         /\ Cat(Cat(Cat(a, b), c), d) \in T
<1>1. Cat(a, b) \in T /\ Cat(Cat(a, b), c) \in T /\ Cat(Cat(Cat(a, b), c), d) \in T
  BY DEF Closed
<1>2. QED
  BY <1>1 DEF Closed

LEMMA IfTyped == ASSUME NEW S, NEW b \in BOOLEAN, NEW s \in Seq(S)
                 PROVE  If(b, s) \in Seq(S)
  BY DEF If

LEMMA RunTyped == ASSUME NEW n \in Nat
                  PROVE  Run(n) \in Seq(Ops) /\ Len(Run(n)) = n
<1>1. \A k \in 1..n : "packet" \in Ops
  BY DEF Ops
<1>2. Run(n) \in [1..n -> Ops]
  BY <1>1 DEF Run
<1>3. QED
  BY <1>2, IsASeq, LenProperties, SMT

LEMMA Typed == ASSUME NEW o \in OptionType
               PROVE  /\ Rest(o) \in Seq(Ops) /\ Final(o) \in Seq(Ops) /\ Slowed(o) \in Seq(Ops)
                      /\ Opened(o) \in Seq(Ops) /\ Download(o) \in Seq(Ops)
                      /\ AfterMini(o) \in Seq(Ops) /\ Named(o) \in Seq(Ops)
                      /\ AfterReset(o) \in Seq(Ops)
                      /\ \A n \in Nat : Pieces(o, n) \in Seq(Ops)
<1>. /\ o.baudrate \in BOOLEAN /\ o.fast \in BOOLEAN /\ o.no2bytes \in BOOLEAN
     /\ o.bdaddr \in BOOLEAN /\ o.lpm \in BOOLEAN /\ o.scopcm \in BOOLEAN
     /\ o.i2s \in BOOLEAN /\ o.enable_hci \in BOOLEAN
  BY DEF OptionType
<1>0. ASSUME NEW x \in Ops PROVE <<x>> \in Seq(Ops)
  OBVIOUS
<1>1. Rest(o) \in Seq(Ops)
  <2>1. /\ <<"baud">> \in Seq(Ops) /\ <<"bdaddr">> \in Seq(Ops) /\ <<"lpm">> \in Seq(Ops)
        /\ <<"sco", "pcm">> \in Seq(Ops) /\ <<"i2s">> \in Seq(Ops)
        /\ <<"hci">> \in Seq(Ops) /\ <<"exit">> \in Seq(Ops)
    BY DEF Ops, RestOps
  <2>2. /\ If(o.baudrate, <<"baud">>) \in Seq(Ops) /\ If(o.bdaddr, <<"bdaddr">>) \in Seq(Ops)
        /\ If(o.lpm, <<"lpm">>) \in Seq(Ops) /\ If(o.scopcm, <<"sco", "pcm">>) \in Seq(Ops)
        /\ If(o.i2s, <<"i2s">>) \in Seq(Ops) /\ If(o.enable_hci, <<"hci">>) \in Seq(Ops)
    BY <2>1, IfTyped
  <2>3. QED
    BY <2>1, <2>2, ConcatProperties DEF Rest
<1>2. Final(o) \in Seq(Ops)
  BY <1>1, HeadTail DEF Final, Ops
<1>3. Slowed(o) \in Seq(Ops)
  BY <1>0, <1>2, IfTyped, ConcatProperties DEF Slowed, Ops
<1>4. ASSUME NEW n \in Nat PROVE Pieces(o, n) \in Seq(Ops)
  BY <1>3, RunTyped, ConcatProperties DEF Pieces
<1>5. Pieces(o, Packets) \in Seq(Ops)
  BY <1>4, BoundsAssumption
<1>6. AfterMini(o) \in Seq(Ops)
  BY <1>0, <1>5, IfTyped, ConcatProperties DEF AfterMini, Ops
<1>7. Download(o) \in Seq(Ops)
  BY <1>6, HeadTail DEF Download, Ops
<1>8. Opened(o) \in Seq(Ops)
  BY <1>0, <1>7, IfTyped, ConcatProperties DEF Opened, Ops, RestOps
<1>9. Named(o) \in Seq(Ops)
  BY <1>8, HeadTail DEF Named, Ops
<1>10. AfterReset(o) \in Seq(Ops)
  BY <1>9, HeadTail DEF AfterReset, Ops
<1>11. QED
  BY <1>1, <1>2, <1>3, <1>4, <1>6, <1>7, <1>8, <1>9, <1>10

LEMMA RunSplit == ASSUME NEW n \in Nat, n > 0
                  PROVE  Run(n) = <<"packet">> \o Run(n - 1)
<1>1. n - 1 \in Nat /\ "packet" \in Ops /\ <<"packet">> \in Seq(Ops) /\ Len(<<"packet">>) = 1
  BY DEF Ops
<1>2. /\ Run(n) \in Seq(Ops) /\ Len(Run(n)) = n
      /\ Run(n - 1) \in Seq(Ops) /\ Len(Run(n - 1)) = n - 1
  BY <1>1, RunTyped
<1>3. /\ <<"packet">> \o Run(n - 1) \in Seq(Ops)
      /\ Len(<<"packet">> \o Run(n - 1)) = n
  BY <1>1, <1>2, ConcatProperties, SMT
<1>4. ASSUME NEW k \in 1..n PROVE Run(n)[k] = (<<"packet">> \o Run(n - 1))[k]
  <2>1. Run(n)[k] = "packet"
    BY DEF Run
  <2>2. CASE k = 1
    BY <1>1, <1>2, <2>1, <2>2, ConcatProperties, SMT
  <2>3. CASE k > 1
    <3>1. (<<"packet">> \o Run(n - 1))[k] = Run(n - 1)[k - 1]
      BY <1>1, <1>2, <2>3, ConcatProperties, SMT
    <3>2. k - 1 \in 1..n - 1
      BY <2>3, SMT
    <3>3. Run(n - 1)[k - 1] = "packet"
      BY <3>2 DEF Run
    <3>4. QED
      BY <2>1, <3>1, <3>3
  <2>4. k = 1 \/ k > 1
    BY SMT
  <2>5. QED
    BY <2>2, <2>3, <2>4
<1>5. QED
  BY <1>2, <1>3, <1>4, SeqEqual, SMT

LEMMA PiecesHead == ASSUME NEW o \in OptionType, NEW n \in Nat, n > 0
                    PROVE  /\ Pieces(o, n) # << >> /\ Head(Pieces(o, n)) = "packet"
                           /\ Tail(Pieces(o, n)) = Pieces(o, n - 1)
<1> DEFINE packet == <<"packet">>
<1>1. n - 1 \in Nat /\ "packet" \in Ops /\ packet \in Seq(Ops)
  BY DEF Ops
<1>2. Run(n - 1) \in Seq(Ops) /\ Slowed(o) \in Seq(Ops) /\ Pieces(o, n - 1) \in Seq(Ops)
  BY <1>1, RunTyped, Typed
<1>3. /\ Pieces(o, n) = Cat(Cat(packet, Run(n - 1)), Slowed(o))
      /\ Pieces(o, n - 1) = Cat(Run(n - 1), Slowed(o))
  BY RunSplit DEF Pieces, Cat
<1>4. Pieces(o, n) = Cat(packet, Pieces(o, n - 1))
  <2> HIDE DEF packet
  <2>1. QED
    BY <1>1, <1>2, <1>3, Regroup DEF Closed
<1>5. Pieces(o, n) = <<"packet">> \o Pieces(o, n - 1)
  BY <1>4 DEF Cat
<1>6. QED
  BY <1>1, <1>2, <1>5, HeadTail

LEMMA NoPieces == ASSUME NEW o \in OptionType PROVE Pieces(o, 0) = Slowed(o)
<1>1. Run(0) = << >>
  BY RunTyped, EmptySeq, SMT
<1>2. QED
  BY <1>1, Typed, ConcatEmptySeq DEF Pieces

(* What the calls of main and proc_patchram come to.                       *)
LEMMA MainIsStart == ASSUME NEW o \in OptionType PROVE Main(o) = Start(o)
<1> DEFINE r1 == If(o.baudrate, <<"baud">>)   r2 == If(o.bdaddr, <<"bdaddr">>)
           r3 == If(o.lpm, <<"lpm">>)         r4 == If(o.scopcm, <<"sco", "pcm">>)
           r5 == If(o.i2s, <<"i2s">>)         r6 == If(o.enable_hci, <<"hci">>)
           r7 == <<"exit">>                   two == If(~o.no2bytes, <<"two">>)
           slow == If(o.fast, <<"slow">>)     fast == If(o.fast /\ o.baudrate, <<"baud">>)
           mini == <<"minidriver">>           reset == <<"reset">>
           begin == <<"reset", "name", "open">>
           S == Seq(Ops)
           name == <<"name">>                 open == <<"open">>
           both == <<"reset", "name">>
<1>1. /\ o.baudrate \in BOOLEAN /\ o.fast \in BOOLEAN /\ o.no2bytes \in BOOLEAN
      /\ o.bdaddr \in BOOLEAN /\ o.lpm \in BOOLEAN /\ o.scopcm \in BOOLEAN
      /\ o.i2s \in BOOLEAN /\ o.enable_hci \in BOOLEAN
  BY DEF OptionType
<1>2. /\ <<"baud">> \in Seq(Ops) /\ <<"bdaddr">> \in Seq(Ops) /\ <<"lpm">> \in Seq(Ops)
      /\ <<"sco", "pcm">> \in Seq(Ops) /\ <<"i2s">> \in Seq(Ops) /\ <<"hci">> \in Seq(Ops)
      /\ <<"two">> \in Seq(Ops) /\ <<"slow">> \in Seq(Ops)
  BY DEF Ops, RestOps
<1>3. /\ r1 \in Seq(Ops) /\ r2 \in Seq(Ops) /\ r3 \in Seq(Ops) /\ r4 \in Seq(Ops)
      /\ r5 \in Seq(Ops) /\ r6 \in Seq(Ops) /\ two \in Seq(Ops) /\ slow \in Seq(Ops)
      /\ fast \in Seq(Ops)
  BY <1>1, <1>2, IfTyped
<1>4. r7 \in Seq(Ops) /\ mini \in Seq(Ops) /\ reset \in Seq(Ops) /\ begin \in Seq(Ops)
  BY DEF Ops, RestOps
<1>5. Run(Packets) \in Seq(Ops) /\ Rest(o) \in Seq(Ops) /\ Opened(o) \in Seq(Ops)
      /\ Download(o) \in Seq(Ops) /\ Named(o) \in Seq(Ops)
  BY BoundsAssumption, RunTyped, Typed
<1>6. /\ r1 \in S /\ r2 \in S /\ r3 \in S /\ r4 \in S /\ r5 \in S /\ r6 \in S /\ r7 \in S
      /\ two \in S /\ slow \in S /\ fast \in S /\ mini \in S /\ reset \in S /\ begin \in S
      /\ Run(Packets) \in S /\ Rest(o) \in S /\ Opened(o) \in S /\ Download(o) \in S
      /\ Named(o) \in S
  BY <1>3, <1>4, <1>5
<1>7. /\ reset \in S /\ name \in S /\ open \in S /\ both \in S
      /\ begin = Cat(both, open) /\ both = Cat(reset, name)
  BY DEF Ops, Cat
<1>8. /\ Patchram(o) = Cat(Cat(Cat(Cat(mini, two), Run(Packets)), slow), reset)
      /\ Download(o) = Cat(mini, Cat(two, Cat(Run(Packets), Cat(slow, Cat(reset, Rest(o))))))
      /\ Rest(o) = Cat(Cat(Cat(Cat(Cat(Cat(r1, r2), r3), r4), r5), r6), r7)
      /\ Opened(o) = Cat(fast, Download(o)) /\ Named(o) = Cat(open, Opened(o))
      /\ Start(o) = Cat(reset, Cat(name, Named(o)))
      /\ Main(o) = Cat(Cat(Cat(Cat(Cat(Cat(Cat(Cat(Cat(begin, fast), Patchram(o)),
                                            r1), r2), r3), r4), r5), r6), r7)
  BY DEF Cat, Patchram, Run, Download, AfterMini, Pieces, Slowed, Final, Rest, Opened, Named,
         AfterReset, Start, Main
<1>9. Closed(S)
  BY Regroup
<1> HIDE DEF r1, r2, r3, r4, r5, r6, r7, two, slow, fast, mini, reset, begin, S, name, open,
            both
<1>10. Patchram(o) \in S /\ Cat(Patchram(o), Rest(o)) = Download(o)
  <2>1. /\ Cat(Cat(Cat(Cat(Cat(mini, two), Run(Packets)), slow), reset), Rest(o))
             = Cat(mini, Cat(two, Cat(Run(Packets), Cat(slow, Cat(reset, Rest(o))))))
        /\ Cat(Cat(Cat(Cat(mini, two), Run(Packets)), slow), reset) \in S
    <3>1. /\ Closed(S) /\ mini \in S /\ two \in S /\ Run(Packets) \in S /\ slow \in S
          /\ reset \in S /\ Rest(o) \in S
      BY <1>6, <1>9
    <3>2. QED
      BY ONLY <3>1, Regroup6
  <2>2. QED
    BY <1>8, <2>1
<1> DEFINE first == Cat(Cat(begin, fast), Patchram(o))
<1>11. first \in S
  BY <1>6, <1>9, <1>10 DEF Closed
<1>12. Main(o) = Cat(first, Rest(o))
  <2> HIDE DEF first
  <2>1. Main(o) = Cat(Cat(Cat(Cat(Cat(Cat(Cat(first, r1), r2), r3), r4), r5), r6), r7)
    BY <1>8 DEF first
  <2>2. /\ Closed(S) /\ first \in S /\ r1 \in S /\ r2 \in S /\ r3 \in S /\ r4 \in S
        /\ r5 \in S /\ r6 \in S /\ r7 \in S
    BY <1>6, <1>9, <1>11
  <2> DEFINE half == Cat(Cat(Cat(r1, r2), r3), r4)
  <2>3. Cat(Cat(Cat(Cat(first, r1), r2), r3), r4) = Cat(first, half) /\ half \in S
    BY ONLY <2>2, Regroup5
  <2>4. Cat(Cat(Cat(Cat(first, half), r5), r6), r7)
          = Cat(first, Cat(Cat(Cat(half, r5), r6), r7))
    <3> HIDE DEF half
    <3>1. QED
      BY ONLY <2>2, <2>3, Regroup5
  <2>5. QED
    BY <1>8, <2>1, <2>3, <2>4
<1>13. Cat(first, Rest(o)) = Cat(begin, Opened(o))
  <2>1. Cat(first, Rest(o)) = Cat(Cat(begin, fast), Download(o))
    <3>1. Cat(begin, fast) \in S
      BY <1>6, <1>9 DEF Closed
    <3>2. Cat(first, Rest(o)) = Cat(Cat(begin, fast), Cat(Patchram(o), Rest(o)))
      BY <1>6, <1>9, <1>10, <3>1 DEF Closed
    <3>3. QED
      BY <1>10, <3>2
  <2>2. QED
    BY <1>6, <1>8, <1>9, <2>1 DEF Closed
<1>14. Cat(begin, Opened(o)) = Start(o)
  <2>1. Cat(begin, Opened(o)) = Cat(both, Named(o))
    BY <1>6, <1>7, <1>8, <1>9, SMTT(30) DEF Closed
  <2>2. QED
    BY <1>6, <1>7, <1>8, <1>9, <2>1 DEF Closed
<1>15. QED
  BY <1>12, <1>13, <1>14

LEMMA Behind == ASSUME NEW S, NEW s \in Seq(S), NEW t \in Seq(S), NEW k \in 1..Len(t)
                PROVE  (s \o t)[Len(s) + k] = t[k]
  BY ConcatProperties, LenProperties, SMT

LEMMA EndsWith == ASSUME NEW S, NEW s \in Seq(S), NEW x \in S
                  PROVE  /\ s \o <<x>> \in Seq(S) /\ s \o <<x>> # << >>
                         /\ (s \o <<x>>)[Len(s \o <<x>>)] = x
<1> DEFINE e == <<x>>
<1>1. e \in Seq(S) /\ Len(e) = 1 /\ 1 \in 1..Len(e) /\ e[1] = x
  OBVIOUS
<1> HIDE DEF e
<1>2. /\ s \o e \in Seq(S) /\ Len(s \o e) = Len(s) + 1 /\ Len(s) \in Nat
      /\ (s \o e)[Len(s) + 1] = x
  <2>1. (s \o e)[Len(s) + 1] = e[1]
    <3>1. \A k \in 1..Len(e) : (s \o e)[Len(s) + k] = e[k]
      BY <1>1, Behind
    <3>2. QED
      BY <1>1, <3>1
  <2>2. s \o e \in Seq(S) /\ Len(s \o e) = Len(s) + Len(e) /\ Len(s) \in Nat
    BY <1>1, ConcatProperties, LenProperties
  <2>3. QED
    BY <1>1, <2>1, <2>2
<1>3. s \o e # << >>
  BY <1>2, EmptySeq, SMT
<1>4. QED
  BY <1>2, <1>3 DEF e

(* Nothing of the download comes after the last reset.                     *)
LEMMA RestTyped == ASSUME NEW o \in OptionType
                   PROVE  /\ Rest(o) \in Seq(RestOps) /\ Rest(o) # << >>
                          /\ Rest(o)[Len(Rest(o))] = "exit"
<1>1. /\ o.baudrate \in BOOLEAN /\ o.bdaddr \in BOOLEAN /\ o.lpm \in BOOLEAN
      /\ o.scopcm \in BOOLEAN /\ o.i2s \in BOOLEAN /\ o.enable_hci \in BOOLEAN
  BY DEF OptionType
<1>2. /\ <<"baud">> \in Seq(RestOps) /\ <<"bdaddr">> \in Seq(RestOps)
      /\ <<"lpm">> \in Seq(RestOps) /\ <<"sco", "pcm">> \in Seq(RestOps)
      /\ <<"i2s">> \in Seq(RestOps) /\ <<"hci">> \in Seq(RestOps)
      /\ <<"exit">> \in Seq(RestOps)
  BY DEF RestOps
<1>3. /\ If(o.baudrate, <<"baud">>) \in Seq(RestOps) /\ If(o.bdaddr, <<"bdaddr">>) \in Seq(RestOps)
      /\ If(o.lpm, <<"lpm">>) \in Seq(RestOps) /\ If(o.scopcm, <<"sco", "pcm">>) \in Seq(RestOps)
      /\ If(o.i2s, <<"i2s">>) \in Seq(RestOps) /\ If(o.enable_hci, <<"hci">>) \in Seq(RestOps)
  BY <1>1, <1>2, IfTyped
<1> DEFINE most == If(o.baudrate, <<"baud">>) \o If(o.bdaddr, <<"bdaddr">>)
                   \o If(o.lpm, <<"lpm">>) \o If(o.scopcm, <<"sco", "pcm">>)
                   \o If(o.i2s, <<"i2s">>) \o If(o.enable_hci, <<"hci">>)
<1>4. most \in Seq(RestOps)
  BY <1>3, ConcatProperties
<1>5. Rest(o) = most \o <<"exit">>
  BY DEF Rest
<1>6. "exit" \in RestOps
  BY DEF RestOps
<1> HIDE DEF most
<1>7. QED
  BY <1>4, <1>5, <1>6, EndsWith

-----------------------------------------------------------------------------
(* The inductive invariant: one disjunct for each place in the program,    *)
(* and what holds at all of them.                                          *)

Speeds == {"115200", "high"}
Byte   == Commands \cup {0, 1, 2, 4, 14}
Known  == [speed: Speeds, mode: {"rom", "patch", "patched", "ready"}, packets: Nat,
           refused: BOOLEAN, two: 0..2, torn: BOOLEAN, is: ControllerType, asleep: Nat]

Types ==
  /\ opt \in OptionType /\ prog \in Seq(Ops)
  /\ pc \in {"begin", "header", "payload", "answered", "ended"}
  /\ armed \in BOOLEAN /\ hspeed \in Speeds
  /\ tx \in Seq([cmd: Commands, speed: Speeds])
  /\ pc = "header" => buffer = << >>
  /\ pc \in {"header", "payload", "answered"} => Op \in Commands
  /\ ctl \in Known

(* What is known of the line and of the buffer before the last reset.      *)
Framed == rx \in Seq(Byte) /\ (pc = "payload" => buffer \in Seq(Byte) /\ Len(buffer) = 3)

Mode(m, n) == ctl.mode = m /\ ctl.packets = n /\ ~ctl.torn
Clean      == tx = << >> /\ rx = << >> /\ ctl.two = 0
Zero(from) == \A k \in from..Len(rx) : rx[k] = 0

(* Until there is an answer to the command for the name: resets, and that  *)
(* command behind all of them.  Gone bytes of the first of n events were   *)
(* read; the j-th names the command it answers at Naming(j).               *)
Gone      == IF pc = "payload" THEN 3 ELSE 0
Naming(j) == 5 * j - 1 - Gone

Answers(n) ==
  /\ Framed /\ Len(rx) = 5 * n - Gone
  /\ \A j \in 1..n : /\ j > 1 \/ Gone = 0 => rx[Naming(j) - 1] = 2
                     /\ rx[Naming(j)] \in {"reset", "name"}

NoName(n) ==
  /\ \A k \in 1..Len(tx) : tx[k].cmd # "name"
  /\ \A j \in 1..n : rx[Naming(j)] # "name"

NameLast(n) ==
  /\ \A k \in 1..Len(tx) : tx[k].cmd = "name" => k = Len(tx)
  /\ \A j \in 1..n : rx[Naming(j)] = "name" => j = n /\ tx = << >>

Early(n) ==
  /\ Mode("rom", 0) /\ ctl.two = 0 /\ ctl.speed = "115200" /\ hspeed = "115200"
  /\ \A k \in 1..Len(tx) : tx[k].cmd \in {"reset", "name"} /\ tx[k].speed = "115200"
  /\ Answers(n) /\ local_name # "chip"
  /\ pc = "payload" => buffer[3] = 2

Starting == \E n \in Nat :
  prog = Start(opt) /\ pc # "ended" /\ Early(n) /\ NoName(n)

Asking == \E n \in Nat :
  /\ prog = AfterReset(opt) /\ pc # "ended" /\ ~armed /\ Early(n)
  /\ IF pc = "begin" THEN NoName(n) ELSE NameLast(n)
  /\ pc = "answered" /\ buffer[4] = "name" => tx = << >> /\ rx = << >>

Opening ==
  /\ prog = Named(opt) /\ pc \in {"begin", "ended"} /\ ~armed /\ Mode("rom", 0)
  /\ \A k \in 1..Len(tx) : tx[k].cmd \in {"reset", "name"}
  /\ pc = "begin" /\ local_name = "chip" => Clean

(* One command c at a time, with a bytes of the confirmation of the        *)
(* minidriver not read before it and b to come after it, which takes the   *)
(* controller from mode m0 and n0 packets to m1 and n1.                    *)
Before(a, m0, n0) ==
  rx \in Seq(Byte) /\ Len(rx) + ctl.two = a /\ Zero(1) /\ Mode(m0, n0)

Answering(a, b) ==
  /\ rx \in Seq(Byte) /\ Len(rx) >= a + 5 /\ Len(rx) + ctl.two = a + 5 + b
  /\ (\A k \in 1..a : rx[k] = 0) /\ rx[a + 1] = 4 /\ rx[a + 2] = 14 /\ rx[a + 3] = 2
  /\ Zero(a + 6)

Reading(a, b) ==
  /\ rx \in Seq(Byte) /\ Len(rx) >= a + 2 /\ Len(rx) + ctl.two = a + 2 + b
  /\ buffer[3] = (IF a = 0 THEN 2 ELSE IF a = 1 THEN 14 ELSE 4)
  /\ a = 0 => Zero(3)

Doing(c, a, b, m0, n0, m1, n1) ==
  /\ Op = c /\ ~armed
  /\ \/ pc = "begin" /\ tx = << >> /\ Before(a, m0, n0)
     \/ /\ pc = "header" /\ tx \in {<< >>, <<[cmd |-> c, speed |-> hspeed]>>}
        /\ Before(a, m0, n0)
     \/ pc = "header" /\ tx = << >> /\ Answering(a, b) /\ Mode(m1, n1)
     \/ pc = "payload" /\ tx = << >> /\ Reading(a, b) /\ Mode(m1, n1)
     \/ pc = "answered" /\ tx = << >> /\ Before(b, m1, n1)

Owed == IF ctl.is.confirms THEN 2 ELSE 0

Speeding == prog = <<"baud">> \o Download(opt) /\ Doing("baud", 0, 0, "rom", 0, "rom", 0)
Loading  == prog = Download(opt) /\ Doing("minidriver", 0, Owed, "rom", 0, "patch", 0)
Waiting  == /\ prog = <<"two">> \o Pieces(opt, Packets) /\ pc = "begin" /\ ~armed
            /\ tx = << >> /\ Before(Owed, "patch", 0)
Patching == \E n \in 1..Packets, a \in 0..2 :
  /\ prog = Pieces(opt, n)
  /\ Doing("packet", a, 0, "patch", Packets - n,
           IF n = 1 THEN "patched" ELSE "patch", Packets - n + 1)
Slowing  == /\ prog = <<"slow">> \o Final(opt) /\ pc = "begin" /\ ~armed
            /\ tx = << >> /\ Mode("patched", Packets)

(* After the last packet nothing can tear the download.                    *)
Over == /\ ctl.mode \in {"patched", "ready"} /\ ctl.packets = Packets /\ ~ctl.torn
        /\ \A k \in 1..Len(tx) : tx[k].cmd \notin {"minidriver", "packet"}

Taken == (pc = "header" /\ rx # << >>) \/ pc \in {"payload", "answered"}

Resetting == /\ prog = Final(opt) /\ pc # "ended" /\ Over
             /\ Behaves /\ Taken => ctl.mode = "ready" /\ hspeed = ctl.speed

Finishing ==
  /\ prog \in Seq(RestOps) /\ prog # << >> /\ prog[Len(prog)] = "exit" /\ ~armed /\ Over
  /\ Behaves => /\ ctl.mode = "ready"
                /\ IF Taken /\ Op = "baud" THEN ctl.speed = "high" ELSE hspeed = ctl.speed

Place == \/ Starting \/ Asking \/ Opening \/ Speeding \/ Loading \/ Waiting \/ Patching
         \/ Slowing \/ Resetting \/ Finishing

(* With a controller that behaves at most one thing is on the line.        *)
Quiet ==
  Behaves =>
    /\ ctl.two = 0
    /\ pc \in {"begin", "answered", "ended"} => tx = << >> /\ rx = << >>
    /\ pc = "header" => \/ tx = << >> /\ rx = << >>
                        \/ tx = <<[cmd |-> Op, speed |-> hspeed]>> /\ rx = << >>
                        \/ tx = << >> /\ rx = <<4, 14, 2, Op, 0>>
    /\ pc = "payload" => tx = << >> /\ rx = <<Op, 0>> /\ Framed /\ buffer[3] = 2
    /\ pc = "answered" => buffer[4] = Op

Alarm == armed => Op = "reset" /\ pc \in {"header", "payload", "answered"}
Left  == status \in {"exit 0", "serving"} => Finishing /\ pc = "ended"

IInv == Types /\ Place /\ Quiet /\ Alarm /\ Left

(* An event behind a line.                                                 *)
LEMMA EventTyped == ASSUME NEW c \in Commands, NEW st \in {0, 1}
                    PROVE  /\ Event(c, st) \in Seq(Byte) /\ Len(Event(c, st)) = 5
                           /\ Event(c, st)[1] = 4 /\ Event(c, st)[2] = 14
                           /\ Event(c, st)[3] = 2 /\ Event(c, st)[4] = c
                           /\ Event(c, st)[5] = st
<1>1. 4 \in Byte /\ 14 \in Byte /\ 2 \in Byte /\ c \in Byte /\ st \in Byte
  BY DEF Byte
<1>2. QED
  BY <1>1 DEF Event

LEMMA Answer == ASSUME NEW s \in Seq(Byte), NEW c \in Commands, NEW st \in {0, 1}
                PROVE  LET t == s \o Event(c, st) IN
                       /\ t \in Seq(Byte) /\ Len(t) = Len(s) + 5
                       /\ \A k \in 1..Len(s) : t[k] = s[k]
                       /\ t[Len(s) + 1] = 4 /\ t[Len(s) + 2] = 14 /\ t[Len(s) + 3] = 2
                       /\ t[Len(s) + 4] = c /\ t[Len(s) + 5] = st
<1> DEFINE e == Event(c, st)
<1>1. /\ e \in Seq(Byte) /\ Len(e) = 5 /\ e[1] = 4 /\ e[2] = 14 /\ e[3] = 2 /\ e[4] = c
      /\ e[5] = st
  BY EventTyped
<1> HIDE DEF e
<1>2. Len(s) \in Nat
  BY LenProperties
<1>3. s \o e \in Seq(Byte) /\ Len(s \o e) = Len(s) + Len(e)
  BY <1>1, ConcatProperties
<1>4. \A k \in 1..Len(s) : (s \o e)[k] = s[k]
  BY <1>1, <1>2, ConcatProperties, SMT
<1>5. \A k \in 1..5 : (s \o e)[Len(s) + k] = e[k]
  BY <1>1, <1>2, <1>3, ConcatProperties, SMT
<1>6. 1 \in 1..5 /\ 2 \in 1..5 /\ 3 \in 1..5 /\ 4 \in 1..5 /\ 5 \in 1..5
  BY SMT
<1>7. /\ (s \o e)[Len(s) + 1] = 4 /\ (s \o e)[Len(s) + 2] = 14 /\ (s \o e)[Len(s) + 3] = 2
      /\ (s \o e)[Len(s) + 4] = c /\ (s \o e)[Len(s) + 5] = st
  BY <1>1, <1>5, <1>6, Zenon
<1>8. QED
  BY <1>1, <1>3, <1>4, <1>7 DEF e

(* What a read takes from the line and what it leaves there.               *)
LEMMA Taking == ASSUME NEW S, NEW s \in Seq(S), NEW n \in 0..Len(s)
                PROVE  LET t == SubSeq(s, n + 1, Len(s)) IN
                       /\ t \in Seq(S) /\ Len(t) = Len(s) - n
                       /\ \A k \in 1..Len(t) : t[k] = s[k + n]
<1>1. Len(s) \in Nat
  BY LenProperties
<1>2. CASE n = Len(s)
  <2>1. SubSeq(s, n + 1, Len(s)) = << >>
    BY <1>1, <1>2, SubSeqEmpty, SMT
  <2>2. QED
    BY <1>1, <1>2, <2>1, EmptySeq, SMT
<1>3. CASE n < Len(s)
  <2>1. \A k \in n + 1..Len(s) : s[k] \in S
    BY <1>1, ElementOfSeq, SMT
  <2>2. QED
    BY <1>1, <1>3, <2>1, SubSeqProperties, SMT
<1>4. QED
  BY <1>1, <1>2, <1>3, SMT

LEMMA Reads == ASSUME NEW S, NEW s \in Seq(S), NEW n \in 0..Len(s)
               PROVE  LET t == SubSeq(s, 1, n) IN
                      /\ t \in Seq(S) /\ Len(t) = n
                      /\ \A k \in 1..n : t[k] = s[k]
<1>1. Len(s) \in Nat
  BY LenProperties
<1>2. \A k \in 1..n : s[k] \in S
  BY <1>1, ElementOfSeq, SMT
<1>3. QED
  BY <1>1, <1>2, SubSeqProperties, SMT

LEMMA Pair == ASSUME NEW S, NEW s \in Seq(S), Len(s) = 2 PROVE s = <<s[1], s[2]>>
  OBVIOUS

LEMMA AfterTyped == ASSUME ctl \in Known, NEW cmd, NEW ok \in BOOLEAN
                    PROVE  /\ After(cmd, ok) \in Known /\ After(cmd, ok).is = ctl.is
                           /\ After(cmd, ok).two = IF cmd = "minidriver" /\ ctl.is.confirms
                                                   THEN 2 ELSE ctl.two
                           /\ After(cmd, ok).packets = IF cmd = "packet" THEN ctl.packets + 1
                                                       ELSE ctl.packets
                           /\ After(cmd, ok).mode =
                                CASE cmd = "minidriver" -> "patch"
                                  [] cmd = "packet" /\ ctl.packets + 1 = Packets -> "patched"
                                  [] cmd = "reset" /\ ctl.mode = "patched" -> "ready"
                                  [] OTHER -> ctl.mode
                           /\ After(cmd, ok).torn =
                                (ctl.torn \/ (cmd = "reset" /\ ctl.mode = "patch"))
                           /\ After(cmd, ok).speed =
                                IF cmd = "baud" /\ ok THEN "high"
                                ELSE IF cmd = "packet" /\ ctl.packets + 1 = Packets
                                THEN "115200" ELSE ctl.speed
<1> DEFINE next == After(cmd, ok)
<1>1. /\ next.two = IF cmd = "minidriver" /\ ctl.is.confirms THEN 2 ELSE ctl.two
      /\ next.packets = IF cmd = "packet" THEN ctl.packets + 1 ELSE ctl.packets
      /\ next.mode = CASE cmd = "minidriver" -> "patch"
                       [] cmd = "packet" /\ ctl.packets + 1 = Packets -> "patched"
                       [] cmd = "reset" /\ ctl.mode = "patched" -> "ready"
                       [] OTHER -> ctl.mode
      /\ next.torn = (ctl.torn \/ (cmd = "reset" /\ ctl.mode = "patch"))
      /\ next.speed = IF cmd = "baud" /\ ok THEN "high"
                      ELSE IF cmd = "packet" /\ ctl.packets + 1 = Packets THEN "115200"
                      ELSE ctl.speed
      /\ next.is = ctl.is /\ next.asleep = ctl.asleep /\ next.refused = (ctl.refused \/ ~ok)
  BY Zenon DEF After, Known
<1>2. /\ next.speed \in Speeds /\ next.two \in 0..2 /\ next.packets \in Nat
      /\ next.mode \in {"rom", "patch", "patched", "ready"} /\ next.torn \in BOOLEAN
      /\ next.is \in ControllerType /\ next.asleep \in Nat /\ next.refused \in BOOLEAN
  BY <1>1 DEF Known, Speeds
<1>3. next \in Known
  BY <1>2, Zenon DEF After, Known
<1>4. QED
  BY <1>1, <1>3

LEMMA OpTyped == ASSUME Types, prog # << >> PROVE Op \in Ops /\ Tail(prog) \in Seq(Ops)
  BY HeadTailProperties DEF Types, Op

LEMMA TypesStep == ASSUME Types, prog # << >>, [Next]_vars PROVE Types'
<1> DEFINE Cmd == [cmd: Commands, speed: Speeds]
<1>1. Tail(prog) \in Seq(Ops)
  BY OpTyped
<1>2. /\ \A c \in Commands : hci_send_cmd(c) => tx' \in Seq(Cmd)
      /\ "reset" \in Commands /\ {"115200", "high"} = Speeds
  <2>1. ASSUME NEW c \in Commands, hci_send_cmd(c) PROVE tx' \in Seq(Cmd)
    <3>1. [cmd |-> c, speed |-> hspeed] \in Cmd /\ tx \in Seq(Cmd)
      BY DEF Types
    <3>2. QED
      BY <2>1, <3>1, AppendProperties DEF hci_send_cmd
  <2>2. QED
    BY <2>1 DEF Commands, Speeds
<1>3. CASE SendCmd
  <2>1. tx' \in Seq(Cmd)
    BY <1>2, <1>3 DEF SendCmd
  <2>2. QED
    BY <1>3, <2>1, EmptySeq DEF SendCmd, Types, Op
<1>4. CASE Expired
  <2>1. tx' \in Seq(Cmd)
    BY <1>2, <1>4 DEF Expired
  <2>2. QED
    BY <1>4, <2>1 DEF Expired, host, Types, Op
<1>5. CASE ReadHeader
  BY <1>5 DEF ReadHeader, Types, Op
<1>6. CASE ReadPayload
  BY <1>6 DEF ReadPayload, Types, Op
<1>7. CASE Answered
  BY <1>1, <1>2, <1>7 DEF Answered, Done, Disarm, Types, Op
<1>8. CASE OpenPatchram
  BY <1>1, <1>8 DEF OpenPatchram, Done, Types, Op
<1>9. CASE ReadTwo
  BY <1>1, <1>9 DEF ReadTwo, Done, Types, Op
<1>10. CASE SlowDown
  BY <1>1, <1>2, <1>10 DEF SlowDown, Done, Types, Op
<1>11. CASE Leave
  BY <1>11 DEF Leave, Types, Op
<1>12. CASE CtlTake
  <2>1. tx' \in Seq(Cmd)
    BY <1>12, HeadTailProperties DEF CtlTake, Types, Op
  <2>2. Head(tx) \in Cmd
    BY <1>12, HeadTailProperties DEF CtlTake, Types, Op
  <2>3. ctl' \in Known
    <3>1. CASE UNCHANGED ctl
      BY <3>1 DEF Types
    <3>2. CASE ctl.asleep > 0 /\ ctl' = [ctl EXCEPT !.asleep = @ - 1]
      <4>1. ctl.asleep - 1 \in Nat
        BY <3>2, SMT DEF Types, Known
      <4>2. QED
        BY <3>2, <4>1 DEF Types, Known
    <3>3. ASSUME NEW ok \in BOOLEAN, ctl' = After(Head(tx).cmd, ok) PROVE ctl' \in Known
      BY <3>3, AfterTyped DEF Types
    <3>4. QED
      BY <1>12, <3>1, <3>2, <3>3, Zenon DEF CtlTake
  <2>4. QED
    BY <1>12, <2>1, <2>3 DEF CtlTake, host, Types, Op
<1>13. CASE CtlConfirm
  <2>1. ctl' \in Known
    <3>1. ctl.two - 1 \in 0..2
      BY <1>13, SMT DEF CtlConfirm, Types, Known
    <3>2. QED
      BY <1>13, <3>1 DEF CtlConfirm, Types, Known
  <2>2. QED
    BY <1>13, <2>1 DEF CtlConfirm, host, Types, Op
<1>14. CASE UNCHANGED vars
  BY <1>14 DEF vars, host, Types, Op
<1>15. QED
  BY <1>3, <1>4, <1>5, <1>6, <1>7, <1>8, <1>9, <1>10, <1>11, <1>12, <1>13, <1>14
     DEF Next, Host, Ended

LEMMA SameController == ASSUME Types, [Next]_vars
                        PROVE  opt' = opt /\ ctl'.is = ctl.is /\ Behaves' = Behaves
<1>1. ctl'.is = ctl.is
  <2>1. CASE CtlTake
    <3>1. CASE UNCHANGED ctl
      BY <3>1
    <3>2. CASE ctl' = [ctl EXCEPT !.asleep = @ - 1]
      BY <3>2 DEF Types, Known
    <3>3. ASSUME NEW ok \in BOOLEAN, ctl' = After(Head(tx).cmd, ok) PROVE ctl'.is = ctl.is
      BY <3>3, AfterTyped DEF Types
    <3>4. QED
      BY <2>1, <3>1, <3>2, <3>3, Zenon DEF CtlTake
  <2>2. CASE CtlConfirm
    BY <2>2 DEF CtlConfirm, Types, Known
  <2>3. CASE ~CtlTake /\ ~CtlConfirm
    BY <2>3 DEF Next, Host, SendCmd, Expired, ReadHeader, ReadPayload, Answered, OpenPatchram,
                ReadTwo, SlowDown, Leave, Ended, vars
  <2>4. QED
    BY <2>1, <2>2, <2>3
<1>2. opt' = opt
  BY DEF Next, Host, SendCmd, Expired, ReadHeader, ReadPayload, Answered, OpenPatchram, ReadTwo,
         SlowDown, Leave, CtlTake, CtlConfirm, Ended, vars, host
<1>3. QED
  BY <1>1, <1>2 DEF Behaves

LEMMA AlarmStep == ASSUME Types, prog # << >>, Alarm, [Next]_vars PROVE Alarm'
<1>1. CASE Answered
  BY <1>1 DEF Answered, Disarm, Done, Alarm
<1>2. CASE SendCmd
  BY <1>2 DEF SendCmd, Alarm, Op
<1>3. CASE OpenPatchram \/ ReadTwo \/ SlowDown \/ Leave
  BY <1>3 DEF OpenPatchram, ReadTwo, SlowDown, Leave, Alarm
<1>4. CASE Expired \/ ReadHeader \/ ReadPayload \/ CtlTake \/ CtlConfirm \/ UNCHANGED vars
  BY <1>4 DEF Expired, ReadHeader, ReadPayload, CtlTake, CtlConfirm, vars, host, Alarm, Op
<1>5. QED
  BY <1>1, <1>2, <1>3, <1>4 DEF Next, Host, Ended

LEMMA QuietStep == ASSUME Types, prog # << >>, Quiet, Alarm, [Next]_vars PROVE Quiet'
<1> SUFFICES ASSUME Behaves, ctl'.is = ctl.is
             PROVE  (/\ ctl.two = 0
                     /\ pc \in {"begin", "answered", "ended"} => tx = << >> /\ rx = << >>
                     /\ pc = "header" => \/ tx = << >> /\ rx = << >>
                                         \/ /\ tx = <<[cmd |-> Op, speed |-> hspeed]>>
                                            /\ rx = << >>
                                         \/ tx = << >> /\ rx = <<4, 14, 2, Op, 0>>
                     /\ pc = "payload" => tx = << >> /\ rx = <<Op, 0>> /\ Framed /\ buffer[3] = 2
                     /\ pc = "answered" => buffer[4] = Op)'
  BY SameController DEF Quiet
<1>1. /\ ctl.two = 0
      /\ pc \in {"begin", "answered", "ended"} => tx = << >> /\ rx = << >>
      /\ pc = "header" => \/ tx = << >> /\ rx = << >>
                          \/ tx = <<[cmd |-> Op, speed |-> hspeed]>> /\ rx = << >>
                          \/ tx = << >> /\ rx = <<4, 14, 2, Op, 0>>
      /\ pc = "payload" => tx = << >> /\ rx = <<Op, 0>> /\ Framed /\ buffer[3] = 2
      /\ pc = "answered" => buffer[4] = Op
  BY DEF Quiet
<1>2. CASE SendCmd
  <2>1. tx' = <<[cmd |-> Op, speed |-> hspeed]>>
    BY <1>1, <1>2 DEF SendCmd, hci_send_cmd
  <2>2. QED
    BY <1>1, <1>2, <2>1 DEF SendCmd, Op
<1>3. CASE Expired
  <2>1. tx = << >> /\ rx = << >> /\ pc = "header" /\ Op = "reset"
    BY <1>3 DEF Expired, Behaves, Alarm
  <2>2. tx' = <<[cmd |-> Op, speed |-> hspeed]>>
    BY <1>3, <2>1 DEF Expired, hci_send_cmd
  <2>3. QED
    BY <1>1, <1>3, <2>1, <2>2 DEF Expired, host, Op
<1>4. CASE ReadHeader
  <2>1. tx = << >> /\ rx = <<4, 14, 2, Op, 0>>
    BY <1>1, <1>4, SMT DEF ReadHeader
  <2>2. PICK x \in Commands : x = Op
    BY <1>4 DEF ReadHeader, Types
  <2>3. /\ rx = <<4, 14, 2, x, 0>> /\ rx \in Seq(Byte) /\ Len(rx) = 5 /\ rx[1] = 4
        /\ rx[2] = 14 /\ rx[3] = 2 /\ rx[4] = x /\ rx[5] = 0
    BY <2>1, <2>2 DEF Byte
  <2>4. /\ rx' \in Seq(Byte) /\ Len(rx') = 2 /\ rx'[1] = x /\ rx'[2] = 0
    BY <1>4, <2>3, Taking, SMT DEF ReadHeader, Read
  <2>5. rx' = <<x, 0>>
    BY <2>4, Pair
  <2>6. /\ buffer' = << >> \o SubSeq(rx, 1, 3) /\ SubSeq(rx, 1, 3) \in Seq(Byte)
        /\ Len(SubSeq(rx, 1, 3)) = 3 /\ SubSeq(rx, 1, 3)[3] = 2
    BY <1>4, <2>3, Reads, SMTT(30) DEF ReadHeader, Read, Types
  <2>7. buffer' \in Seq(Byte) /\ Len(buffer') = 3 /\ buffer'[3] = 2
    BY <2>6, ConcatEmptySeq
  <2>8. Framed'
    BY <2>4, <2>7 DEF Framed
  <2>9. QED
    BY <1>1, <1>4, <2>1, <2>2, <2>5, <2>7, <2>8 DEF ReadHeader, Op
<1>5. CASE ReadPayload
  <2>1. PICK x \in Commands : x = Op
    BY <1>5 DEF ReadPayload, Types
  <2>2. /\ tx = << >> /\ rx = <<x, 0>> /\ rx \in Seq(Byte) /\ Len(rx) = 2 /\ rx[1] = x
        /\ buffer \in Seq(Byte) /\ Len(buffer) = 3 /\ buffer[3] = 2
    BY <1>1, <1>5, <2>1 DEF ReadPayload, Framed
  <2>3. rx' \in Seq(Byte) /\ Len(rx') = 0
    BY <1>5, <2>2, Taking, SMT DEF ReadPayload, Read
  <2>4. rx' = << >>
    BY <2>3, EmptySeq, SMT
  <2>5. /\ SubSeq(rx, 1, 2) \in Seq(Byte) /\ Len(SubSeq(rx, 1, 2)) = 2
        /\ SubSeq(rx, 1, 2)[1] = x
    BY <2>2, Reads, SMT
  <2>6. buffer' = buffer \o SubSeq(rx, 1, 2)
    BY <1>5, <2>2 DEF ReadPayload, Read
  <2>7. buffer'[4] = x
    <3>1. PICK s \in Seq(Byte) : s = SubSeq(rx, 1, 2)
      BY <2>5
    <3>2. 1 \in 1..Len(s) /\ Len(buffer) + 1 = 4 /\ s[1] = x
      BY <2>2, <2>5, <3>1, SMT
    <3>3. (buffer \o s)[Len(buffer) + 1] = s[1]
      <4>1. buffer \in Seq(Byte) /\ s \in Seq(Byte) /\ 1 \in 1..Len(s)
        BY <2>2, <3>2
      <4>2. QED
        BY ONLY <4>1, Behind
    <3>4. QED
      BY <2>6, <3>1, <3>2, <3>3, Zenon
  <2>8. QED
    BY <1>1, <1>5, <2>1, <2>2, <2>4, <2>7 DEF ReadPayload, Op
<1>6. CASE Answered
  BY <1>1, <1>6 DEF Answered, Done
<1>7. CASE OpenPatchram \/ SlowDown \/ Leave
  BY <1>1, <1>7 DEF OpenPatchram, SlowDown, Leave, Done
<1>8. CASE ReadTwo
  BY <1>1, <1>8 DEF ReadTwo
<1>9. CASE CtlTake
  <2>1. PICK x \in Commands : x = Op /\ pc = "header"
    BY <1>1, <1>9 DEF CtlTake, Types
  <2>2. /\ tx = <<[cmd |-> x, speed |-> hspeed]>> /\ rx = << >> /\ Head(tx).cmd = x
        /\ tx' = << >>
    <3>1. tx = <<[cmd |-> x, speed |-> hspeed]>> /\ rx = << >>
      BY <1>1, <1>9, <2>1, Zenon DEF CtlTake
    <3>2. tx' = Tail(tx)
      BY <1>9 DEF CtlTake
    <3>3. QED
      BY <3>1, <3>2
  <2>3. ctl'.two = 0 /\ (UNCHANGED rx \/ rx' = rx \o Event(x, 0))
    <3>1. CASE UNCHANGED rx /\ (UNCHANGED ctl \/ ctl' = [ctl EXCEPT !.asleep = @ - 1])
      BY <1>1, <3>1 DEF Types, Known
    <3>2. ASSUME NEW ok \in {TRUE}, ctl' = After(x, ok),
                 rx' = IF hspeed = ctl.speed THEN rx \o Event(x, IF ok THEN 0 ELSE 1) ELSE rx
          PROVE  ctl'.two = 0 /\ (UNCHANGED rx \/ rx' = rx \o Event(x, 0))
      BY <1>1, <3>2, AfterTyped DEF Types, Behaves
    <3>3. QED
      BY <1>9, <2>2, <3>1, <3>2, Zenon DEF CtlTake, Behaves
  <2>4. << >> \o Event(x, 0) = <<4, 14, 2, x, 0>>
    BY EventTyped, ConcatEmptySeq DEF Event
  <2>5. pc' = "header" /\ Op' = x /\ hspeed' = hspeed
    BY <1>9, <2>1 DEF CtlTake, host, Op
  <2>6. QED
    BY <2>2, <2>3, <2>4, <2>5
<1>10. CASE CtlConfirm
  BY <1>1, <1>10, SMT DEF CtlConfirm
<1>11. CASE UNCHANGED vars
  BY <1>1, <1>11 DEF vars, host, Op, Framed
<1>12. QED
  BY <1>2, <1>3, <1>4, <1>5, <1>6, <1>7, <1>8, <1>9, <1>10, <1>11 DEF Next, Host, Ended

(* Before there is an answer to the command for the name.                  *)
LEMMA EarlySend ==
  ASSUME Types, NEW n \in Nat, Early(n), NoName(n), NEW c \in {"reset", "name"},
         hci_send_cmd(c), UNCHANGED <<rx, ctl, hspeed, local_name>>,
         Gone' = Gone, Framed', pc' # "payload" \/ UNCHANGED buffer
  PROVE  Early(n)' /\ (c = "reset" => NoName(n)') /\ NameLast(n)'
<1> DEFINE p == [cmd |-> c, speed |-> "115200"]
<1>1. tx \in Seq([cmd: Commands, speed: Speeds]) /\ Len(tx) \in Nat
      /\ p \in [cmd: Commands, speed: Speeds]
  BY LenProperties DEF Types, Commands, Speeds
<1>2. /\ tx' = Append(tx, p) /\ p.cmd = c /\ p.speed = "115200"
  BY DEF hci_send_cmd, Early
<1>3. /\ Len(tx') = Len(tx) + 1 /\ tx'[Len(tx) + 1] = p
      /\ \A k \in 1..Len(tx) : tx'[k] = tx[k]
  BY <1>1, <1>2, AppendProperties
<1>4. \A k \in 1..Len(tx') : \/ k = Len(tx') /\ tx'[k] = p
                             \/ k \in 1..Len(tx) /\ tx'[k] = tx[k]
  BY <1>1, <1>3, SMT
<1>5. \A k \in 1..Len(tx) : /\ tx[k].cmd \in {"reset", "name"} /\ tx[k].speed = "115200"
                            /\ tx[k].cmd # "name"
  BY DEF Early, NoName
<1>6. \A k \in 1..Len(tx') : /\ tx'[k].cmd \in {"reset", "name"} /\ tx'[k].speed = "115200"
                             /\ tx'[k].cmd = "name" => c = "name" /\ k = Len(tx')
  BY <1>2, <1>4, <1>5
<1>7. \A j \in 1..n : Naming(j)' = Naming(j)
  BY DEF Naming
<1>8. Answers(n)'
  BY <1>7 DEF Early, Answers
<1>9. \A j \in 1..n : rx'[Naming(j)'] # "name"
  BY <1>7 DEF NoName
<1>10. pc' = "payload" => buffer'[3] = 2
  BY DEF Early, Gone
<1>11. Early(n)'
  BY <1>6, <1>8, <1>10 DEF Early, Mode
<1>12. QED
  BY <1>6, <1>9, <1>11 DEF NoName, NameLast

(* An answer takes five bytes: where it is after the header, or the rest,  *)
(* of the first was read.                                                  *)
LEMMA HeaderShift ==
  ASSUME NEW n \in Nat, NEW j \in 1..n
  PROVE  /\ 5 * j - 4 \in 1..(5 * n - 3) /\ (5 * j - 4) + 3 = 5 * j - 1
         /\ j > 1 => 5 * j - 5 \in 1..(5 * n - 3) /\ (5 * j - 5) + 3 = 5 * j - 2
BY SMT

LEMMA PayloadShift ==
  ASSUME NEW n \in Nat, NEW j \in 1..n - 1
  PROVE  /\ 5 * j - 1 \in 1..(5 * (n - 1)) /\ (5 * j - 1) + 2 = 5 * j + 1
         /\ 5 * j - 2 \in 1..(5 * (n - 1)) /\ (5 * j - 2) + 2 = 5 * j
BY SMT

LEMMA EarlyHeader ==
  ASSUME Types, NEW n \in Nat, Early(n), ReadHeader
  PROVE  Early(n)' /\ (NoName(n) => NoName(n)') /\ (NameLast(n) => NameLast(n)')
<1>1. /\ rx \in Seq(Byte) /\ Len(rx) = 5 * n /\ Len(rx) >= 3 /\ Gone = 0 /\ Gone' = 3
      /\ rx' = SubSeq(rx, 4, Len(rx)) /\ buffer' = << >> \o SubSeq(rx, 1, 3)
      /\ UNCHANGED tx
  BY DEF Early, Answers, Framed, ReadHeader, Read, Gone, Types
<1>2. n \in Nat /\ n >= 1 /\ 3 \in 0..Len(rx)
  BY <1>1, SMT
<1>3. /\ rx' \in Seq(Byte) /\ Len(rx') = 5 * n - 3
      /\ \A k \in 1..Len(rx') : rx'[k] = rx[k + 3]
  BY <1>1, <1>2, Taking, SMT
<1>4. /\ SubSeq(rx, 1, 3) \in Seq(Byte) /\ Len(SubSeq(rx, 1, 3)) = 3
      /\ SubSeq(rx, 1, 3)[3] = rx[3]
  BY <1>1, <1>2, Reads, SMT
<1>5. buffer' \in Seq(Byte) /\ Len(buffer') = 3 /\ buffer'[3] = rx[3]
  BY <1>1, <1>4, ConcatEmptySeq
<1>6. \A j \in 1..n : /\ Naming(j) = 5 * j - 1 /\ Naming(j)' = 5 * j - 4
                      /\ rx'[Naming(j)'] = rx[Naming(j)]
                      /\ j > 1 => rx'[Naming(j)' - 1] = rx[Naming(j) - 1]
  <2> SUFFICES ASSUME NEW j \in 1..n
               PROVE  /\ Naming(j) = 5 * j - 1 /\ Naming(j)' = 5 * j - 4
                      /\ rx'[Naming(j)'] = rx[Naming(j)]
                      /\ j > 1 => rx'[Naming(j)' - 1] = rx[Naming(j) - 1]
    OBVIOUS
  <2>1. Naming(j) = 5 * j - 1 /\ Naming(j)' = 5 * j - 4
    BY <1>1, SMT DEF Naming
  <2>2. rx'[5 * j - 4] = rx[5 * j - 1]
    <3>1. 5 * j - 4 \in 1..Len(rx') /\ (5 * j - 4) + 3 = 5 * j - 1
      BY <1>2, <1>3, HeaderShift
    <3>2. QED
      BY <1>3, <3>1
  <2>3. ASSUME j > 1 PROVE rx'[5 * j - 5] = rx[5 * j - 2]
    <3>1. 5 * j - 5 \in 1..Len(rx') /\ (5 * j - 5) + 3 = 5 * j - 2
      BY <1>2, <1>3, <2>3, HeaderShift
    <3>2. QED
      BY <1>3, <3>1
  <2>4. (5 * j - 4) - 1 = 5 * j - 5 /\ (5 * j - 1) - 1 = 5 * j - 2
    BY SMT
  <2>5. QED
    BY <2>1, <2>2, <2>3, <2>4
<1>7. rx[3] = 2
  <2>1. 1 \in 1..n /\ Naming(1) - 1 = 3
    BY <1>1, <1>2, SMT DEF Naming
  <2>2. QED
    BY <1>1, <2>1 DEF Early, Answers
<1>8. \A j \in 1..n : /\ rx[Naming(j) - 1] = 2
                      /\ rx[Naming(j)] \in {"reset", "name"}
  BY <1>1 DEF Early, Answers
<1>9. Answers(n)'
  <2>1. Framed' /\ Len(rx') = 5 * n - Gone'
    BY <1>1, <1>3, <1>5 DEF Framed
  <2>2. \A j \in 1..n : /\ j > 1 \/ Gone' = 0 => rx'[Naming(j)' - 1] = 2
                        /\ rx'[Naming(j)'] \in {"reset", "name"}
    <3> SUFFICES ASSUME NEW j \in 1..n
                 PROVE  /\ j > 1 \/ Gone' = 0 => rx'[Naming(j)' - 1] = 2
                        /\ rx'[Naming(j)'] \in {"reset", "name"}
      OBVIOUS
    <3>1. Gone' # 0
      BY <1>1, SMT
    <3>2. QED
      BY <1>6, <1>8, <3>1, Zenon
  <2>3. QED
    BY <2>1, <2>2 DEF Answers
<1>10. Early(n)'
  BY <1>5, <1>7, <1>9 DEF Early, Mode, ReadHeader
<1>11. QED
  BY <1>1, <1>6, <1>10 DEF NoName, NameLast

LEMMA EarlyPayload ==
  ASSUME Types, NEW n \in Nat, Early(n), ReadPayload
  PROVE  /\ n - 1 \in Nat /\ Early(n - 1)' /\ (NoName(n) => NoName(n - 1)')
         /\ NameLast(n) => /\ NameLast(n - 1)'
                           /\ buffer'[4] = "name" => tx' = << >> /\ rx' = << >>
<1>1. /\ rx \in Seq(Byte) /\ Len(rx) \in Nat /\ Len(rx) = 5 * n - 3 /\ Gone = 3 /\ Gone' = 0
      /\ buffer[3] = 2 /\ Len(buffer) = 3 /\ buffer \in Seq(Byte)
      /\ rx' = SubSeq(rx, 3, Len(rx)) /\ buffer' = buffer \o SubSeq(rx, 1, 2)
      /\ UNCHANGED tx /\ pc' = "answered"
  <2>1. pc = "payload" /\ pc' = "answered" /\ UNCHANGED tx
    BY DEF ReadPayload
  <2>2. Gone = 3 /\ Gone' = 0
    BY <2>1 DEF Gone
  <2>3. /\ rx \in Seq(Byte) /\ buffer[3] = 2 /\ Len(buffer) = 3 /\ buffer \in Seq(Byte)
        /\ Len(rx) = 5 * n - Gone
    BY <2>1 DEF Early, Answers, Framed
  <2>4. rx' = SubSeq(rx, buffer[3] + 1, Len(rx)) /\ buffer' = buffer \o SubSeq(rx, 1, buffer[3])
    BY DEF ReadPayload, Read
  <2>5. QED
    BY <2>1, <2>2, <2>3, <2>4, LenProperties
<1>2. n \in Nat /\ n >= 1 /\ n - 1 \in Nat /\ 2 \in 0..Len(rx)
  BY <1>1, SMT
<1>3. /\ rx' \in Seq(Byte) /\ Len(rx') = 5 * (n - 1)
      /\ \A k \in 1..Len(rx') : rx'[k] = rx[k + 2]
  BY <1>1, <1>2, Taking, SMTT(30)
<1>4. buffer'[4] = rx[1]
  <2> DEFINE s == SubSeq(rx, 1, 2)
  <2>1. s \in Seq(Byte) /\ Len(s) = 2 /\ s[1] = rx[1]
    BY <1>1, <1>2, Reads, SMT
  <2> HIDE DEF s
  <2>2. buffer \in Seq(Byte) /\ s \in Seq(Byte) /\ 1 \in 1..Len(s) /\ Len(buffer) + 1 = 4
    BY <1>1, <2>1, SMT
  <2>3. (buffer \o s)[Len(buffer) + 1] = s[1]
    BY ONLY <2>2, Behind
  <2>4. QED
    BY <1>1, <2>1, <2>2, <2>3, Zenon DEF s
<1>5. \A j \in 1..n - 1 : /\ j + 1 \in 1..n
                          /\ rx'[Naming(j)'] = rx[Naming(j + 1)]
                          /\ rx'[Naming(j)' - 1] = rx[Naming(j + 1) - 1]
  <2> SUFFICES ASSUME NEW j \in 1..n - 1
               PROVE  /\ j + 1 \in 1..n
                      /\ rx'[Naming(j)'] = rx[Naming(j + 1)]
                      /\ rx'[Naming(j)' - 1] = rx[Naming(j + 1) - 1]
    OBVIOUS
  <2>1. Naming(j + 1) = 5 * j + 1 /\ Naming(j)' = 5 * j - 1
    BY <1>1, SMT DEF Naming
  <2>2. rx'[5 * j - 1] = rx[5 * j + 1]
    <3>1. 5 * j - 1 \in 1..Len(rx') /\ (5 * j - 1) + 2 = 5 * j + 1
      BY <1>2, <1>3, PayloadShift
    <3>2. QED
      BY <1>3, <3>1
  <2>3. rx'[5 * j - 2] = rx[5 * j]
    <3>1. 5 * j - 2 \in 1..Len(rx') /\ (5 * j - 2) + 2 = 5 * j
      BY <1>2, <1>3, PayloadShift
    <3>2. QED
      BY <1>3, <3>1
  <2>4. (5 * j - 1) - 1 = 5 * j - 2 /\ (5 * j + 1) - 1 = 5 * j /\ j + 1 \in 1..n
    BY <1>2, SMT
  <2>5. QED
    BY <2>1, <2>2, <2>3, <2>4
<1>6. \A j \in 1..n : /\ j > 1 => rx[Naming(j) - 1] = 2
                      /\ rx[Naming(j)] \in {"reset", "name"}
  BY <1>1 DEF Early, Answers
<1>7. Answers(n - 1)'
  <2>1. Framed' /\ Len(rx') = 5 * (n - 1) - Gone'
    BY <1>1, <1>3, SMT DEF Framed
  <2>2. \A j \in 1..n - 1 : /\ rx'[Naming(j)' - 1] = 2
                            /\ rx'[Naming(j)'] \in {"reset", "name"}
    <3> SUFFICES ASSUME NEW j \in 1..n - 1
                 PROVE  rx'[Naming(j)' - 1] = 2 /\ rx'[Naming(j)'] \in {"reset", "name"}
      OBVIOUS
    <3>1. j + 1 \in 1..n /\ j + 1 > 1
      BY <1>5, SMT
    <3>2. QED
      BY <1>5, <1>6, <3>1
  <2>3. QED
    BY <2>1, <2>2 DEF Answers
<1>8. Early(n - 1)'
  BY <1>1, <1>7 DEF Early, Mode, ReadPayload
<1>9. NoName(n) => NoName(n - 1)'
  BY <1>1, <1>5 DEF NoName
<1>10. ASSUME NameLast(n) PROVE NameLast(n - 1)'
  <2>1. ASSUME NEW j \in 1..n - 1, rx'[Naming(j)'] = "name"
        PROVE  j = n - 1 /\ tx' = << >>
    <3>1. j + 1 = n /\ tx = << >>
      BY <1>5, <1>10, <2>1 DEF NameLast
    <3>2. QED
      BY <1>1, <1>2, <3>1, SMT
  <2>2. QED
    BY <1>1, <1>10, <2>1 DEF NameLast
<1>11. ASSUME NameLast(n), buffer'[4] = "name" PROVE tx' = << >> /\ rx' = << >>
  <2>1. 1 \in 1..n /\ Naming(1) = 1
    BY <1>1, <1>2, SMT DEF Naming
  <2>2. n = 1 /\ tx = << >>
    BY <1>4, <1>11, <2>1 DEF NameLast
  <2>3. Len(rx') = 0
    BY <1>3, <2>2, SMT
  <2>4. QED
    BY <1>1, <1>3, <2>2, <2>3, EmptySeq, SMT
<1>12. QED
  BY <1>2, <1>8, <1>9, <1>10, <1>11

LEMMA EarlyTake ==
  ASSUME Types, NEW n \in Nat, Early(n), NameLast(n), CtlTake
  PROVE  \E m \in Nat : Early(m)' /\ NameLast(m)' /\ (NoName(n) => NoName(m)')
<1>1. /\ tx \in Seq([cmd: Commands, speed: Speeds]) /\ tx # << >> /\ Len(tx) \in Nat \ {0}
      /\ tx' = Tail(tx) /\ Head(tx) = tx[1] /\ Gone \in {0, 3} /\ Gone' = Gone
      /\ pc' = pc /\ hspeed' = hspeed /\ local_name' = local_name /\ buffer' = buffer
  BY EmptySeq, HeadTailProperties DEF CtlTake, host, Types, Gone
<1>2. /\ Len(tx') = Len(tx) - 1
      /\ \A k \in 1..Len(tx') : tx'[k] = tx[k + 1] /\ k + 1 \in 1..Len(tx)
  <2>1. /\ Len(Tail(tx)) = Len(tx) - 1
        /\ \A k \in 1..Len(Tail(tx)) : Tail(tx)[k] = tx[k + 1]
    BY <1>1, HeadTailProperties, SMT
  <2>2. \A k \in 1..Len(tx) - 1 : k + 1 \in 1..Len(tx)
    BY <1>1, SMT
  <2>3. QED
    BY <1>1, <2>1, <2>2
<1>3. \A k \in 1..Len(tx') : /\ tx'[k].cmd \in {"reset", "name"} /\ tx'[k].speed = "115200"
                             /\ tx'[k].cmd = "name" => k = Len(tx')
  <2> SUFFICES ASSUME NEW k \in 1..Len(tx')
               PROVE  /\ tx'[k].cmd \in {"reset", "name"} /\ tx'[k].speed = "115200"
                      /\ tx'[k].cmd = "name" => k = Len(tx')
    OBVIOUS
  <2>1. tx'[k] = tx[k + 1] /\ k + 1 \in 1..Len(tx)
    BY <1>2
  <2>2. /\ tx[k + 1].cmd \in {"reset", "name"} /\ tx[k + 1].speed = "115200"
        /\ tx[k + 1].cmd = "name" => k + 1 = Len(tx)
    BY <2>1 DEF Early, NameLast
  <2>3. k + 1 = Len(tx) => k = Len(tx')
    <3>1. PICK l \in Nat : Len(tx) = l /\ Len(tx') = l - 1
      BY <1>1, <1>2
    <3>2. k + 1 = l => k = l - 1
      BY SMT
    <3>3. QED
      BY <3>1, <3>2, SMTT(30)
  <2>4. QED
    BY <2>1, <2>2, <2>3
<1>4. NoName(n) => \A k \in 1..Len(tx') : tx'[k].cmd # "name"
  BY <1>2 DEF NoName
<1> DEFINE c == Head(tx).cmd
<1>5. /\ c \in {"reset", "name"} /\ Head(tx).speed = "115200" /\ (c = "name" => Len(tx) = 1)
      /\ NoName(n) => c # "name"
  <2>1. 1 \in 1..Len(tx)
    BY <1>1, SMT
  <2>2. QED
    BY <1>1, <2>1 DEF Early, NameLast, NoName
<1>6. ASSUME UNCHANGED <<rx, ctl>> \/ (UNCHANGED rx /\ ctl' = [ctl EXCEPT !.asleep = @ - 1])
      PROVE  Early(n)' /\ NameLast(n)' /\ (NoName(n) => NoName(n)')
  <2>1. /\ ctl'.mode = ctl.mode /\ ctl'.packets = ctl.packets /\ ctl'.torn = ctl.torn
        /\ ctl'.two = ctl.two /\ ctl'.speed = ctl.speed /\ rx' = rx
    BY <1>6 DEF Types, Known
  <2>2. \A j \in 1..n : Naming(j)' = Naming(j)
    BY <1>1 DEF Naming
  <2>3. Answers(n)'
    BY <1>1, <2>1, <2>2 DEF Early, Answers, Framed
  <2>4. Early(n)'
    BY <1>1, <1>3, <2>1, <2>3 DEF Early, Mode
  <2>5. \A j \in 1..n : rx'[Naming(j)'] = "name" => j = n /\ tx' = << >>
    BY <1>1, <2>1, <2>2 DEF NameLast
  <2>6. NoName(n) => \A j \in 1..n : rx'[Naming(j)'] # "name"
    BY <2>1, <2>2 DEF NoName
  <2>7. QED
    BY <1>3, <1>4, <2>4, <2>5, <2>6 DEF NameLast, NoName
<1>7. ASSUME NEW ok \in BOOLEAN, ctl' = After(c, ok),
             rx' = rx \o Event(c, IF ok THEN 0 ELSE 1)
      PROVE  Early(n + 1)' /\ NameLast(n + 1)' /\ (NoName(n) => NoName(n + 1)')
  <2>1. /\ ctl'.mode = "rom" /\ ctl'.packets = 0 /\ ~ctl'.torn /\ ctl'.two = 0
        /\ ctl'.speed = "115200"
    BY <1>5, <1>7, AfterTyped, ZenonT(60) DEF Types, Early, Mode
  <2>2. /\ rx \in Seq(Byte) /\ Len(rx) \in Nat /\ Len(rx) = 5 * n - Gone
    BY LenProperties DEF Early, Answers, Framed
  <2>3. c \in Commands /\ (IF ok THEN 0 ELSE 1) \in {0, 1}
    BY <1>5 DEF Commands
  <2>4. /\ rx' \in Seq(Byte) /\ Len(rx') = Len(rx) + 5
        /\ \A k \in 1..Len(rx) : rx'[k] = rx[k]
        /\ rx'[Len(rx) + 3] = 2 /\ rx'[Len(rx) + 4] = c
    BY <1>7, <2>2, <2>3, Answer, ZenonT(60)
  <2>5. \A j \in 1..n : /\ Naming(j)' = Naming(j) /\ rx'[Naming(j)'] = rx[Naming(j)]
                        /\ j > 1 \/ Gone = 0 => rx'[Naming(j)' - 1] = rx[Naming(j) - 1]
    <3> SUFFICES ASSUME NEW j \in 1..n
                 PROVE  /\ Naming(j)' = Naming(j) /\ rx'[Naming(j)'] = rx[Naming(j)]
                        /\ j > 1 \/ Gone = 0 => rx'[Naming(j)' - 1] = rx[Naming(j) - 1]
      OBVIOUS
    <3>1. Naming(j)' = Naming(j)
      BY <1>1 DEF Naming
    <3>2. Naming(j) \in 1..Len(rx) /\ (j > 1 \/ Gone = 0 => Naming(j) - 1 \in 1..Len(rx))
      BY <1>1, <2>2, SMT DEF Naming
    <3>3. QED
      BY <2>4, <3>1, <3>2
  <2>6. Naming(n + 1)' = Len(rx) + 4 /\ Naming(n + 1)' - 1 = Len(rx) + 3
    BY <1>1, <2>2, SMT DEF Naming
  <2>7. \A j \in 1..n + 1 : j \in 1..n \/ j = n + 1
    BY SMT
  <2>8. Answers(n + 1)'
    <3>1. Framed' /\ Len(rx') = 5 * (n + 1) - Gone'
      BY <1>1, <2>2, <2>4, SMT DEF Framed, Early, Answers
    <3>2. \A j \in 1..n : /\ j > 1 \/ Gone = 0 => rx[Naming(j) - 1] = 2
                          /\ rx[Naming(j)] \in {"reset", "name"}
      BY DEF Early, Answers
    <3>3. \A j \in 1..n + 1 : /\ j > 1 \/ Gone' = 0 => rx'[Naming(j)' - 1] = 2
                              /\ rx'[Naming(j)'] \in {"reset", "name"}
      BY <1>1, <1>5, <2>4, <2>5, <2>6, <2>7, <3>2
    <3>4. QED
      BY <3>1, <3>3 DEF Answers
  <2>9. Early(n + 1)'
    BY <1>1, <1>3, <2>1, <2>8 DEF Early, Mode
  <2>10. \A j \in 1..n + 1 : rx'[Naming(j)'] = "name" => j = n + 1 /\ tx' = << >>
    <3>1. \A j \in 1..n : rx[Naming(j)] # "name"
      BY <1>1 DEF NameLast
    <3>2. c = "name" => tx' = << >>
      BY <1>1, <1>5, <1>2, EmptySeq, SMT
    <3>3. QED
      BY <2>4, <2>5, <2>6, <2>7, <3>1, <3>2
  <2>11. NoName(n) => \A j \in 1..n + 1 : rx'[Naming(j)'] # "name"
    BY <1>5, <2>4, <2>5, <2>6, <2>7 DEF NoName
  <2>12. QED
    BY <1>3, <1>4, <2>9, <2>10, <2>11 DEF NameLast, NoName
<1>8. \/ UNCHANGED <<rx, ctl>>
      \/ UNCHANGED rx /\ ctl' = [ctl EXCEPT !.asleep = @ - 1]
      \/ \E ok \in BOOLEAN : ctl' = After(c, ok) /\ rx' = rx \o Event(c, IF ok THEN 0 ELSE 1)
  BY Zenon DEF CtlTake, Early
<1>9. n + 1 \in Nat
  OBVIOUS
<1>10. QED
  BY <1>6, <1>7, <1>8, <1>9, Zenon

(* The steps of the program.                                               *)
LEMMA Steps ==
  ASSUME NEW o \in OptionType
  PROVE  /\ Start(o) # << >> /\ Head(Start(o)) = "reset" /\ Tail(Start(o)) = AfterReset(o)
         /\ AfterReset(o) # << >> /\ Head(AfterReset(o)) = "name"
         /\ Tail(AfterReset(o)) = Named(o)
         /\ Named(o) # << >> /\ Head(Named(o)) = "open" /\ Tail(Named(o)) = Opened(o)
         /\ LET s == <<"baud">> \o Download(o) IN
              s # << >> /\ Head(s) = "baud" /\ Tail(s) = Download(o)
         /\ Download(o) # << >> /\ Head(Download(o)) = "minidriver"
         /\ Tail(Download(o)) = AfterMini(o)
         /\ LET s == <<"two">> \o Pieces(o, Packets) IN
              s # << >> /\ Head(s) = "two" /\ Tail(s) = Pieces(o, Packets)
         /\ LET s == <<"slow">> \o Final(o) IN
              s # << >> /\ Head(s) = "slow" /\ Tail(s) = Final(o)
         /\ Final(o) # << >> /\ Head(Final(o)) = "reset" /\ Tail(Final(o)) = Rest(o)
<1>1. /\ "reset" \in Ops /\ "name" \in Ops /\ "open" \in Ops /\ "baud" \in Ops
      /\ "minidriver" \in Ops /\ "two" \in Ops /\ "slow" \in Ops
  BY DEF Ops, RestOps
<1>2. /\ AfterReset(o) \in Seq(Ops) /\ Named(o) \in Seq(Ops) /\ Opened(o) \in Seq(Ops)
      /\ Download(o) \in Seq(Ops) /\ AfterMini(o) \in Seq(Ops) /\ Pieces(o, Packets) \in Seq(Ops)
      /\ Final(o) \in Seq(Ops) /\ Rest(o) \in Seq(Ops)
  BY Typed, BoundsAssumption
<1>3. Start(o) # << >> /\ Head(Start(o)) = "reset" /\ Tail(Start(o)) = AfterReset(o)
  BY <1>1, <1>2, HeadTail DEF Start
<1>4. /\ AfterReset(o) # << >> /\ Head(AfterReset(o)) = "name"
      /\ Tail(AfterReset(o)) = Named(o)
  BY <1>1, <1>2, HeadTail DEF AfterReset
<1>5. Named(o) # << >> /\ Head(Named(o)) = "open" /\ Tail(Named(o)) = Opened(o)
  BY <1>1, <1>2, HeadTail DEF Named
<1>6. LET s == <<"baud">> \o Download(o) IN
        s # << >> /\ Head(s) = "baud" /\ Tail(s) = Download(o)
  BY <1>1, <1>2, HeadTail
<1>7. /\ Download(o) # << >> /\ Head(Download(o)) = "minidriver"
      /\ Tail(Download(o)) = AfterMini(o)
  BY <1>1, <1>2, HeadTail DEF Download
<1>8. LET s == <<"two">> \o Pieces(o, Packets) IN
        s # << >> /\ Head(s) = "two" /\ Tail(s) = Pieces(o, Packets)
  BY <1>1, <1>2, HeadTail
<1>9. LET s == <<"slow">> \o Final(o) IN
        s # << >> /\ Head(s) = "slow" /\ Tail(s) = Final(o)
  BY <1>1, <1>2, HeadTail
<1>10. Final(o) # << >> /\ Head(Final(o)) = "reset" /\ Tail(Final(o)) = Rest(o)
  BY <1>1, <1>2, HeadTail DEF Final
<1>11. QED
  BY <1>3, <1>4, <1>5, <1>6, <1>7, <1>8, <1>9, <1>10, Zenon

LEMMA Forks ==
  ASSUME NEW o \in OptionType
  PROVE  /\ Opened(o) \in {<<"baud">> \o Download(o), Download(o)}
         /\ AfterMini(o) \in {<<"two">> \o Pieces(o, Packets), Pieces(o, Packets)}
         /\ Slowed(o) \in {<<"slow">> \o Final(o), Final(o)}
<1>1. /\ << >> \o Download(o) = Download(o) /\ << >> \o Final(o) = Final(o)
      /\ << >> \o Pieces(o, Packets) = Pieces(o, Packets)
  BY Typed, BoundsAssumption, ConcatEmptySeq
<1>2. Opened(o) \in {<<"baud">> \o Download(o), Download(o)}
  BY <1>1 DEF Opened, If
<1>3. AfterMini(o) \in {<<"two">> \o Pieces(o, Packets), Pieces(o, Packets)}
  BY <1>1 DEF AfterMini, If
<1>4. Slowed(o) \in {<<"slow">> \o Final(o), Final(o)}
  BY <1>1 DEF Slowed, If
<1>5. QED
  BY <1>2, <1>3, <1>4

LEMMA StartingStep == ASSUME Types, Starting, Alarm, [Next]_vars PROVE Starting' \/ Asking'
<1>1. /\ prog = Start(opt) /\ prog # << >> /\ Op = "reset" /\ Tail(prog) = AfterReset(opt)
      /\ opt' = opt
  BY Steps, SameController DEF Starting, Types, Op
<1>2. PICK n \in Nat : Early(n) /\ NoName(n) /\ pc # "ended"
  BY DEF Starting
<1>3. NameLast(n)
  BY <1>2 DEF NoName, NameLast
<1>4. CASE SendCmd
  <2>1. /\ hci_send_cmd("reset") /\ UNCHANGED <<rx, ctl, hspeed, local_name, prog>>
        /\ pc = "begin" /\ pc' = "header"
    BY <1>1, <1>4 DEF SendCmd
  <2>2. Gone' = Gone /\ Framed'
    BY <1>2, <2>1 DEF Gone, Framed, Early, Answers
  <2>3. Early(n)' /\ NoName(n)'
    BY <1>2, <2>1, <2>2, EarlySend
  <2>4. QED
    BY <1>1, <2>1, <2>3 DEF Starting
<1>5. CASE Expired
  <2>1. /\ hci_send_cmd("reset") /\ UNCHANGED <<rx, ctl, hspeed, local_name, prog, pc, buffer>>
    BY <1>5 DEF Expired, host
  <2>2. Gone' = Gone /\ Framed'
    BY <1>2, <2>1 DEF Gone, Framed, Early, Answers
  <2>3. Early(n)' /\ NoName(n)'
    BY <1>2, <2>1, <2>2, EarlySend
  <2>4. QED
    BY <1>1, <1>2, <2>1, <2>3 DEF Starting
<1>6. CASE ReadHeader
  <2>1. Early(n)' /\ NoName(n)'
    BY <1>2, <1>6, EarlyHeader
  <2>2. QED
    BY <1>1, <1>6, <2>1 DEF Starting, ReadHeader
<1>7. CASE ReadPayload
  <2>1. n - 1 \in Nat /\ Early(n - 1)' /\ NoName(n - 1)'
    BY <1>2, <1>7, EarlyPayload
  <2>2. QED
    BY <1>1, <1>7, <2>1 DEF Starting, ReadPayload
<1>8. CASE Answered
  <2>1. /\ prog' = AfterReset(opt) /\ pc' = "begin" /\ ~armed' /\ local_name' = local_name
        /\ UNCHANGED <<tx, rx, ctl, buffer>> /\ hspeed' = hspeed /\ pc = "answered"
    BY <1>1, <1>8 DEF Answered, Done, Disarm
  <2>2. Gone = 0 /\ Gone' = 0
    BY <2>1 DEF Gone
  <2>3. Early(n)' /\ NoName(n)'
    BY <1>2, <2>1, <2>2 DEF Early, NoName, Answers, Naming, Framed, Mode
  <2>4. QED
    BY <1>1, <2>1, <2>3 DEF Asking
<1>9. CASE CtlTake
  <2>1. PICK m \in Nat : Early(m)' /\ NoName(m)'
    BY <1>2, <1>3, <1>9, EarlyTake
  <2>2. QED
    BY <1>1, <1>2, <1>9, <2>1 DEF Starting, CtlTake, host
<1>10. CASE CtlConfirm
  BY <1>2, <1>10, SMT DEF CtlConfirm, Early
<1>11. CASE OpenPatchram \/ ReadTwo \/ SlowDown \/ Leave
  BY <1>1, <1>11 DEF OpenPatchram, ReadTwo, SlowDown, Leave
<1>12. CASE UNCHANGED vars
  BY <1>2, <1>12 DEF vars, host, Starting, Early, NoName, Answers, Naming, Gone, Framed, Mode
<1>13. QED
  BY <1>4, <1>5, <1>6, <1>7, <1>8, <1>9, <1>10, <1>11, <1>12 DEF Next, Host, Ended


LEMMA AskingStep == ASSUME Types, Asking, [Next]_vars PROVE Asking' \/ Opening'
<1>1. /\ prog = AfterReset(opt) /\ prog # << >> /\ Op = "name" /\ Tail(prog) = Named(opt)
      /\ opt' = opt
  BY Steps, SameController DEF Asking, Types, Op
<1>2. PICK n \in Nat : /\ Early(n) /\ pc # "ended" /\ ~armed
                       /\ IF pc = "begin" THEN NoName(n) ELSE NameLast(n)
                       /\ pc = "answered" /\ buffer[4] = "name" => tx = << >> /\ rx = << >>
  BY DEF Asking
<1>3. NameLast(n)
  BY <1>2 DEF NoName, NameLast
<1>4. CASE SendCmd
  <2>1. /\ hci_send_cmd("name") /\ UNCHANGED <<rx, ctl, hspeed, local_name, prog>>
        /\ pc = "begin" /\ pc' = "header" /\ ~armed'
    BY <1>1, <1>2, <1>4 DEF SendCmd
  <2>2. Gone' = Gone /\ Framed'
    BY <1>2, <2>1 DEF Gone, Framed, Early, Answers
  <2>3. Early(n)' /\ NameLast(n)'
    BY <1>2, <2>1, <2>2, EarlySend
  <2>4. QED
    BY <1>1, <2>1, <2>3 DEF Asking
<1>5. CASE Expired
  BY <1>2, <1>5 DEF Expired
<1>6. CASE ReadHeader
  <2>1. Early(n)' /\ NameLast(n)'
    BY <1>2, <1>3, <1>6, EarlyHeader
  <2>2. QED
    BY <1>1, <1>2, <1>6, <2>1 DEF Asking, ReadHeader
<1>7. CASE ReadPayload
  <2>1. /\ n - 1 \in Nat /\ Early(n - 1)' /\ NameLast(n - 1)'
        /\ buffer'[4] = "name" => tx' = << >> /\ rx' = << >>
    BY <1>2, <1>3, <1>7, EarlyPayload
  <2>2. QED
    BY <1>1, <1>2, <1>7, <2>1 DEF Asking, ReadPayload
<1>8. CASE Answered
  <2>1. /\ prog' = Named(opt) /\ pc' = "begin" /\ ~armed' /\ pc = "answered"
        /\ UNCHANGED <<tx, rx, ctl>>
        /\ local_name' = IF buffer[4] = "name" THEN "chip" ELSE local_name
    BY <1>1, <1>2, <1>8 DEF Answered, Done, Disarm
  <2>2. local_name' = "chip" => Clean
    BY <1>2, <2>1 DEF Clean, Early
  <2>3. QED
    BY <1>1, <1>2, <2>1, <2>2 DEF Opening, Early, Mode, Clean
<1>9. CASE CtlTake
  <2>1. PICK m \in Nat : Early(m)' /\ NameLast(m)' /\ (NoName(n) => NoName(m)')
    BY <1>2, <1>3, <1>9, EarlyTake
  <2>2. tx # << >> /\ UNCHANGED <<prog, pc, armed, buffer>>
    BY <1>9 DEF CtlTake, host
  <2>3. QED
    BY <1>1, <1>2, <2>1, <2>2 DEF Asking
<1>10. CASE CtlConfirm
  BY <1>2, <1>10, SMT DEF CtlConfirm, Early
<1>11. CASE OpenPatchram \/ ReadTwo \/ SlowDown \/ Leave
  BY <1>1, <1>11 DEF OpenPatchram, ReadTwo, SlowDown, Leave
<1>12. CASE UNCHANGED vars
  BY <1>2, <1>12 DEF vars, host, Asking, Early, NoName, NameLast, Answers, Naming, Gone, Framed,
                     Mode
<1>13. QED
  BY <1>4, <1>5, <1>6, <1>7, <1>8, <1>9, <1>10, <1>11, <1>12 DEF Next, Host, Ended

(* The file is opened with a clean line, or the program ends.              *)
LEMMA OpeningTake == ASSUME Types, Opening, CtlTake PROVE Opening'
<1>1. /\ tx \in Seq([cmd: Commands, speed: Speeds]) /\ tx # << >> /\ Len(tx) \in Nat \ {0}
      /\ tx' = Tail(tx) /\ Head(tx) = tx[1] /\ UNCHANGED <<prog, opt, pc, armed, local_name>>
  BY EmptySeq, HeadTailProperties DEF CtlTake, host, Types
<1>2. \A k \in 1..Len(tx') : tx'[k] = tx[k + 1] /\ k + 1 \in 1..Len(tx)
  <2>1. /\ Len(Tail(tx)) = Len(tx) - 1
        /\ \A k \in 1..Len(Tail(tx)) : Tail(tx)[k] = tx[k + 1]
    BY <1>1, HeadTailProperties, SMT
  <2>2. \A k \in 1..Len(tx) - 1 : k + 1 \in 1..Len(tx)
    BY <1>1, SMT
  <2>3. QED
    BY <1>1, <2>1, <2>2
<1>3. \A k \in 1..Len(tx') : tx'[k].cmd \in {"reset", "name"}
  BY <1>2 DEF Opening
<1>4. Head(tx).cmd \in {"reset", "name"}
  <2>1. 1 \in 1..Len(tx)
    BY <1>1, SMT
  <2>2. QED
    BY <1>1, <2>1 DEF Opening
<1>5. ~Clean
  BY <1>1 DEF Clean
<1>6. Mode("rom", 0)'
  <2>1. CASE UNCHANGED ctl
    BY <2>1 DEF Opening, Mode
  <2>2. CASE ctl' = [ctl EXCEPT !.asleep = @ - 1]
    BY <2>2 DEF Opening, Mode, Types, Known
  <2>3. ASSUME NEW ok \in BOOLEAN, ctl' = After(Head(tx).cmd, ok) PROVE Mode("rom", 0)'
    BY <1>4, <2>3, AfterTyped DEF Opening, Mode, Types
  <2>4. QED
    BY <2>1, <2>2, <2>3, Zenon DEF CtlTake
<1>7. QED
  BY <1>1, <1>3, <1>5, <1>6 DEF Opening

LEMMA OpeningStep == ASSUME Types, Opening, [Next]_vars PROVE Opening' \/ Speeding' \/ Loading'
<1>1. /\ prog = Named(opt) /\ prog # << >> /\ Op = "open" /\ Tail(prog) = Opened(opt)
      /\ opt' = opt /\ opt \in OptionType
  BY Steps, SameController DEF Opening, Types, Op
<1>2. CASE CtlTake
  BY <1>2, OpeningTake
<1>3. CASE CtlConfirm
  BY <1>1, <1>3, SMT DEF CtlConfirm, host, Opening, Clean, Mode, Types, Known
<1>4. CASE Expired
  BY <1>4 DEF Expired, Opening
<1>5. CASE UNCHANGED vars
  BY <1>5 DEF vars, host, Opening, Mode, Clean
<1>6. CASE OpenPatchram /\ local_name # "chip"
  BY <1>1, <1>6 DEF OpenPatchram, Opening, Mode
<1>7. CASE OpenPatchram /\ local_name = "chip" /\ pc' = "ended"
  BY <1>1, <1>7 DEF OpenPatchram, Opening, Mode, Done
<1>8. CASE OpenPatchram /\ local_name = "chip" /\ pc' = "begin"
  <2>1. /\ prog' = Opened(opt) /\ ~armed' /\ UNCHANGED <<tx, rx, ctl>> /\ Clean
        /\ Mode("rom", 0)
    BY <1>1, <1>8 DEF OpenPatchram, Opening, Done
  <2>2. Before(0, "rom", 0)' /\ tx' = << >>
    <3>1. << >> \in Seq(Byte) /\ Len(<< >>) = 0
      BY EmptySeq
    <3>2. rx' = << >> /\ ctl'.two = 0 /\ tx' = << >> /\ Mode("rom", 0)'
      BY <2>1 DEF Clean, Mode
    <3>3. Zero(1)'
      BY <3>1, <3>2, SMT DEF Zero
    <3>4. QED
      BY <3>1, <3>2, <3>3, SMT DEF Before
  <2>3. CASE Opened(opt) = <<"baud">> \o Download(opt)
    <3>1. prog' = <<"baud">> \o Download(opt') /\ Head(prog') = "baud"
      BY <1>1, <2>1, <2>3, Steps
    <3>2. QED
      BY <1>8, <2>1, <2>2, <3>1 DEF Speeding, Doing, Op
  <2>4. CASE Opened(opt) = Download(opt)
    <3>1. prog' = Download(opt') /\ Head(prog') = "minidriver"
      BY <1>1, <2>1, <2>4, Steps
    <3>2. QED
      BY <1>8, <2>1, <2>2, <3>1 DEF Loading, Doing, Op
  <2>5. QED
    BY <1>1, <2>3, <2>4, Forks
<1>9. CASE SendCmd \/ ReadHeader \/ ReadPayload \/ Answered \/ ReadTwo \/ SlowDown \/ Leave
  BY <1>1, <1>9 DEF SendCmd, ReadHeader, ReadPayload, Answered, ReadTwo, SlowDown, Leave,
                    Opening, Commands
<1>10. OpenPatchram => pc' \in {"begin", "ended"}
  BY DEF OpenPatchram, Done
<1>11. QED
  BY <1>2, <1>3, <1>4, <1>5, <1>6, <1>7, <1>8, <1>9, <1>10 DEF Next, Host, Ended


(* One byte of the confirmation, behind whatever is on the line.           *)
LEMMA Confirming ==
  ASSUME Types, rx \in Seq(Byte), CtlConfirm
  PROVE  /\ rx' \in Seq(Byte) /\ Len(rx') = Len(rx) + 1 /\ rx'[Len(rx) + 1] = 0
         /\ \A k \in 1..Len(rx) : rx'[k] = rx[k]
         /\ Len(rx') + ctl'.two = Len(rx) + ctl.two
         /\ ctl'.mode = ctl.mode /\ ctl'.packets = ctl.packets /\ ctl'.torn = ctl.torn
         /\ ctl'.is = ctl.is
         /\ UNCHANGED <<opt, prog, pc, buffer, hspeed, armed, tx>>
<1>1. /\ rx' = Append(rx, 0) /\ 0 \in Byte
      /\ UNCHANGED <<opt, prog, pc, buffer, hspeed, armed, tx>>
  BY DEF CtlConfirm, host, Byte
<1>2. /\ rx' \in Seq(Byte) /\ Len(rx') = Len(rx) + 1 /\ rx'[Len(rx) + 1] = 0
      /\ \A k \in 1..Len(rx) : rx'[k] = rx[k]
  BY <1>1, AppendProperties
<1>3. /\ ctl'.two = ctl.two - 1 /\ ctl'.mode = ctl.mode /\ ctl'.packets = ctl.packets
      /\ ctl'.torn = ctl.torn /\ ctl'.is = ctl.is
  BY DEF CtlConfirm, Types, Known
<1>4. Len(rx') + ctl'.two = Len(rx) + ctl.two
  <2>1. Len(rx) \in Nat /\ ctl.two \in 0..2
    BY LenProperties DEF Types, Known
  <2>2. QED
    BY <1>2, <1>3, <2>1, SMTT(30)
<1>5. QED
  BY <1>1, <1>2, <1>3, <1>4

LEMMA ConfirmBefore ==
  ASSUME Types, NEW a \in 0..2, NEW m, NEW n, Before(a, m, n), CtlConfirm
  PROVE  Before(a, m, n)'
<1>1. rx \in Seq(Byte) /\ Len(rx) \in Nat
  BY LenProperties DEF Before
<1>2. /\ rx' \in Seq(Byte) /\ Len(rx') = Len(rx) + 1 /\ rx'[Len(rx) + 1] = 0
      /\ \A k \in 1..Len(rx) : rx'[k] = rx[k]
      /\ Len(rx') + ctl'.two = Len(rx) + ctl.two
      /\ ctl'.mode = ctl.mode /\ ctl'.packets = ctl.packets /\ ctl'.torn = ctl.torn
  BY <1>1, Confirming
<1>3. \A k \in 1..Len(rx') : k \in 1..Len(rx) \/ k = Len(rx) + 1
  BY <1>1, <1>2, SMT
<1>4. Zero(1)'
  BY <1>2, <1>3 DEF Zero, Before
<1>5. QED
  BY <1>2, <1>4 DEF Before, Mode

LEMMA ConfirmAnswering ==
  ASSUME Types, NEW a \in 0..2, NEW b \in 0..2, Answering(a, b), CtlConfirm
  PROVE  Answering(a, b)'
<1>1. rx \in Seq(Byte) /\ Len(rx) \in Nat /\ Len(rx) >= a + 5
  BY LenProperties DEF Answering
<1>2. /\ rx' \in Seq(Byte) /\ Len(rx') = Len(rx) + 1 /\ rx'[Len(rx) + 1] = 0
      /\ \A k \in 1..Len(rx) : rx'[k] = rx[k]
      /\ Len(rx') + ctl'.two = Len(rx) + ctl.two
  BY <1>1, Confirming
<1>3. /\ \A k \in 1..a : k \in 1..Len(rx)
      /\ a + 1 \in 1..Len(rx) /\ a + 2 \in 1..Len(rx) /\ a + 3 \in 1..Len(rx)
      /\ \A k \in a + 6..Len(rx') : (k \in 1..Len(rx) /\ k \in a + 6..Len(rx)) \/ k = Len(rx) + 1
      /\ Len(rx') >= a + 5
  BY <1>1, <1>2, SMT
<1>4. Zero(a + 6)'
  BY <1>2, <1>3 DEF Zero, Answering
<1>5. (\A k \in 1..a : rx'[k] = 0) /\ rx'[a + 1] = 4 /\ rx'[a + 2] = 14 /\ rx'[a + 3] = 2
  BY <1>2, <1>3 DEF Answering
<1>6. Len(rx') + ctl'.two = a + 5 + b
  BY <1>2 DEF Answering
<1>7. QED
  BY <1>2, <1>3, <1>4, <1>5, <1>6 DEF Answering

LEMMA ConfirmReading ==
  ASSUME Types, NEW a \in 0..2, NEW b \in 0..2, Reading(a, b), CtlConfirm
  PROVE  Reading(a, b)'
<1>1. rx \in Seq(Byte) /\ Len(rx) \in Nat /\ Len(rx) >= a + 2
  BY LenProperties DEF Reading
<1>2. /\ rx' \in Seq(Byte) /\ Len(rx') = Len(rx) + 1 /\ rx'[Len(rx) + 1] = 0
      /\ \A k \in 1..Len(rx) : rx'[k] = rx[k]
      /\ Len(rx') + ctl'.two = Len(rx) + ctl.two /\ buffer' = buffer
  BY <1>1, Confirming
<1>3. /\ \A k \in 3..Len(rx') : (k \in 1..Len(rx) /\ k \in 3..Len(rx)) \/ k = Len(rx) + 1
      /\ Len(rx') >= a + 2
  BY <1>1, <1>2, SMT
<1>4. Zero(3) => Zero(3)'
  BY <1>2, <1>3 DEF Zero
<1>5. QED
  BY <1>2, <1>3, <1>4 DEF Reading

(* The three bytes and the rest of an answer that a bytes stand before.    *)
LEMMA ReadAnswer ==
  ASSUME Types, NEW a \in 0..2, NEW b \in 0..2, Answering(a, b), ReadHeader
  PROVE  Reading(a, b)'
<1>1. /\ rx \in Seq(Byte) /\ Len(rx) \in Nat /\ Len(rx) >= a + 5
      /\ rx' = SubSeq(rx, 4, Len(rx)) /\ buffer' = << >> \o SubSeq(rx, 1, 3)
      /\ ctl' = ctl
  <2>1. rx \in Seq(Byte) /\ Len(rx) >= a + 5
    BY DEF Answering
  <2>2. buffer = << >> /\ ctl' = ctl
    BY DEF ReadHeader, Types
  <2>3. rx' = SubSeq(rx, 3 + 1, Len(rx)) /\ buffer' = buffer \o SubSeq(rx, 1, 3)
    BY DEF ReadHeader, Read
  <2>4. 3 + 1 = 4
    BY SMT
  <2>5. QED
    BY <2>1, <2>2, <2>3, <2>4, LenProperties, Zenon
<1>2. 3 \in 0..Len(rx)
  BY <1>1, SMT
<1>3. /\ rx' \in Seq(Byte) /\ Len(rx') = Len(rx) - 3
      /\ \A k \in 1..Len(rx') : rx'[k] = rx[k + 3]
  BY <1>1, <1>2, Taking, SMT
<1>4. /\ SubSeq(rx, 1, 3) \in Seq(Byte) /\ SubSeq(rx, 1, 3)[3] = rx[3]
  BY <1>1, <1>2, Reads, SMT
<1>5. buffer'[3] = rx[3]
  BY <1>1, <1>4, ConcatEmptySeq
<1>6. rx[3] = (IF a = 0 THEN 2 ELSE IF a = 1 THEN 14 ELSE 4)
  <2>1. CASE a = 0
    <3>1. a + 3 = 3
      BY <2>1, SMT
    <3>2. QED
      BY <2>1, <3>1 DEF Answering
  <2>2. CASE a = 1
    <3>1. a + 2 = 3 /\ a # 0
      BY <2>2, SMT
    <3>2. QED
      BY <2>2, <3>1 DEF Answering
  <2>3. CASE a = 2
    <3>1. a + 1 = 3 /\ a # 0 /\ a # 1
      BY <2>3, SMT
    <3>2. QED
      BY <2>3, <3>1 DEF Answering
  <2>4. QED
    BY <2>1, <2>2, <2>3, SMT
<1>7. ASSUME a = 0 PROVE Zero(3)'
  <2>1. \A k \in 3..Len(rx') : k \in 1..Len(rx') /\ k + 3 \in a + 6..Len(rx)
    BY <1>1, <1>3, <1>7, SMT
  <2>2. QED
    BY <1>3, <2>1 DEF Zero, Answering
<1>8. Len(rx') >= a + 2 /\ Len(rx') + ctl'.two = a + 2 + b
  <2>1. ctl.two \in 0..2 /\ Len(rx) + ctl.two = a + 5 + b
    BY DEF Types, Known, Answering
  <2>2. QED
    BY <1>1, <1>3, <2>1, SMTT(30)
<1>9. QED
  BY <1>3, <1>5, <1>6, <1>7, <1>8 DEF Reading

LEMMA ReadRest ==
  ASSUME Types, NEW a \in 0..2, NEW b \in {0, 2}, a = 0 \/ b = 0, Reading(a, b), ReadPayload,
         NEW m, NEW n, Mode(m, n)
  PROVE  Before(b, m, n)'
<1>1. /\ rx \in Seq(Byte) /\ Len(rx) \in Nat /\ Len(rx) >= a + 2 /\ ctl.two \in 0..2
      /\ Len(rx) + ctl.two = a + 2 + b
      /\ buffer[3] = (IF a = 0 THEN 2 ELSE IF a = 1 THEN 14 ELSE 4)
      /\ Len(rx) >= buffer[3] /\ rx' = SubSeq(rx, buffer[3] + 1, Len(rx)) /\ ctl' = ctl
  BY LenProperties DEF Reading, ReadPayload, Read, Types, Known
<1>2. PICK l \in Nat : l = Len(rx) /\ l >= a + 2 /\ l + ctl.two = a + 2 + b
  BY <1>1
<1>3. CASE a = 0
  <2>1. 2 \in 0..Len(rx) /\ buffer[3] = 2
    BY <1>1, <1>3, SMT
  <2>2. /\ rx' \in Seq(Byte) /\ Len(rx') = Len(rx) - 2
        /\ \A k \in 1..Len(rx') : rx'[k] = rx[k + 2]
    <3>1. rx' = SubSeq(rx, 2 + 1, Len(rx)) /\ rx \in Seq(Byte)
      BY <1>1, <2>1
    <3>2. QED
      BY ONLY <2>1, <3>1, Taking
  <2>3. Len(rx') + ctl'.two = b
    BY <1>1, <1>2, <1>3, <2>2, SMT
  <2>4. \A k \in 1..Len(rx') : k + 2 \in 3..Len(rx)
    BY <1>2, <2>2, SMT
  <2>5. Zero(1)'
    BY <1>3, <2>2, <2>4 DEF Zero, Reading
  <2>6. QED
    BY <1>1, <2>2, <2>3, <2>5 DEF Before, Mode
<1>4. CASE a = 1
  <2>1. Len(rx) >= 14
    BY <1>1, <1>4, SMT
  <2>2. QED
    BY <1>1, <1>2, <1>4, <2>1, SMT
<1>5. CASE a = 2
  <2>1. buffer[3] = 4 /\ b = 0 /\ Len(rx) >= 4
    BY <1>1, <1>5, SMT
  <2>2. 4 \in 0..Len(rx) /\ Len(rx) = 4 /\ ctl.two = 0
    BY <1>1, <1>2, <1>5, <2>1, SMT
  <2>3. rx' \in Seq(Byte) /\ Len(rx') = 0
    BY <1>1, <2>1, <2>2, Taking, SMT
  <2>4. Zero(1)'
    BY <2>3, SMT DEF Zero
  <2>5. Len(rx') + ctl'.two = b
    BY <1>1, <2>1, <2>2, <2>3, SMT
  <2>6. QED
    BY <1>1, <2>3, <2>4, <2>5 DEF Before, Mode
<1>6. QED
  BY <1>3, <1>4, <1>5, SMT

(* The answer to the command, behind the a bytes.                          *)
LEMMA TakeAnswer ==
  ASSUME Types, NEW a \in 0..2, NEW m, NEW n, Before(a, m, n), ctl.two = 0,
         NEW c \in Commands, NEW st \in {0, 1}, NEW b \in {0, 2}, ctl'.two = b,
         rx' = rx \o Event(c, st)
  PROVE  Answering(a, b)'
<1>1. /\ rx \in Seq(Byte) /\ Len(rx) \in Nat /\ Len(rx) = a
      /\ \A k \in 1..Len(rx) : rx[k] = 0
  <2>1. rx \in Seq(Byte) /\ Len(rx) \in Nat /\ Len(rx) + 0 = a
    BY LenProperties DEF Before
  <2>2. QED
    BY <2>1, SMT DEF Before, Zero
<1>2. /\ rx' \in Seq(Byte) /\ Len(rx') = a + 5
      /\ \A k \in 1..a : rx'[k] = 0
      /\ rx'[a + 1] = 4 /\ rx'[a + 2] = 14 /\ rx'[a + 3] = 2
  <2>1. LET t == rx \o Event(c, st) IN
        /\ t \in Seq(Byte) /\ Len(t) = Len(rx) + 5
        /\ \A k \in 1..Len(rx) : t[k] = rx[k]
        /\ t[Len(rx) + 1] = 4 /\ t[Len(rx) + 2] = 14 /\ t[Len(rx) + 3] = 2
    BY <1>1, Answer, ZenonT(60)
  <2>2. QED
    BY <1>1, <2>1, Zenon
<1>3. Len(rx') >= a + 5 /\ Len(rx') + ctl'.two = a + 5 + b
  BY <1>2, SMT
<1>4. Zero(a + 6)'
  BY <1>2, SMT DEF Zero
<1>5. QED
  BY <1>2, <1>3, <1>4 DEF Answering


(* One command, from when it is to be sent until its answer was read.      *)
Maps(c, b, m0, n0, m1, n1) ==
  \A ok \in BOOLEAN : Mode(m0, n0) /\ ctl.two = 0 =>
    /\ After(c, ok).mode = m1 /\ After(c, ok).packets = n1 /\ ~After(c, ok).torn
    /\ After(c, ok).two = b

LEMMA DoingTake ==
  ASSUME Types, NEW c \in {"baud", "minidriver", "packet"}, NEW a \in 0..2, NEW b \in {0, 2},
         NEW m0, NEW n0, NEW m1, NEW n1, Maps(c, b, m0, n0, m1, n1),
         Doing(c, a, b, m0, n0, m1, n1), CtlTake
  PROVE  Doing(c, a, b, m0, n0, m1, n1)'
<1>1. /\ tx # << >> /\ ctl.two = 0 /\ tx' = Tail(tx)
      /\ UNCHANGED <<prog, pc, hspeed, armed, buffer>>
  BY DEF CtlTake, host
<1>2. /\ pc = "header" /\ tx = <<[cmd |-> c, speed |-> hspeed]>> /\ Before(a, m0, n0)
      /\ Op = c /\ ~armed
  BY <1>1 DEF Doing
<1>3. Head(tx) = [cmd |-> c, speed |-> hspeed] /\ tx' = << >>
  <2> DEFINE p == [cmd |-> c, speed |-> hspeed]
  <2>1. tx = <<p>>
    BY <1>2
  <2> HIDE DEF p
  <2>2. Head(<<p>>) = p /\ Tail(<<p>>) = << >>
    OBVIOUS
  <2>3. QED
    BY <1>1, <2>1, <2>2 DEF p
<1>4. Op' = c /\ ~armed' /\ pc' = "header"
  BY <1>1, <1>2 DEF Op
<1>5. CASE UNCHANGED rx /\ (UNCHANGED ctl \/ ctl' = [ctl EXCEPT !.asleep = @ - 1])
  <2>1. /\ ctl'.mode = ctl.mode /\ ctl'.packets = ctl.packets /\ ctl'.torn = ctl.torn
        /\ ctl'.two = ctl.two /\ rx' = rx
    BY <1>5 DEF Types, Known
  <2>2. Before(a, m0, n0)'
    BY <1>2, <2>1 DEF Before, Mode, Zero
  <2>3. QED
    BY <1>3, <1>4, <2>2 DEF Doing
<1>6. ASSUME NEW ok \in BOOLEAN, ctl' = After(c, ok),
             rx' = rx \o Event(c, IF ok THEN 0 ELSE 1)
      PROVE  Doing(c, a, b, m0, n0, m1, n1)'
  <2>1. ctl'.mode = m1 /\ ctl'.packets = n1 /\ ~ctl'.torn /\ ctl'.two = b
    BY <1>1, <1>2, <1>6 DEF Maps, Before
  <2>2. (IF ok THEN 0 ELSE 1) \in {0, 1} /\ c \in Commands
    BY DEF Commands
  <2>3. Answering(a, b)'
    BY <1>1, <1>2, <1>6, <2>1, <2>2, TakeAnswer
  <2>4. QED
    BY <1>3, <1>4, <2>1, <2>3 DEF Doing, Mode
<1>7. \/ UNCHANGED rx /\ (UNCHANGED ctl \/ ctl' = [ctl EXCEPT !.asleep = @ - 1])
      \/ \E ok \in BOOLEAN : ctl' = After(c, ok) /\ rx' = rx \o Event(c, IF ok THEN 0 ELSE 1)
  <2>1. Head(tx).cmd = c /\ Head(tx).speed = hspeed
    BY <1>3
  <2>2. CASE hspeed # ctl.speed \/ ctl.asleep > 0
    BY <2>1, <2>2, Zenon DEF CtlTake
  <2>3. CASE hspeed = ctl.speed /\ ~(ctl.asleep > 0)
    <3>1. \E ok \in (IF ctl.is.refuses THEN BOOLEAN ELSE {TRUE}) :
            /\ ctl' = After(c, ok)
            /\ rx' = IF hspeed = ctl.speed
                     THEN rx \o Event(c, IF ok THEN 0 ELSE 1) ELSE rx
      BY <2>1, <2>3, Zenon DEF CtlTake
    <3>2. (IF ctl.is.refuses THEN BOOLEAN ELSE {TRUE}) \subseteq BOOLEAN
      OBVIOUS
    <3>3. QED
      BY <2>3, <3>1, <3>2, Zenon
  <2>4. QED
    BY <2>2, <2>3, Zenon
<1>8. QED
  BY <1>5, <1>6, <1>7, Zenon

LEMMA DoingStep ==
  ASSUME Types, NEW c \in {"baud", "minidriver", "packet"}, NEW a \in 0..2, NEW b \in {0, 2},
         a = 0 \/ b = 0,
         NEW m0, NEW n0, NEW m1, NEW n1, Maps(c, b, m0, n0, m1, n1),
         Doing(c, a, b, m0, n0, m1, n1), [Next]_vars, ~Answered
  PROVE  Doing(c, a, b, m0, n0, m1, n1)' /\ prog' = prog /\ pc' # "ended"
<1>1. Op = c /\ ~armed /\ c \in Commands /\ pc \in {"begin", "header", "payload", "answered"}
  BY DEF Doing, Commands
<1>2. c # "open" /\ c # "two" /\ c # "slow" /\ c \notin {"hci", "exit"} /\ c # "reset"
  OBVIOUS
<1>3. CASE SendCmd
  <2>1. /\ tx = << >> /\ Before(a, m0, n0) /\ pc' = "header"
        /\ UNCHANGED <<prog, hspeed, rx, ctl>> /\ ~armed' /\ hci_send_cmd(c)
    BY <1>1, <1>2, <1>3 DEF SendCmd, Doing
  <2>2. tx' = <<[cmd |-> c, speed |-> hspeed]>>
    BY <2>1 DEF hci_send_cmd
  <2>3. Before(a, m0, n0)'
    BY <2>1 DEF Before, Mode, Zero
  <2>4. QED
    BY <1>1, <2>1, <2>2, <2>3 DEF Doing, Op
<1>4. CASE ReadHeader
  <2>1. pc = "header" /\ Len(rx) >= 3 /\ UNCHANGED <<prog, armed, tx, ctl>> /\ pc' = "payload"
    BY <1>4 DEF ReadHeader
  <2>2. ~Before(a, m0, n0)
    <3>1. SUFFICES ASSUME Before(a, m0, n0) PROVE FALSE
      OBVIOUS
    <3>2. Len(rx) \in Nat /\ Len(rx) + ctl.two = a /\ ctl.two \in 0..2
      BY <3>1, LenProperties DEF Before, Types, Known
    <3>3. QED
      BY <2>1, <3>2, SMT
  <2>3. tx = << >> /\ Answering(a, b) /\ Mode(m1, n1)
    BY <2>1, <2>2 DEF Doing
  <2>4. b \in 0..2
    BY SMT
  <2>5. Reading(a, b)'
    BY <1>4, <2>3, <2>4, ReadAnswer
  <2>6. QED
    BY <1>1, <2>1, <2>3, <2>5 DEF Doing, Mode, Op
<1>5. CASE ReadPayload
  <2>1. pc = "payload" /\ UNCHANGED <<prog, armed, tx, ctl>> /\ pc' = "answered"
    BY <1>5 DEF ReadPayload
  <2>2. tx = << >> /\ Reading(a, b) /\ Mode(m1, n1)
    BY <2>1 DEF Doing
  <2>3. Before(b, m1, n1)'
    BY <1>5, <2>2, ReadRest
  <2>4. QED
    BY <1>1, <2>1, <2>2, <2>3 DEF Doing, Op
<1>6. CASE CtlTake
  <2>1. Doing(c, a, b, m0, n0, m1, n1)'
    BY <1>6, DoingTake
  <2>2. QED
    BY <1>1, <1>6, <2>1 DEF CtlTake, host
<1>7. CASE CtlConfirm
  <2>1. rx \in Seq(Byte)
    BY DEF Doing, Before, Answering, Reading
  <2>2. /\ UNCHANGED <<opt, prog, pc, buffer, hspeed, armed, tx>>
        /\ ctl'.mode = ctl.mode /\ ctl'.packets = ctl.packets /\ ctl'.torn = ctl.torn
    BY <1>7, <2>1, Confirming
  <2>3. b \in 0..2
    BY SMT
  <2>4. /\ Before(a, m0, n0) => Before(a, m0, n0)'
        /\ Before(b, m1, n1) => Before(b, m1, n1)'
        /\ Answering(a, b) => Answering(a, b)'
        /\ Reading(a, b) => Reading(a, b)'
        /\ Mode(m1, n1) => Mode(m1, n1)'
    BY <1>7, <2>2, <2>3, ConfirmBefore, ConfirmAnswering, ConfirmReading DEF Mode
  <2>5. QED
    BY <1>1, <2>2, <2>4 DEF Doing, Op
<1>8. CASE UNCHANGED vars
  BY <1>1, <1>8 DEF vars, host, Doing, Op, Before, Answering, Reading, Mode, Zero
<1>9. CASE Expired
  BY <1>1, <1>9 DEF Expired
<1>10. CASE OpenPatchram \/ ReadTwo \/ SlowDown \/ Leave
  BY <1>1, <1>2, <1>10 DEF OpenPatchram, ReadTwo, SlowDown, Leave
<1>11. QED
  BY <1>3, <1>4, <1>5, <1>6, <1>7, <1>8, <1>9, <1>10 DEF Next, Host, Ended


LEMMA SpeedingStep == ASSUME Types, Speeding, [Next]_vars PROVE Speeding' \/ Loading'
<1>1. /\ prog = <<"baud">> \o Download(opt) /\ prog # << >> /\ Tail(prog) = Download(opt)
      /\ opt' = opt /\ Head(Download(opt)) = "minidriver"
      /\ Doing("baud", 0, 0, "rom", 0, "rom", 0)
  BY Steps, SameController DEF Speeding, Types
<1>2. Maps("baud", 0, "rom", 0, "rom", 0)
  BY AfterTyped DEF Maps, Mode, Types
<1>3. CASE ~Answered
  <2>1. Doing("baud", 0, 0, "rom", 0, "rom", 0)' /\ prog' = prog
    BY <1>1, <1>2, <1>3, DoingStep
  <2>2. QED
    BY <1>1, <2>1 DEF Speeding
<1>4. CASE Answered
  <2>1. /\ tx = << >> /\ Before(0, "rom", 0) /\ ~armed' /\ pc' = "begin"
        /\ prog' = Download(opt) /\ UNCHANGED <<tx, rx, ctl>>
    BY <1>1, <1>4 DEF Answered, Done, Disarm, Doing
  <2>2. Before(0, "rom", 0)' /\ tx' = << >>
    BY <2>1 DEF Before, Mode, Zero
  <2>3. QED
    BY <1>1, <2>1, <2>2 DEF Loading, Doing, Op
<1>5. QED
  BY <1>3, <1>4

(* An empty file has no packets: the hypothesis of what follows.           *)
SomePackets == Packets > 0

LEMMA FirstPacket ==
  ASSUME SomePackets, Types, NEW a \in 0..2, prog' = Pieces(opt, Packets), opt' = opt,
         pc' = "begin", ~armed', tx' = << >>, Before(a, "patch", 0)'
  PROVE  Patching'
<1>1. Packets \in 1..Packets /\ Packets - Packets = 0
  BY BoundsAssumption, SMT DEF SomePackets
<1>2. Head(prog') = "packet"
  BY BoundsAssumption, PiecesHead DEF SomePackets, Types
<1>3. Doing("packet", a, 0, "patch", Packets - Packets,
            IF Packets = 1 THEN "patched" ELSE "patch", Packets - Packets + 1)'
  BY <1>1, <1>2 DEF Doing, Op
<1>4. QED
  BY <1>1, <1>3 DEF Patching

LEMMA LoadingStep == ASSUME SomePackets, Types, Loading, [Next]_vars
                     PROVE  Loading' \/ Waiting' \/ Patching'
<1>1. /\ prog = Download(opt) /\ prog # << >> /\ Tail(prog) = AfterMini(opt)
      /\ opt' = opt /\ opt \in OptionType
  BY Steps, SameController DEF Loading, Types
<1>2. PICK b \in {0, 2} : b = Owed /\ b = Owed'
  BY SameController DEF Owed
<1>3. Doing("minidriver", 0, b, "rom", 0, "patch", 0)
  BY <1>2 DEF Loading
<1>4. Maps("minidriver", b, "rom", 0, "patch", 0)
  BY <1>2, AfterTyped DEF Maps, Mode, Types, Owed
<1>5. CASE ~Answered
  <2>1. Doing("minidriver", 0, b, "rom", 0, "patch", 0)' /\ prog' = prog
    BY <1>3, <1>4, <1>5, DoingStep
  <2>2. QED
    BY <1>1, <1>2, <2>1 DEF Loading
<1>6. CASE Answered
  <2>1. /\ tx = << >> /\ Before(b, "patch", 0) /\ ~armed' /\ pc' = "begin"
        /\ prog' = AfterMini(opt) /\ UNCHANGED <<tx, rx, ctl>>
    BY <1>1, <1>3, <1>6 DEF Answered, Done, Disarm, Doing
  <2>2. Before(b, "patch", 0)' /\ tx' = << >> /\ b \in 0..2
    BY <2>1, SMT DEF Before, Mode, Zero
  <2>3. CASE AfterMini(opt) = <<"two">> \o Pieces(opt, Packets)
    BY <1>1, <1>2, <2>1, <2>2, <2>3 DEF Waiting
  <2>4. CASE AfterMini(opt) = Pieces(opt, Packets)
    BY <1>1, <2>1, <2>2, <2>4, FirstPacket
  <2>5. QED
    BY <1>1, <2>3, <2>4, Forks
<1>7. QED
  BY <1>5, <1>6

LEMMA WaitingStep == ASSUME SomePackets, Types, Waiting, [Next]_vars
                     PROVE  Waiting' \/ Patching'
<1>1. /\ prog = <<"two">> \o Pieces(opt, Packets) /\ prog # << >> /\ Op = "two"
      /\ Tail(prog) = Pieces(opt, Packets) /\ opt' = opt /\ opt \in OptionType
      /\ pc = "begin" /\ ~armed /\ tx = << >>
  BY Steps, SameController DEF Waiting, Types, Op
<1>2. PICK b \in {0, 2} : b = Owed /\ b = Owed'
  BY SameController DEF Owed
<1>3. /\ Before(b, "patch", 0) /\ rx \in Seq(Byte) /\ Len(rx) \in Nat /\ ctl.two \in 0..2
      /\ Len(rx) + ctl.two = b
  BY <1>2, LenProperties DEF Waiting, Before, Types, Known
<1>4. CASE ReadTwo
  <2>1. PICK n \in 1..2 : /\ n = (IF Len(rx) = 1 THEN 1 ELSE 2)
                          /\ rx' = SubSeq(rx, n + 1, Len(rx))
    BY <1>4 DEF ReadTwo
  <2>2. /\ prog' = Pieces(opt, Packets) /\ pc' = "begin" /\ ~armed' /\ tx' = << >>
        /\ ctl' = ctl /\ rx # << >>
    BY <1>1, <1>4 DEF ReadTwo, Done
  <2>3. n \in 0..Len(rx) /\ b - n \in 0..2
    <3>1. Len(rx) # 0
      BY <1>3, <2>2, EmptySeq
    <3>2. PICK l \in Nat : l = Len(rx) /\ l # 0
      BY <1>3, <3>1
    <3>3. PICK m \in 0..2 : m = ctl.two /\ l + m = b
      BY <1>3, <3>2
    <3>4. n = IF l = 1 THEN 1 ELSE 2
      BY <2>1, <3>2
    <3>5. n \in 0..l /\ b - n \in 0..2
      BY ONLY <3>2, <3>3, <3>4, b \in {0, 2}, SMT
    <3>6. QED
      BY <3>2, <3>5
  <2>4. /\ rx' \in Seq(Byte) /\ Len(rx') = Len(rx) - n
        /\ \A k \in 1..Len(rx') : rx'[k] = rx[k + n]
    BY <1>3, <2>1, <2>3, Taking
  <2>5. Before(b - n, "patch", 0)'
    <3>1. \A k \in 1..Len(rx') : k + n \in 1..Len(rx)
      BY <1>3, <2>3, <2>4, SMT
    <3>2. Zero(1)'
      BY <1>3, <2>4, <3>1 DEF Before, Zero
    <3>3. Len(rx') + ctl'.two = b - n
      BY <1>3, <2>2, <2>3, <2>4, SMT
    <3>4. QED
      BY <1>3, <2>2, <2>4, <3>2, <3>3 DEF Before, Mode
  <2>6. QED
    BY <1>1, <2>2, <2>3, <2>5, FirstPacket
<1>5. CASE CtlConfirm
  <2>1. Before(b, "patch", 0)'
    <3>1. b \in 0..2
      BY SMT
    <3>2. QED
      BY <1>3, <1>5, <3>1, ConfirmBefore
  <2>2. QED
    BY <1>1, <1>2, <1>5, <2>1 DEF CtlConfirm, host, Waiting
<1>6. CASE UNCHANGED vars
  BY <1>1, <1>2, <1>3, <1>6 DEF vars, host, Waiting, Before, Mode, Zero
<1>7. CASE SendCmd \/ Expired \/ ReadHeader \/ ReadPayload \/ Answered \/ OpenPatchram
           \/ SlowDown \/ Leave \/ CtlTake
  BY <1>1, <1>7 DEF SendCmd, Expired, ReadHeader, ReadPayload, Answered, OpenPatchram, SlowDown,
                    Leave, CtlTake, Commands
<1>8. QED
  BY <1>4, <1>5, <1>6, <1>7 DEF Next, Host, Ended


LEMMA PatchingStep == ASSUME Types, Patching, [Next]_vars
                      PROVE  Patching' \/ Slowing' \/ Resetting'
<1>1. PICK n \in 1..Packets, a \in 0..2 :
        /\ prog = Pieces(opt, n)
        /\ Doing("packet", a, 0, "patch", Packets - n,
                 IF n = 1 THEN "patched" ELSE "patch", Packets - n + 1)
  BY DEF Patching
<1> DEFINE m == IF n = 1 THEN "patched" ELSE "patch"
<1>2. /\ n \in Nat /\ n > 0 /\ Packets \in Nat /\ n - 1 \in Nat
      /\ (Packets - n) + 1 = Packets <=> n = 1
      /\ Packets - (n - 1) = (Packets - n) + 1
      /\ n # 1 => n - 1 \in 1..Packets
  BY BoundsAssumption, SMT
<1>3. /\ prog # << >> /\ Tail(prog) = Pieces(opt, n - 1) /\ opt' = opt /\ opt \in OptionType
  BY <1>1, <1>2, PiecesHead, SameController DEF Types
<1>4. Maps("packet", 0, "patch", Packets - n, m, Packets - n + 1)
  BY <1>2, AfterTyped DEF Maps, Mode, Types
<1>5. Doing("packet", a, 0, "patch", Packets - n, m, Packets - n + 1)
  BY <1>1
<1> HIDE DEF m
<1>6. CASE ~Answered
  <2>1. Doing("packet", a, 0, "patch", Packets - n, m, Packets - n + 1)' /\ prog' = prog
    BY <1>4, <1>5, <1>6, DoingStep
  <2>2. QED
    BY <1>1, <1>3, <2>1 DEF Patching, m
<1>7. CASE Answered
  <2>1. /\ tx = << >> /\ Before(0, m, Packets - n + 1) /\ ~armed' /\ pc' = "begin"
        /\ prog' = Pieces(opt, n - 1) /\ UNCHANGED <<tx, rx, ctl>>
    BY <1>3, <1>5, <1>7 DEF Answered, Done, Disarm, Doing
  <2>2. Before(0, m, Packets - n + 1)' /\ tx' = << >>
    BY <2>1 DEF Before, Mode, Zero
  <2>3. CASE n = 1
    <3>1. prog' = Slowed(opt) /\ Mode("patched", Packets)'
      <4>1. n - 1 = 0 /\ Packets - n + 1 = Packets /\ m = "patched"
        BY <1>2, <2>3, SMT DEF m
      <4>2. QED
        BY <1>3, <2>1, <2>2, <4>1, NoPieces DEF Before
    <3>2. CASE Slowed(opt) = <<"slow">> \o Final(opt)
      BY <1>3, <2>1, <2>2, <3>1, <3>2 DEF Slowing
    <3>3. CASE Slowed(opt) = Final(opt)
      <4>1. Over'
        <5>1. \A k \in 1..Len(tx') : FALSE
          BY <2>2, SMT
        <5>2. QED
          BY <3>1, <5>1 DEF Over, Mode
      <4>2. QED
        BY <1>3, <2>1, <3>1, <3>3, <4>1 DEF Resetting, Taken
    <3>4. QED
      BY <1>3, <3>2, <3>3, Forks
  <2>4. CASE n # 1
    <3>1. Head(prog') = "packet"
      <4>1. n - 1 \in Nat /\ n - 1 > 0
        BY <1>2, <2>4, SMT
      <4>2. QED
        BY <1>3, <2>1, <4>1, PiecesHead
    <3>2. Before(0, "patch", Packets - (n - 1))'
      BY <1>2, <2>2, <2>4 DEF m
    <3>3. /\ prog' = Pieces(opt', n - 1) /\ n - 1 \in 1..Packets /\ 0 \in 0..2
          /\ Doing("packet", 0, 0, "patch", Packets - (n - 1),
                   IF n - 1 = 1 THEN "patched" ELSE "patch", Packets - (n - 1) + 1)'
      <4>1. 0 \in 0..2
        BY SMT
      <4>2. QED
        BY <1>2, <1>3, <2>1, <2>2, <2>4, <3>1, <3>2, <4>1 DEF Doing, Op
    <3>4. QED
      BY <3>3 DEF Patching
  <2>5. QED
    BY <2>3, <2>4
<1>8. QED
  BY <1>6, <1>7

LEMMA SlowingStep == ASSUME Types, Slowing, [Next]_vars PROVE Slowing' \/ Resetting'
<1>1. /\ prog = <<"slow">> \o Final(opt) /\ prog # << >> /\ Op = "slow"
      /\ Tail(prog) = Final(opt) /\ opt' = opt /\ pc = "begin" /\ ~armed /\ tx = << >>
      /\ Mode("patched", Packets)
  BY Steps, SameController DEF Slowing, Types, Op
<1>2. CASE SlowDown
  <2>1. /\ prog' = Final(opt') /\ pc' = "begin" /\ tx' = << >> /\ ctl' = ctl
    BY <1>1, <1>2 DEF SlowDown, Done
  <2>2. \A k \in 1..Len(tx') : FALSE
    BY <2>1, SMT
  <2>3. QED
    BY <1>1, <2>1, <2>2 DEF Resetting, Over, Mode, Taken
<1>3. CASE CtlConfirm
  BY <1>1, <1>3 DEF CtlConfirm, host, Slowing, Mode, Types, Known
<1>4. CASE UNCHANGED vars
  BY <1>1, <1>4 DEF vars, host, Slowing, Mode
<1>5. CASE SendCmd \/ Expired \/ ReadHeader \/ ReadPayload \/ Answered \/ OpenPatchram
           \/ ReadTwo \/ Leave \/ CtlTake
  BY <1>1, <1>5 DEF SendCmd, Expired, ReadHeader, ReadPayload, Answered, OpenPatchram, ReadTwo,
                    Leave, CtlTake, Commands
<1>6. QED
  BY <1>2, <1>3, <1>4, <1>5 DEF Next, Host, Ended

(* What is sent and what is taken after the last packet.                   *)
LEMMA OverSend ==
  ASSUME Types, Over, NEW c \in Commands, c \notin {"minidriver", "packet"}, hci_send_cmd(c),
         UNCHANGED ctl
  PROVE  Over'
<1> DEFINE p == [cmd |-> c, speed |-> hspeed]
<1>1. tx \in Seq([cmd: Commands, speed: Speeds]) /\ Len(tx) \in Nat
      /\ p \in [cmd: Commands, speed: Speeds]
  BY LenProperties DEF Types
<1>2. tx' = Append(tx, p) /\ p.cmd = c
  BY DEF hci_send_cmd
<1>3. /\ Len(tx') = Len(tx) + 1 /\ tx'[Len(tx) + 1] = p
      /\ \A k \in 1..Len(tx) : tx'[k] = tx[k]
  BY <1>1, <1>2, AppendProperties
<1>4. \A k \in 1..Len(tx') : tx'[k] = p \/ (k \in 1..Len(tx) /\ tx'[k] = tx[k])
  BY <1>1, <1>3, SMT
<1>5. \A k \in 1..Len(tx') : tx'[k].cmd \notin {"minidriver", "packet"}
  BY <1>2, <1>4 DEF Over
<1>6. QED
  BY <1>5 DEF Over

LEMMA OverTake ==
  ASSUME Types, Over, CtlTake
  PROVE  /\ Over' /\ (ctl.mode = "ready" => ctl'.mode = "ready")
         /\ \/ UNCHANGED rx /\ ctl'.speed = ctl.speed
            \/ /\ Head(tx).speed = ctl.speed
               /\ Head(tx).cmd = "reset" => ctl'.mode = "ready"
               /\ ~ctl.is.refuses => ctl'.speed = IF Head(tx).cmd = "baud" THEN "high"
                                                  ELSE ctl.speed
               /\ IF hspeed = ctl.speed
                  THEN \E st \in {0, 1} : rx' = rx \o Event(Head(tx).cmd, st)
                  ELSE UNCHANGED rx
<1>1. /\ tx \in Seq([cmd: Commands, speed: Speeds]) /\ tx # << >> /\ Len(tx) \in Nat \ {0}
      /\ tx' = Tail(tx) /\ Head(tx) = tx[1]
  BY EmptySeq, HeadTailProperties DEF CtlTake, Types
<1>2. \A k \in 1..Len(tx') : tx'[k] = tx[k + 1] /\ k + 1 \in 1..Len(tx)
  <2>1. /\ Len(Tail(tx)) = Len(tx) - 1
        /\ \A k \in 1..Len(Tail(tx)) : Tail(tx)[k] = tx[k + 1]
    BY <1>1, HeadTailProperties, SMT
  <2>2. \A k \in 1..Len(tx) - 1 : k + 1 \in 1..Len(tx)
    BY <1>1, SMT
  <2>3. QED
    BY <1>1, <2>1, <2>2
<1>3. \A k \in 1..Len(tx') : tx'[k].cmd \notin {"minidriver", "packet"}
  BY <1>2 DEF Over
<1>4. Head(tx).cmd \notin {"minidriver", "packet"}
  <2>1. 1 \in 1..Len(tx)
    BY <1>1, SMT
  <2>2. QED
    BY <1>1, <2>1 DEF Over
<1>5. CASE UNCHANGED rx /\ (UNCHANGED ctl \/ ctl' = [ctl EXCEPT !.asleep = @ - 1])
  <2>1. /\ ctl'.mode = ctl.mode /\ ctl'.packets = ctl.packets /\ ctl'.torn = ctl.torn
        /\ ctl'.speed = ctl.speed
    BY <1>5 DEF Types, Known
  <2>2. QED
    BY <1>3, <1>5, <2>1 DEF Over
<1>6. ASSUME Head(tx).speed = ctl.speed, NEW ok \in BOOLEAN, ok \/ ctl.is.refuses,
             ctl' = After(Head(tx).cmd, ok)
      PROVE  /\ Over' /\ (ctl.mode = "ready" => ctl'.mode = "ready")
             /\ Head(tx).cmd = "reset" => ctl'.mode = "ready"
             /\ ~ctl.is.refuses => ctl'.speed = IF Head(tx).cmd = "baud" THEN "high"
                                                ELSE ctl.speed
  <2>1. PICK c : c = Head(tx).cmd /\ c \notin {"minidriver", "packet"}
    BY <1>4
  <2>2. /\ ctl'.packets = ctl.packets /\ ctl.mode \in {"patched", "ready"}
        /\ ctl'.mode = IF c = "reset" /\ ctl.mode = "patched" THEN "ready" ELSE ctl.mode
        /\ ctl'.torn = ctl.torn
        /\ ctl'.speed = IF c = "baud" /\ ok THEN "high" ELSE ctl.speed
    <3>1. /\ ctl'.packets = IF c = "packet" THEN ctl.packets + 1 ELSE ctl.packets
          /\ ctl'.mode = CASE c = "minidriver" -> "patch"
                           [] c = "packet" /\ ctl.packets + 1 = Packets -> "patched"
                           [] c = "reset" /\ ctl.mode = "patched" -> "ready"
                           [] OTHER -> ctl.mode
          /\ ctl'.torn = (ctl.torn \/ (c = "reset" /\ ctl.mode = "patch"))
          /\ ctl'.speed = IF c = "baud" /\ ok THEN "high"
                          ELSE IF c = "packet" /\ ctl.packets + 1 = Packets
                          THEN "115200" ELSE ctl.speed
      BY <1>6, <2>1, AfterTyped, ZenonT(60) DEF Types
    <3>2. ctl.mode \in {"patched", "ready"} /\ ctl.torn \in BOOLEAN
      BY DEF Over, Types, Known
    <3>3. QED
      BY <2>1, <3>1, <3>2
  <2>3. QED
    BY <1>3, <1>6, <2>1, <2>2 DEF Over
<1>7. \/ UNCHANGED rx /\ (UNCHANGED ctl \/ ctl' = [ctl EXCEPT !.asleep = @ - 1])
      \/ /\ Head(tx).speed = ctl.speed
         /\ \E ok \in BOOLEAN :
              /\ ok \/ ctl.is.refuses
              /\ ctl' = After(Head(tx).cmd, ok)
              /\ rx' = IF hspeed = ctl.speed
                       THEN rx \o Event(Head(tx).cmd, IF ok THEN 0 ELSE 1) ELSE rx
  BY Zenon DEF CtlTake
<1>8. QED
  BY <1>5, <1>6, <1>7, Zenon


(* What a well-behaved controller may have on the line when it takes the   *)
(* command of the program, or when an event is read.                       *)
LEMMA QuietTake ==
  ASSUME Types, Quiet, Behaves, CtlTake
  PROVE  /\ pc = "header" /\ rx = << >> /\ Head(tx).cmd = Op /\ Head(tx).speed = hspeed
         /\ UNCHANGED <<opt, prog, pc, hspeed, armed, status>>
<1>1. tx # << >> /\ UNCHANGED <<opt, prog, pc, hspeed, armed, status>>
  BY DEF CtlTake, host
<1>2. pc = "header" /\ tx = <<[cmd |-> Op, speed |-> hspeed]>> /\ rx = << >>
  BY <1>1 DEF Quiet, Types
<1>3. Head(tx) = [cmd |-> Op, speed |-> hspeed]
  BY <1>2
<1>4. QED
  BY <1>1, <1>2, <1>3

LEMMA QuietBegin == ASSUME Quiet, Behaves, pc = "begin" PROVE rx = << >> /\ tx = << >>
  BY DEF Quiet

LEMMA SomethingRead == ASSUME ReadHeader PROVE Taken /\ Taken'
<1>1. pc = "header" /\ pc' = "payload" /\ Len(rx) >= 3
  BY DEF ReadHeader
<1>2. rx # << >>
  <2>1. SUFFICES ASSUME rx = << >> PROVE FALSE
    OBVIOUS
  <2>2. Len(rx) = 0
    BY <2>1, EmptySeq
  <2>3. QED
    BY <1>1, <2>2, SMT
<1>3. QED
  BY <1>1, <1>2 DEF Taken

LEMMA ResettingStep == ASSUME Types, Quiet, Alarm, Resetting, [Next]_vars
                       PROVE  Resetting' \/ Finishing'
<1>1. /\ prog = Final(opt) /\ prog # << >> /\ Op = "reset" /\ Tail(prog) = Rest(opt)
      /\ opt' = opt /\ opt \in OptionType /\ pc # "ended" /\ Over /\ Behaves' = Behaves
  BY Steps, SameController DEF Resetting, Types, Op
<1>2. Behaves /\ Taken => ctl.mode = "ready" /\ hspeed = ctl.speed
  BY DEF Resetting
<1>3. CASE SendCmd
  <2>1. /\ hci_send_cmd("reset") /\ UNCHANGED <<rx, ctl, prog>> /\ pc = "begin"
        /\ pc' = "header"
    BY <1>1, <1>3 DEF SendCmd
  <2>2. "reset" \in Commands /\ "reset" \notin {"minidriver", "packet"}
    BY DEF Commands
  <2>3. Over'
    BY <1>1, <2>1, <2>2, OverSend
  <2>4. Behaves => ~Taken'
    BY <2>1, QuietBegin DEF Taken
  <2>5. QED
    BY <1>1, <2>1, <2>3, <2>4 DEF Resetting
<1>4. CASE Expired
  <2>1. /\ hci_send_cmd("reset") /\ UNCHANGED <<rx, ctl, prog, pc, hspeed>>
    BY <1>4 DEF Expired, host
  <2>2. "reset" \in Commands /\ "reset" \notin {"minidriver", "packet"}
    BY DEF Commands
  <2>3. Over'
    BY <1>1, <2>1, <2>2, OverSend
  <2>4. QED
    BY <1>1, <1>2, <2>1, <2>3 DEF Resetting, Taken
<1>5. CASE ReadHeader \/ ReadPayload
  <2>1. /\ Taken /\ Taken' /\ UNCHANGED <<prog, tx, ctl, hspeed>> /\ pc' # "ended"
    BY <1>5, SomethingRead DEF ReadHeader, ReadPayload, Taken
  <2>2. Over'
    BY <1>1, <2>1 DEF Over
  <2>3. QED
    BY <1>1, <1>2, <2>1, <2>2 DEF Resetting
<1>6. CASE Answered
  <2>1. /\ prog' = Rest(opt) /\ pc' = "begin" /\ ~armed' /\ hspeed' = hspeed
        /\ UNCHANGED <<tx, ctl>> /\ pc = "answered"
    BY <1>1, <1>6 DEF Answered, Done, Disarm
  <2>2. /\ prog' \in Seq(RestOps) /\ prog' # << >> /\ prog'[Len(prog')] = "exit"
    BY <1>1, <2>1, RestTyped
  <2>3. Over'
    BY <1>1, <2>1 DEF Over
  <2>4. Taken /\ ~Taken'
    BY <2>1 DEF Taken
  <2>5. QED
    BY <1>1, <1>2, <2>1, <2>2, <2>3, <2>4 DEF Finishing
<1>7. CASE CtlTake
  <2>1. Over' /\ UNCHANGED <<prog, pc, hspeed>>
    BY <1>1, <1>7, OverTake DEF CtlTake, host
  <2>2. ASSUME Behaves, Taken' PROVE ctl'.mode = "ready" /\ hspeed' = ctl'.speed
    <3>1. /\ pc = "header" /\ rx = << >> /\ Head(tx).cmd = "reset" /\ Head(tx).speed = hspeed
      BY <1>1, <1>7, <2>2, QuietTake
    <3>2. rx' # << >> /\ ~UNCHANGED rx
      BY <2>1, <2>2, <3>1 DEF Taken
    <3>3. ~ctl.is.refuses
      BY <2>2 DEF Behaves
    <3>4. ctl'.mode = "ready" /\ ctl'.speed = ctl.speed /\ hspeed = ctl.speed
      BY <1>1, <1>7, <3>1, <3>2, <3>3, OverTake
    <3>5. QED
      BY <2>1, <3>4
  <2>3. QED
    BY <1>1, <2>1, <2>2 DEF Resetting
<1>8. CASE CtlConfirm
  <2>1. /\ ctl'.mode = ctl.mode /\ ctl'.packets = ctl.packets /\ ctl'.torn = ctl.torn
        /\ UNCHANGED <<prog, pc, tx>>
    BY <1>8 DEF CtlConfirm, host, Types, Known
  <2>2. ~Behaves
    BY <1>8, SMT DEF CtlConfirm, Quiet
  <2>3. QED
    BY <1>1, <2>1, <2>2 DEF Resetting, Over
<1>9. CASE OpenPatchram \/ ReadTwo \/ SlowDown \/ Leave
  BY <1>1, <1>9 DEF OpenPatchram, ReadTwo, SlowDown, Leave
<1>10. CASE UNCHANGED vars
  BY <1>1, <1>2, <1>10 DEF vars, host, Resetting, Over, Taken
<1>11. QED
  BY <1>3, <1>4, <1>5, <1>6, <1>7, <1>8, <1>9, <1>10 DEF Next, Host, Ended

(* After the last reset: a program that still ends with "exit".            *)
LEMMA Shorter == ASSUME NEW S, prog \in Seq(S), prog # << >>, prog[Len(prog)] = "exit",
                        Op # "exit"
                 PROVE  /\ Tail(prog) \in Seq(S) /\ Tail(prog) # << >>
                        /\ Tail(prog)[Len(Tail(prog))] = "exit"
<1>1. /\ Len(prog) \in Nat \ {0} /\ Head(prog) = prog[1] /\ Tail(prog) \in Seq(S)
      /\ Len(Tail(prog)) = Len(prog) - 1
      /\ \A k \in 1..Len(Tail(prog)) : Tail(prog)[k] = prog[k + 1]
  BY EmptySeq, HeadTailProperties, SMT
<1>2. Len(prog) # 1
  BY <1>1 DEF Op
<1>3. /\ Len(Tail(prog)) # 0 /\ Len(Tail(prog)) \in 1..Len(Tail(prog))
      /\ Len(Tail(prog)) + 1 = Len(prog)
  BY <1>1, <1>2, SMT
<1>4. Tail(prog) # << >>
  BY <1>3, EmptySeq
<1>5. QED
  BY <1>1, <1>3, <1>4

Speed == IF Taken /\ Op = "baud" THEN ctl.speed = "high" ELSE hspeed = ctl.speed

LEMMA FinishingStep == ASSUME Types, Quiet, Finishing, [Next]_vars PROVE Finishing'
<1>1. /\ prog \in Seq(RestOps) /\ prog # << >> /\ prog[Len(prog)] = "exit" /\ ~armed /\ Over
      /\ Behaves' = Behaves
  BY SameController DEF Finishing
<1>2. Behaves => ctl.mode = "ready" /\ Speed
  BY DEF Finishing, Speed
<1>3. Op \in RestOps /\ Op \notin {"reset", "minidriver", "packet", "open", "two", "slow"}
  BY <1>1, HeadTailProperties DEF Op, RestOps
<1>4. SUFFICES /\ prog' \in Seq(RestOps) /\ prog' # << >> /\ prog'[Len(prog')] = "exit"
               /\ ~armed' /\ Over' /\ (Behaves => ctl'.mode = "ready" /\ Speed')
  BY <1>1 DEF Finishing, Speed
<1>5. CASE SendCmd
  <2>1. /\ hci_send_cmd(Op) /\ UNCHANGED <<rx, ctl, prog, hspeed>> /\ pc = "begin"
        /\ pc' = "header" /\ ~armed' /\ Op \in Commands
    BY <1>1, <1>3, <1>5 DEF SendCmd
  <2>2. Over'
    BY <1>1, <1>3, <2>1, OverSend
  <2>3. Behaves => ~Taken /\ ~Taken'
    BY <2>1, QuietBegin DEF Taken
  <2>4. QED
    BY <1>1, <1>2, <2>1, <2>2, <2>3 DEF Speed
<1>6. CASE ReadHeader \/ ReadPayload
  <2>1. /\ Taken /\ Taken' /\ UNCHANGED <<prog, tx, ctl, hspeed, armed>>
    BY <1>6, SomethingRead DEF ReadHeader, ReadPayload, Taken
  <2>2. Over'
    BY <1>1, <2>1 DEF Over
  <2>3. QED
    BY <1>1, <1>2, <2>1, <2>2 DEF Speed, Op
<1>7. CASE Answered
  <2>1. /\ prog' = Tail(prog) /\ pc' = "begin" /\ ~armed'
        /\ hspeed' = IF Op = "baud" THEN "high" ELSE hspeed
        /\ UNCHANGED <<tx, ctl>> /\ pc = "answered"
    BY <1>1, <1>3, <1>7 DEF Answered, Done, Disarm
  <2>2. Op # "exit"
    BY <2>1 DEF Types, Commands
  <2>3. Over'
    BY <1>1, <2>1 DEF Over
  <2>4. Taken /\ ~Taken'
    BY <2>1 DEF Taken
  <2>5. prog' \in Seq(RestOps) /\ prog' # << >> /\ prog'[Len(prog')] = "exit"
    BY <1>1, <2>1, <2>2, Shorter
  <2>6. QED
    BY <1>2, <2>1, <2>3, <2>4, <2>5 DEF Speed
<1>8. CASE Leave
  <2>1. UNCHANGED <<prog, tx, rx, ctl, hspeed, armed>> /\ pc = "begin" /\ pc' = "ended"
    BY <1>8 DEF Leave
  <2>2. Over' /\ ~Taken /\ ~Taken'
    BY <1>1, <2>1 DEF Over, Taken
  <2>3. QED
    BY <1>1, <1>2, <2>1, <2>2 DEF Speed
<1>9. CASE CtlTake
  <2>1. /\ Over' /\ UNCHANGED <<prog, pc, hspeed, armed>>
        /\ ctl.mode = "ready" => ctl'.mode = "ready"
    BY <1>1, <1>9, OverTake DEF CtlTake, host
  <2>2. ASSUME Behaves PROVE Speed'
    <3>1. /\ pc = "header" /\ rx = << >> /\ Head(tx).cmd = Op /\ Head(tx).speed = hspeed
          /\ Op' = Op
      BY <1>9, <2>1, <2>2, QuietTake DEF Op
    <3>2. ~Taken /\ hspeed = ctl.speed
      BY <1>2, <2>2, <3>1 DEF Taken, Speed
    <3>3. CASE UNCHANGED rx /\ ctl'.speed = ctl.speed
      BY <2>1, <3>1, <3>2, <3>3 DEF Taken, Speed
    <3>4. CASE /\ ctl'.speed = IF Op = "baud" THEN "high" ELSE ctl.speed
               /\ \E st \in {0, 1} : rx' = rx \o Event(Op, st)
      <4>1. CASE Op = "baud"
        <5>1. PICK st \in {0, 1} : rx' = << >> \o Event(Op, st)
          BY <3>1, <3>4
        <5>2. Op \in Commands
          BY <4>1 DEF Commands
        <5>3. rx' \in Seq(Byte) /\ Len(rx') = 5
          BY <5>1, <5>2, EventTyped, ConcatEmptySeq
        <5>4. rx' # << >>
          BY <5>3, EmptySeq, SMT
        <5>5. QED
          BY <2>1, <3>1, <3>4, <4>1, <5>4 DEF Taken, Speed
      <4>2. CASE Op # "baud"
        BY <2>1, <3>1, <3>2, <3>4, <4>2 DEF Speed
      <4>3. QED
        BY <4>1, <4>2
    <3>5. ~ctl.is.refuses
      BY <2>2 DEF Behaves
    <3>6. QED
      BY <1>1, <1>9, <3>1, <3>3, <3>4, <3>5, OverTake
  <2>3. QED
    BY <1>1, <1>2, <2>1, <2>2
<1>10. CASE CtlConfirm
  <2>1. /\ ctl'.mode = ctl.mode /\ ctl'.packets = ctl.packets /\ ctl'.torn = ctl.torn
        /\ UNCHANGED <<prog, pc, tx, armed>>
    BY <1>10 DEF CtlConfirm, host, Types, Known
  <2>2. ~Behaves
    BY <1>10, SMT DEF CtlConfirm, Quiet
  <2>3. QED
    BY <1>1, <2>1, <2>2 DEF Over
<1>11. CASE Expired \/ OpenPatchram \/ ReadTwo \/ SlowDown
  BY <1>1, <1>3, <1>11 DEF Expired, OpenPatchram, ReadTwo, SlowDown
<1>12. CASE UNCHANGED vars
  BY <1>1, <1>2, <1>12 DEF vars, host, Over, Taken, Speed, Op
<1>13. QED
  BY <1>5, <1>6, <1>7, <1>8, <1>9, <1>10, <1>11, <1>12 DEF Next, Host, Ended


(* Where the program is: it leaves only when it is done with the resets.   *)
LEMMA PlaceOp == ASSUME Types, Place
                 PROVE  prog # << >> /\ (Op \in {"hci", "exit"} => Finishing)
<1>1. opt \in OptionType
  BY DEF Types
<1>2. CASE Starting \/ Asking \/ Opening \/ Speeding \/ Loading \/ Waiting \/ Slowing \/ Resetting
  BY <1>1, <1>2, Steps
     DEF Starting, Asking, Opening, Speeding, Loading, Waiting, Slowing, Resetting, Op
<1>3. CASE Patching
  <2>1. PICK n \in 1..Packets : prog = Pieces(opt, n)
    BY <1>3 DEF Patching
  <2>2. n \in Nat /\ n > 0
    BY BoundsAssumption, SMT
  <2>3. QED
    BY <1>1, <2>1, <2>2, PiecesHead DEF Op
<1>4. CASE Finishing
  BY <1>4 DEF Finishing
<1>5. QED
  BY <1>2, <1>3, <1>4 DEF Place

LEMMA LeftStep == ASSUME Types, Place, Quiet, Left, [Next]_vars PROVE Left'
<1>1. SUFFICES ASSUME status' \in {"exit 0", "serving"} PROVE Finishing' /\ pc' = "ended"
  BY DEF Left
<1>2. CASE status \in {"exit 0", "serving"}
  <2>1. Finishing /\ pc = "ended"
    BY <1>2 DEF Left
  <2>2. pc' = "ended"
    BY <2>1 DEF Next, Host, SendCmd, Expired, ReadHeader, ReadPayload, Answered, OpenPatchram,
                ReadTwo, SlowDown, Leave, CtlTake, CtlConfirm, Ended, vars, host
  <2>3. QED
    BY <2>1, <2>2, FinishingStep
<1>3. CASE status \notin {"exit 0", "serving"}
  <2>1. Leave
    BY <1>1, <1>3 DEF Next, Host, SendCmd, Expired, ReadHeader, ReadPayload, Answered,
                      OpenPatchram, ReadTwo, SlowDown, CtlTake, CtlConfirm, Ended, vars, host
  <2>2. Finishing /\ pc' = "ended"
    BY <2>1, PlaceOp DEF Leave
  <2>3. QED
    BY <2>2, FinishingStep
<1>4. QED
  BY <1>2, <1>3

LEMMA InvInit == ASSUME Init PROVE IInv
<1>1. PICK c \in Cases :
        /\ opt = c[1]
        /\ ctl = [speed |-> "115200", mode |-> "rom", packets |-> 0, refused |-> FALSE,
                  two |-> 0, torn |-> FALSE, is |-> c[2], asleep |-> c[2].asleep]
  BY DEF Init
<1>2. /\ prog = Main(opt) /\ pc = "begin" /\ armed = FALSE /\ tx = << >> /\ rx = << >>
      /\ buffer = << >> /\ local_name = "" /\ hspeed = "115200" /\ status = "running"
  BY DEF Init
<1>3. opt \in OptionType /\ c[2] \in ControllerType
  BY <1>1, CasesAssumption
<1>4. prog = Start(opt) /\ prog \in Seq(Ops)
  <2>1. "reset" \in Ops /\ AfterReset(opt) \in Seq(Ops)
    BY <1>3, Typed DEF Ops
  <2>2. QED
    BY <1>2, <1>3, <2>1, MainIsStart, HeadTail, ZenonT(60) DEF Start
<1>5. ctl \in Known
  <2>1. c[2].asleep \in Nat
    BY <1>3 DEF ControllerType
  <2>2. QED
    BY <1>1, <1>3, <2>1, SMT DEF Known, Speeds
<1>6. /\ ctl.mode = "rom" /\ ctl.packets = 0 /\ ~ctl.torn /\ ctl.two = 0
      /\ ctl.speed = "115200"
  BY <1>1
<1>7. Types
  BY <1>2, <1>3, <1>4, <1>5, EmptySeq DEF Types, Speeds
<1>8. Early(0) /\ NoName(0)
  <2>1. /\ rx \in Seq(Byte) /\ Len(rx) = 0 /\ Len(tx) = 0 /\ Gone = 0
    BY <1>2, EmptySeq DEF Gone
  <2>2. Answers(0)
    <3>1. 5 * 0 - Gone = 0 /\ \A j \in 1..0 : FALSE
      BY <2>1, SMT
    <3>2. Framed
      BY <1>2, <2>1 DEF Framed
    <3>3. QED
      BY <2>1, <3>1, <3>2, Zenon DEF Answers
  <2>3. \A k \in 1..Len(tx) : FALSE
    BY <2>1, SMT
  <2>4. \A j \in 1..0 : FALSE
    BY SMT
  <2>5. QED
    BY <1>2, <1>6, <2>2, <2>3, <2>4 DEF Early, NoName, Mode
<1>9. Starting
  <2>1. 0 \in Nat /\ pc # "ended"
    BY <1>2
  <2>2. QED
    BY <1>4, <1>8, <2>1, Zenon DEF Starting
<1>10. Quiet /\ Alarm /\ Left
  BY <1>2, <1>6 DEF Quiet, Alarm, Left
<1>11. QED
  BY <1>7, <1>9, <1>10 DEF IInv, Place

LEMMA InvStep == ASSUME SomePackets, IInv, [Next]_vars PROVE IInv'
<1>1. Types /\ Place /\ Quiet /\ Alarm /\ Left /\ prog # << >>
  BY PlaceOp DEF IInv
<1>2. Types' /\ Quiet' /\ Alarm' /\ Left'
  BY <1>1, TypesStep, QuietStep, AlarmStep, LeftStep
<1>3. Place'
  <2>1. CASE Starting
    BY <1>1, <2>1, StartingStep DEF Place
  <2>2. CASE Asking
    BY <1>1, <2>2, AskingStep DEF Place
  <2>3. CASE Opening
    BY <1>1, <2>3, OpeningStep DEF Place
  <2>4. CASE Speeding
    BY <1>1, <2>4, SpeedingStep DEF Place
  <2>5. CASE Loading
    BY <1>1, <2>5, LoadingStep DEF Place
  <2>6. CASE Waiting
    BY <1>1, <2>6, WaitingStep DEF Place
  <2>7. CASE Patching
    BY <1>1, <2>7, PatchingStep DEF Place
  <2>8. CASE Slowing
    BY <1>1, <2>8, SlowingStep DEF Place
  <2>9. CASE Resetting
    BY <1>1, <2>9, ResettingStep DEF Place
  <2>10. CASE Finishing
    BY <1>1, <2>10, FinishingStep DEF Place
  <2>11. QED
    BY <1>1, <2>1, <2>2, <2>3, <2>4, <2>5, <2>6, <2>7, <2>8, <2>9, <2>10 DEF Place
<1>4. QED
  BY <1>2, <1>3 DEF IInv

THEOREM Invariant == ASSUME SomePackets PROVE Spec => []IInv
<1>1. Init => IInv
  BY InvInit
<1>2. IInv /\ [Next]_vars => IInv'
  BY InvStep
<1>3. QED
  BY <1>1, <1>2, PTL DEF Spec

-----------------------------------------------------------------------------
(* Whatever the alarm does and whatever is refused, no reset reaches the   *)
(* controller between the minidriver and the last packet (alarm(0) in      *)
(* proc_reset): wherever the program is, what is on the line before the    *)
(* minidriver is sent was read, or is the answer to what was sent last.    *)
THEOREM DownloadNotTorn == ASSUME SomePackets PROVE Spec => []NotTorn
<1>1. Place => NotTorn
  BY DEF Place, Starting, Asking, Opening, Speeding, Loading, Waiting, Patching, Slowing,
         Resetting, Finishing, Early, Mode, Over, Doing, Before, NotTorn
<1>2. QED
  BY <1>1, Invariant, PTL DEF IInv

(* The program always has its end before it, whatever the file.            *)
Ending == prog # << >> /\ prog[Len(prog)] = "exit"

LEMMA EndingInit == ASSUME Init PROVE Ending
<1>1. prog = Main(opt)
  BY DEF Init
<1>2. opt \in OptionType
  BY CasesAssumption DEF Init
<1> DEFINE o == opt
           most == <<"reset", "name", "open">> \o If(o.fast /\ o.baudrate, <<"baud">>)
                   \o Patchram(o) \o If(o.baudrate, <<"baud">>) \o If(o.bdaddr, <<"bdaddr">>)
                   \o If(o.lpm, <<"lpm">>) \o If(o.scopcm, <<"sco", "pcm">>)
                   \o If(o.i2s, <<"i2s">>) \o If(o.enable_hci, <<"hci">>)
<1>3. most \in Seq(Ops)
  <2>1. /\ <<"baud">> \in Seq(Ops) /\ <<"bdaddr">> \in Seq(Ops) /\ <<"lpm">> \in Seq(Ops)
        /\ <<"sco", "pcm">> \in Seq(Ops) /\ <<"i2s">> \in Seq(Ops) /\ <<"hci">> \in Seq(Ops)
        /\ <<"reset", "name", "open">> \in Seq(Ops)
    BY DEF Ops, RestOps
  <2>2. /\ o.baudrate \in BOOLEAN /\ (o.fast /\ o.baudrate) \in BOOLEAN
        /\ o.bdaddr \in BOOLEAN /\ o.lpm \in BOOLEAN /\ o.scopcm \in BOOLEAN
        /\ o.i2s \in BOOLEAN /\ o.enable_hci \in BOOLEAN
    BY <1>2 DEF OptionType
  <2>3. Patchram(o) \in Seq(Ops)
    <3>1. /\ <<"minidriver">> \in Seq(Ops) /\ <<"two">> \in Seq(Ops)
          /\ <<"slow">> \in Seq(Ops) /\ <<"reset">> \in Seq(Ops)
      BY DEF Ops
    <3>2. Run(Packets) \in Seq(Ops)
      BY BoundsAssumption, RunTyped
    <3>3. (~o.no2bytes) \in BOOLEAN /\ o.fast \in BOOLEAN
      BY <1>2 DEF OptionType
    <3>4. If(~o.no2bytes, <<"two">>) \in Seq(Ops) /\ If(o.fast, <<"slow">>) \in Seq(Ops)
      BY <3>1, <3>3, IfTyped
    <3>5. Patchram(o) = <<"minidriver">> \o If(~o.no2bytes, <<"two">>) \o Run(Packets)
                        \o If(o.fast, <<"slow">>) \o <<"reset">>
      BY DEF Patchram, Run
    <3>6. QED
      BY <3>1, <3>2, <3>4, <3>5, ConcatProperties
  <2>4. /\ If(o.fast /\ o.baudrate, <<"baud">>) \in Seq(Ops)
        /\ If(o.baudrate, <<"baud">>) \in Seq(Ops) /\ If(o.bdaddr, <<"bdaddr">>) \in Seq(Ops)
        /\ If(o.lpm, <<"lpm">>) \in Seq(Ops) /\ If(o.scopcm, <<"sco", "pcm">>) \in Seq(Ops)
        /\ If(o.i2s, <<"i2s">>) \in Seq(Ops) /\ If(o.enable_hci, <<"hci">>) \in Seq(Ops)
    BY <2>1, <2>2, IfTyped
  <2>5. QED
    BY <2>1, <2>3, <2>4, ConcatProperties
<1>4. prog = most \o <<"exit">> /\ "exit" \in Ops
  BY <1>1 DEF Main, Ops, RestOps
<1> HIDE DEF most
<1>5. QED
  BY <1>3, <1>4, EndsWith DEF Ending

LEMMA EndingStep == ASSUME Types, Ending, [Next]_vars PROVE Ending'
<1>1. CASE prog' = prog
  BY <1>1 DEF Ending
<1>2. CASE prog' = Tail(prog) /\ Op # "exit"
  BY <1>2, Shorter DEF Ending, Types
<1>3. prog' = prog \/ (prog' = Tail(prog) /\ Op # "exit")
  BY DEF Next, Host, SendCmd, Expired, ReadHeader, ReadPayload, Answered, OpenPatchram, ReadTwo,
         SlowDown, Leave, CtlTake, CtlConfirm, Ended, vars, host, Done, Types, Commands
<1>4. QED
  BY <1>1, <1>2, <1>3

(* If no alarm fires over an answer that is on its way, each answer read   *)
(* is that to the command just sent (expired, read_event), with any file.  *)
THEOREM AnswersAnswer == Spec => []AnswersPaired
<1> DEFINE Inv == Types /\ Ending /\ Quiet /\ Alarm
<1>1. Init => Inv
  BY InvInit, EndingInit DEF IInv
<1>2. Inv /\ [Next]_vars => Inv'
  BY TypesStep, EndingStep, QuietStep, AlarmStep DEF Ending
<1>3. Inv => AnswersPaired
  BY DEF Quiet, AnswersPaired
<1>4. QED
  BY <1>1, <1>2, <1>3, PTL DEF Spec

(* When the program is done the controller was reset with the whole file   *)
(* in it, both ends of the line have the same speed, and no event is left  *)
(* on it (proc_patchram, proc_baudrate and the order of the calls in       *)
(* main).                                                                  *)
THEOREM DoneIsReady == ASSUME SomePackets PROVE Spec => []ReadyAtEnd
<1>1. Types /\ Quiet /\ Left => ReadyAtEnd
  <2> SUFFICES ASSUME Types, Quiet, Left, Behaves, status \in {"exit 0", "serving"}
               PROVE  /\ ctl.packets = Packets /\ ctl.mode = "ready" /\ hspeed = ctl.speed
                      /\ rx = << >>
    BY DEF ReadyAtEnd
  <2>1. Finishing /\ pc = "ended"
    BY DEF Left
  <2>2. ~Taken
    BY <2>1 DEF Taken
  <2>3. QED
    BY <2>1, <2>2 DEF Finishing, Over, Quiet
<1>2. QED
  BY <1>1, Invariant, PTL DEF IInv
=============================================================================
