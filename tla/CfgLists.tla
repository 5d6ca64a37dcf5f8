------------------------------ MODULE CfgLists ------------------------------
(***************************************************************************)
(* How rtb_fwc.c reads a configuration file and merges extra items into    *)
(* it (rtb_read_config, rtb_parse_config, merge_configs): two doubly       *)
(* linked lists, at the level of their pointers, because the merge frees,  *)
(* replaces and moves items of both lists while it walks along them.       *)
(***************************************************************************)
EXTENDS Integers, SequencesExt

CONSTANTS
  Inputs,    \* the cases considered, see InputType
  MaxItems,  \* items a case may allocate
  Wrap       \* where config_len, a uint16_t, starts again: 65536 in the code

cfg    == 0                    \* &list_configs
ext    == -1                   \* &list_extracfgs
Poison == -2                   \* LIST_POISON1 and 2
Ids    == 1..MaxItems
Nodes  == Ids \cup {cfg, ext}

(* An item of a configuration: where it goes and what it says. *)
Item(ofs, data) == [ofs |-> ofs, data |-> data]

(* The configuration file: how much of it is read; what the buffer then    *)
(* holds (after an error, what was in the memory before): items that pass  *)
(* the checks, items of which the last is cut short by the end of the      *)
(* buffer, or something else; the whole items.  The lines of the extra     *)
(* configuration, each with the length it announces; the item for the      *)
(* address, if there is a good address file.                               *)
Reads    == {"whole", "error", "short", "absent"}
Contents == {"good", "cut", "invalid"}
InputType(items, reads, contents, lines, macs) ==
  [items: items, read: reads, buf: contents, lines: lines, mac: macs]

Offset   == 0..65535
ItemType == [ofs: Offset, data: Seq(0..255)]
LineType == [ofs: Offset, len: 0..255, data: Seq(0..255)]

VARIABLES input, pc,
          line,                      \* the next line of the extra configuration
          next, prev, item, freed,   \* the heap: links, contents, what was freed
          alloc,                     \* items allocated so far
          bytes,                     \* what rtb_parse_config has still to read
          epos, enext, pos, nxt,     \* the cursors of merge_configs
          out                        \* the new contents of the file

heap == <<next, prev, item, freed, alloc>>
cursors == <<epos, enext, pos, nxt>>
vars == <<input, pc, line, heap, bytes, cursors, out>>

-----------------------------------------------------------------------------
(* The file format: an item is its offset, little endian, its length and   *)
(* its data.                                                               *)
Encode(it) == <<it.ofs % 256, it.ofs \div 256, Len(it.data)>> \o it.data
Encoded(items) ==     \* from each item on
  LET from[k \in 1..(Len(items) + 1)] ==
        IF k > Len(items) THEN << >> ELSE Encode(items[k]) \o from[k + 1]
  IN  from
Body(items) == Encoded(items)[1]
cfg_magic == <<85, 171, 35, 135>>
File(items) ==
  cfg_magic \o <<Len(Body(items)) % 256, Len(Body(items)) \div 256>> \o Body(items)

(* There is memory for every item and one address at most.  The length in  *)
(* the file has the width of config_len.                                   *)
ASSUME InputsAssumption ==
  /\ MaxItems \in Nat /\ Wrap \in Nat
  /\ \A in \in Inputs :
       /\ in \in InputType(Seq(ItemType), Reads, Contents, Seq(LineType), Seq(ItemType))
       /\ Len(in.items) + Len(in.lines) + Len(in.mac) <= MaxItems
       /\ Len(in.mac) <= 1 /\ Len(Body(in.items)) < Wrap

AddTail(node, head) ==
  /\ next' = [next EXCEPT ![node] = head, ![prev[head]] = node]
  /\ prev' = [prev EXCEPT ![head] = node, ![node] = prev[head]]

(* To follow the pointers of an item that was deleted and freed is         *)
(* undefined.  The model stops at such a place: pc = "crash".              *)
Sound(node) == next[node] # Poison /\ prev[node] # Poison

DelNext(node) == [next EXCEPT ![prev[node]] = next[node], ![node] = Poison]
DelPrev(node) == [prev EXCEPT ![next[node]] = prev[node], ![node] = Poison]

(* The items of a list, in order. *)
ListOf(head) ==
  LET hop[k \in 0..MaxItems] == IF k = 0 THEN next[head]
                                ELSE IF hop[k - 1] = head THEN head ELSE next[hop[k - 1]]
      len == CHOOSE k \in 0..MaxItems : hop[k] = head /\ \A l \in 0..(k-1) : hop[l] # head
  IN  [k \in 1..len |-> item[hop[k - 1]]]

-----------------------------------------------------------------------------
Init ==
  /\ input \in Inputs
  /\ pc = "lines" /\ line = 1
  /\ next = [n \in Nodes |-> n] /\ prev = [n \in Nodes |-> n]
  /\ item = [n \in Ids |-> Item(0, << >>)] /\ freed = {} /\ alloc = 0
  /\ bytes = << >> /\ epos = ext /\ enext = ext /\ pos = cfg /\ nxt = cfg
  /\ out = << >>

Allocate(it, head) ==
  /\ alloc' = alloc + 1
  /\ item' = [item EXCEPT ![alloc + 1] = it]
  /\ AddTail(alloc + 1, head)
  /\ UNCHANGED freed

(* line_process: a line without data, or whose length is not that of its   *)
(* data, is ignored.                                                       *)
WellFormed(l) == l.data # << >> /\ l.len = Len(l.data)

LineProcess ==
  /\ pc = "lines" /\ line <= Len(input.lines)
  /\ LET l == input.lines[line] IN
       IF WellFormed(l) THEN Allocate(Item(l.ofs, l.data), ext) ELSE UNCHANGED heap
  /\ line' = line + 1
  /\ UNCHANGED <<input, pc, bytes, cursors, out>>

(* The address goes last, so that it prevails over a line that sets it. *)
AddMac ==
  /\ pc = "lines" /\ line > Len(input.lines)
  /\ IF input.mac = << >> THEN UNCHANGED heap ELSE Allocate(Head(input.mac), ext)
  /\ pc' = "file"
  /\ UNCHANGED <<input, line, bytes, cursors, out>>

(* Without a file nothing is done with the extra items; a short read frees *)
(* them.  The -1 of a read that fails is stored in a size_t and compared   *)
(* with the length of the file: it is not less, and rtb_parse_config looks *)
(* at a buffer nothing was written to.                                     *)
Usable == input.read \in {"whole", "error"}

(* rtb_parse_config looks at the signature and the length.  Its -1 is      *)
(* stored in the same size_t and compared with 0: the error is not seen.   *)
Base == IF input.buf = "invalid" THEN << >> ELSE input.items

ReadFile ==
  /\ pc = "file"
  /\ bytes' = IF Usable THEN Body(Base) ELSE << >>
  /\ pc' = CASE Usable                -> "parse"
             [] input.read = "short"  -> "free"
             [] input.read = "absent" -> "none"
  /\ UNCHANGED <<input, line, heap, cursors, out>>

ParseItem ==
  /\ pc = "parse" /\ bytes # << >>
  /\ LET len == bytes[3] IN
     /\ Allocate(Item(bytes[1] + 256 * bytes[2], SubSeq(bytes, 4, 3 + len)), cfg)
     /\ bytes' = SubSeq(bytes, 4 + len, Len(bytes))
  /\ UNCHANGED <<input, line, pc, cursors, out>>

(* The last item is copied from behind the end of the buffer.              *)
ParseCut ==
  /\ pc = "parse" /\ bytes = << >> /\ input.buf = "cut"
  /\ pc' = "crash"
  /\ UNCHANGED <<input, line, heap, bytes, cursors, out>>

Parsed == pc = "parse" /\ bytes = << >> /\ input.buf # "cut"

(* merge_configs with one of the lists empty. *)
MergeEmpty ==
  /\ Parsed
  /\ \/ /\ next[ext] = ext
        /\ UNCHANGED <<next, prev>>
     \/ /\ next[ext] # ext /\ next[cfg] = cfg
        /\ next' = [next EXCEPT ![cfg] = next[ext], ![prev[ext]] = cfg, ![ext] = ext]
        /\ prev' = [prev EXCEPT ![next[ext]] = cfg, ![cfg] = prev[ext], ![ext] = ext]
  /\ pc' = "emit"
  /\ UNCHANGED <<input, line, item, freed, alloc, bytes, cursors, out>>

MergeBegin ==
  /\ Parsed /\ next[ext] # ext /\ next[cfg] # cfg
  /\ epos' = next[ext] /\ enext' = next[next[ext]]
  /\ pos' = next[cfg] /\ nxt' = next[next[cfg]]
  /\ pc' = "merge"
  /\ UNCHANGED <<input, line, heap, bytes, out>>

(* The inner loop goes on after the item was found, with extra freed or    *)
(* moved to the other list; the offset is still in the freed memory.  If   *)
(* it is found again, extra is deleted once more: from the other list, or  *)
(* after it was freed.                                                     *)
Step == pos' = nxt /\ nxt' = next'[nxt] /\ UNCHANGED <<epos, enext>>

MergeOther ==
  /\ pc = "merge" /\ pos # cfg /\ item[pos].ofs # item[epos].ofs
  /\ UNCHANGED heap /\ Step
  /\ UNCHANGED <<input, line, pc, bytes, out>>

(* Mutant: lengths compared the wrong way round.                           *)
MutShorter(a, b) == Len(a) > Len(b)

Shorter(a, b) == Len(a) < Len(b)

(* Update the data of the item, or ... *)
MergeUpdate ==
  /\ pc = "merge" /\ pos # cfg /\ item[pos].ofs = item[epos].ofs
  /\ Shorter(item[epos].data, item[pos].data)
  /\ IF Sound(epos)
     THEN /\ item' = [item EXCEPT ![pos].data =
                        [k \in DOMAIN @ |-> IF k <= Len(item[epos].data)
                                            THEN item[epos].data[k] ELSE @[k]]]
          /\ next' = DelNext(epos) /\ prev' = DelPrev(epos)
          /\ freed' = freed \cup {epos}
          /\ Step /\ UNCHANGED pc
     ELSE pc' = "crash" /\ UNCHANGED <<item, next, prev, freed, cursors>>
  /\ UNCHANGED <<input, line, alloc, bytes, out>>

(* Mutant: the extra item is not taken out of its own list.             *)
MutMergeReplace ==
  /\ pc = "merge" /\ pos # cfg /\ item[pos].ofs = item[epos].ofs
  /\ ~Shorter(item[epos].data, item[pos].data)
  /\ next' = [next EXCEPT ![epos] = next[pos], ![prev[pos]] = epos, ![pos] = pos]
  /\ prev' = [prev EXCEPT ![epos] = prev[pos], ![next[pos]] = epos, ![pos] = pos]
  /\ freed' = freed \cup {pos}
  /\ Step
  /\ UNCHANGED <<input, line, pc, item, alloc, bytes, out>>

(* ... put the extra item in its place. *)
MergeReplace ==
  /\ pc = "merge" /\ pos # cfg /\ item[pos].ofs = item[epos].ofs
  /\ ~Shorter(item[epos].data, item[pos].data)
  /\ IF Sound(epos)
     THEN LET dn == DelNext(epos)
              dp == DelPrev(epos)
          IN /\ next' = [dn EXCEPT ![epos] = dn[pos], ![dp[pos]] = epos, ![pos] = pos]
             /\ prev' = [dp EXCEPT ![epos] = dp[pos], ![dn[pos]] = epos, ![pos] = pos]
             /\ freed' = freed \cup {pos}
             /\ Step /\ UNCHANGED pc
     ELSE pc' = "crash" /\ UNCHANGED <<next, prev, freed, cursors>>
  /\ UNCHANGED <<input, line, item, alloc, bytes, out>>

(* The next extra item.  enext was read before this one was moved. *)
MergeNext ==
  /\ pc = "merge" /\ pos = cfg
  /\ IF enext = ext THEN pc' = "append" /\ UNCHANGED cursors
     ELSE /\ epos' = enext /\ enext' = next[enext]
          /\ pos' = next[cfg] /\ nxt' = next[next[cfg]]
          /\ UNCHANGED pc
  /\ UNCHANGED <<input, line, heap, bytes, out>>

(* What is left of the extra items is new. *)
AppendNew ==
  /\ pc = "append" /\ next[ext] # ext
  /\ LET node == next[ext]
         dn == DelNext(node)
         dp == DelPrev(node)
     IN /\ next' = [dn EXCEPT ![node] = cfg, ![dp[cfg]] = node]
        /\ prev' = [dp EXCEPT ![cfg] = node, ![node] = dp[cfg]]
  /\ UNCHANGED <<input, line, pc, item, freed, alloc, bytes, cursors, out>>

MergeDone ==
  /\ pc = "append" /\ next[ext] = ext
  /\ pc' = "emit"
  /\ UNCHANGED <<input, line, heap, bytes, cursors, out>>

(* realloc gets config_len, which has wrapped if the items are too long    *)
(* together: they are then written behind the end of the buffer.           *)
Emit ==
  /\ pc = "emit"
  /\ IF Len(File(ListOf(cfg))) < Wrap THEN out' = File(ListOf(cfg)) /\ pc' = "free"
                                      ELSE pc' = "crash" /\ UNCHANGED out
  /\ UNCHANGED <<input, line, heap, bytes, cursors>>

(* config_lists_free: what is left in the second list joins the first, and *)
(* the items of that are freed.                                            *)
FreeSplice ==
  /\ pc = "free" /\ next[ext] # ext
  /\ next' = [next EXCEPT ![prev[cfg]] = next[ext], ![prev[ext]] = cfg, ![ext] = ext]
  /\ prev' = [prev EXCEPT ![next[ext]] = prev[cfg], ![cfg] = prev[ext], ![ext] = ext]
  /\ UNCHANGED <<input, line, pc, item, freed, alloc, bytes, cursors, out>>

FreeItem ==
  /\ pc = "free" /\ next[ext] = ext /\ next[cfg] # cfg
  /\ LET n == next[cfg] IN
       IF n \in freed \/ ~Sound(n)
       THEN pc' = "crash" /\ UNCHANGED heap
       ELSE /\ next' = DelNext(n) /\ prev' = DelPrev(n) /\ freed' = freed \cup {n}
            /\ UNCHANGED <<pc, item, alloc>>
  /\ UNCHANGED <<input, line, bytes, cursors, out>>

FreeDone ==
  /\ pc = "free" /\ next[ext] = ext /\ next[cfg] = cfg
  /\ pc' = IF Usable THEN "done" ELSE "none"
  /\ UNCHANGED <<input, line, heap, bytes, cursors, out>>

Returned == pc \in {"done", "none", "crash"}

Finished == Returned /\ UNCHANGED vars

Next == \/ LineProcess \/ AddMac \/ ReadFile \/ ParseItem \/ ParseCut \/ MergeEmpty \/ MergeBegin
        \/ MergeOther \/ MergeUpdate \/ MergeReplace \/ MergeNext \/ AppendNew
        \/ MergeDone \/ Emit \/ FreeSplice \/ FreeItem \/ FreeDone \/ Finished

Spec == Init /\ [][Next]_vars

-----------------------------------------------------------------------------
(* What the merge is for, without lists: each extra item in turn replaces  *)
(* the item with its offset, or overwrites its beginning if it is shorter; *)
(* the others are appended in order.                                       *)
Apply(acc, e) ==
  LET hit == {k \in DOMAIN acc.base : acc.base[k].ofs = e.ofs}
      new(old) == IF Len(e.data) < Len(old.data)
                  THEN Item(e.ofs, e.data \o SubSeq(old.data, Len(e.data) + 1, Len(old.data)))
                  ELSE e
  IN  IF hit = {} THEN [acc EXCEPT !.rest = Append(@, e)]
      ELSE [acc EXCEPT !.base = [k \in DOMAIN @ |-> IF k \in hit THEN new(@[k]) ELSE @[k]]]

Applied(base, extras) ==     \* after each extra item
  LET acc[k \in 0..Len(extras)] ==
        IF k = 0 THEN [base |-> base, rest |-> << >>] ELSE Apply(acc[k - 1], extras[k])
  IN  acc

Merged(base, extras) ==
  LET acc == Applied(base, extras)[Len(extras)] IN acc.base \o acc.rest

(* The items of the well-formed lines, in order. *)
Taken(lines) ==     \* up to each line
  LET acc[k \in 0..Len(lines)] ==
        IF k = 0 THEN << >>
        ELSE IF ~WellFormed(lines[k]) THEN acc[k - 1]
        ELSE Append(acc[k - 1], Item(lines[k].ofs, lines[k].data))
  IN  acc

Extras == Taken(input.lines)[Len(input.lines)] \o input.mac

(* The files the code is made for, and does not check for: no item is cut  *)
(* short, no two of them have the same offset (merge_configs would delete  *)
(* an extra item twice), and the new file is not too long for config_len.  *)
Tame ==
  /\ Usable => input.buf # "cut"
  /\ \A j, k \in 1..Len(Base) : Base[j].ofs = Base[k].ofs => j = k
  /\ Len(File(Merged(Base, Extras))) < Wrap

(* At every step both lists are whole rings of live items, whatever is in  *)
(* the files, up to the place where the code's behaviour is undefined:     *)
(* nothing freed is linked, next and prev are inverse, no item is in a     *)
(* ring of its own (merge_configs walks both lists while it deletes,       *)
(* replaces and moves items of either, also those of an offset that is     *)
(* there twice: list_del, list_replace_init, list_splice_tail); and when a *)
(* configuration was returned no item is left (config_lists_free).         *)
RingsWhole ==
  LET live == {cfg, ext} \cup {n \in Ids : n <= alloc /\ n \notin freed}
  IN  /\ pc = "done" => live = {cfg, ext}
      /\ \A n \in live :
        /\ next[n] \in live /\ prev[n] \in live
        /\ prev[next[n]] = n /\ next[prev[n]] = n
        /\ n \in Ids => next[n] # n
=============================================================================
