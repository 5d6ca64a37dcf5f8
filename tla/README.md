# meta-rockchip: models and proofs of its run-time programs

meta-rockchip is a Yocto BSP layer. Most of it is build metadata and patches to other
projects. Its own run-time logic is a handful of programs and scripts: the Realtek attach
program `rtk_hciattach`, which brings up the Bluetooth controller of every board over a serial
line, its Broadcom counterpart `brcm_patchram_plus1`, and the scripts of the Bluetooth service,
of the first boot and of the USB gadget for adb. This directory models them in TLA+, checks them
with TLC and proves their main invariants with TLAPS.

Paths below without a directory are in `src/recipes-devtools/rtl-tools/files/`.

## Inventory

| component | state | operations | interacts with | modules |
|---|---|---|---|---|
| H5 link (`hciattach_rtk.c`) | `rtb_struct`: link state, sequence numbers, owed acknowledgement, awaited command, counters and indices of the download; a timerfd, a retry counter | SYNC, CONFIG, version commands, SET_BAUD, patch download, HCI_RESET; a wait loop each; the receive handlers | controller over the serial line; the framing; `rtb_config` | `H5Defs`, `H5Link`, `CmdPipe` |
| H5 framing (`hciattach_rtk.c`) | `rx_state`, `rx_count`, escape state, CRC, receive buffer | `h5_prepare_pkt`, `h5_recv` byte by byte | called by the link | `H5Rx`, `H5Crc` |
| `rtb_config` (`hciattach_rtk.c`, `rtb_fwc.c`) | versions, chip type, row of the table, speeds | identify the controller, choose row, files, speed; check project and size | the link or H4; the files | `RtbConfig` |
| configuration files (`rtb_fwc.c`) | two linked lists, a buffer | read, merge with the extra items, write, free | `rtb_config` | `CfgLists`, `FwFiles` |
| firmware images (`rtb_fwc.c`) | offsets into the file | find the project id, the patch, make the buffer | `rtb_config`, the configuration | `FwImage`, `FwFiles` |
| H4 transfer (`hciattach_h4.c`) | place in an event, what is read of it | send a command, poll for its completion; the download | controller without sequence numbers | `H4Xfer` |
| life cycle (`hciattach.c`) | alarm, handlers, flag, descriptors, line discipline | set up, detach, wait, recover, stop | kernel, rfkill, the service | `Attach` |
| Bluetooth start service (`vaaman-bt-start`) | the unit's state | rfkill, start, restart on failure | the life cycle | `Attach` |
| Broadcom download (`brcm_patchram_plus1.c`) | alarm, read buffer, speed | reset with a repeating alarm, name, download, speed, options | controller over H4 | `PatchRam` |
| first boot (`rockchip.sh`, `rk-resize-helper`, `mountboot.sh`) | two marker files, partition, mounts | grow the file system, update the boot loader, reboot | each other through files; power | `FirstBoot` |
| USB gadget (`android-gadget-*`, `adbd.sh`, its unit) | configfs tree, mounts | set up, start, stop, clean up | adbd, configfs, functionfs | `Gadget` |
| `io.c`, `dhd_priv.c`, daemon scripts, `classes/`, recipes | none of interest | | | not modelled |

How they interact: the service starts the life cycle, which calls `rtb_init`; that identifies the
controller and decides what to load (`RtbConfig`, with the files of `CfgLists` and `FwImage`,
composed in `FwFiles`), over one of two transports (`H5Link` on `H5Rx`, or `H4Xfer`). Each module
treats the layer below as one step with the outcomes that layer's model has.

What is hard:

* H5: the wait loops handle every descriptor that `epoll_wait` returned before they test their
  condition, so that a command may be repeated after it was answered. The line loses packets,
  and repeated events are dropped without an acknowledgement. The padding of the download depends
  on a count of completions, its end on bit 7 of an index that wraps, and some controllers
  restart their numbers, which is recognised by comparing indices.
* H4: nothing but the order of bytes tells events apart; reads may be cut anywhere.
* Life cycle: alarm, signals and hang-ups at any place; a recovery that goes back to `start` with
  everything still open; failures that must not look like success to the service.
* Lists: the merge frees, replaces and moves items of two lists while it walks both.
* Tables: first match wins, rows leave fields open, and chip types share values.
* Broadcom: a signal handler repeats a command while the program blocks in `read`.
* First boot: three markers of different age against power loss; two units without an order.
* Gadget: set-up stops at its first failure, clean-up passes over all of them, and the daemon
  ends when it likes.

`PROJECT.json` lists every hazard with its line and the properties about it.

## Modules

### H5Link

The program is one thread. `op` is the operation it performs and `pc` its place:

    issue  --SendLinkReq, SendCommand, SendPatch-->  poll  --Poll-->  batch
    batch  --Recv*, Retransmit, until ready is empty-->  LoopAgain (poll) or *Done (issue)
    batch  --GiveUp-->  exit          speed --SetSpeed--> load --StartDownload--> issue ... done

`start_transmit_wait` and the loop of `h5_download_patch` have the same structure and share
these actions; they differ in their condition (`Answered`) and limit (`MaxRetry`). `Poll` picks
the set of ready descriptors and their order; `ready` is what is left of that batch. One read
may bring several packets: `burst` counts those of the current read. `Recv*` are `h5_recv` and
`h5_complete_rx_pkt` on whole packets: an event in sequence (`RecvEvent`, with
`hci_recv_frame`, `h5_init_hci_cc` and `h5_post_hci_cc` in `HciRecvFrame`), an event out of
sequence (`RecvOutOfOrder`), a link control packet (`RecvLinkCtl`), an acknowledgement
(`RecvAck`), and bytes that are no packet (`RecvNothing`). `out` is the packet kept for
retransmission, byte for byte, so it repeats its old acknowledgement as the code does.

The variables of `struct rtb_struct` keep their names. `cmd_state.state` is `cmd_ok`. Payloads
are abstracted to what the handlers tell apart: the command, the index byte and the status.
The epoll timeout of `start_transmit_wait` adds nothing to the timerfd: a wait that returns
no descriptor tests the condition again, which is `LoopAgain` without a step.

The controller and the line are external and modelled as the host's code takes them to be: a
go-back-N peer that executes a command with the expected number, acknowledges any other, repeats
unacknowledged events, may restart its numbers after the last packet, may refuse commands and
download packets, changes its speed some time after SET_BAUD, and may send events of its own. The
line keeps order, loses what does not fit, up to a number of other packets, and everything sent
while its ends run at different speeds. A member of `Chips` is a controller with its configuration
(`Device`) and what may go wrong with it (`Faults`): capacity and losses of the line, packets sent
unasked, operations refused, late answers. Both are chosen in the initial state and kept (`chip`,
`line`), so that one run covers several kinds of trouble. `issued`, `executed`, `completed`,
`refused` and `applied` are history; `refused` is about commands only, as the program does not
look at the status of a download packet's completion and takes a refused packet for an accepted
one.

`CmdPipe` is the abstract specification: issue, execute, complete, one command at a time, until
the host gives up. `Pipe == INSTANCE CmdPipe` is the refinement mapping: the history counters
are the pipe, giving up is `pc = "exit"`. `PipeSpec` is checked as a property.

### H5Rx and H5Crc

One action per branch of the loop of `h5_recv`. `rx_count > 0` is the byte-by-byte part
(`ShortPacket`, `EscapeByte`, `PlainByte`, `EscapedByte`, `InvalidEscape`); `rx_count = 0` the
switch (`HeaderDone`, `DataDone`, `CrcDone`, `Delimiter`, `PktStart`). `live` is whether the
buffer is allocated. `skb_put` on a full buffer ends the program: `exited`. `PreparePkt` is
`h5_prepare_pkt`, and the environment feeds its output to the line intact, damaged in one byte
(replaced, lost or inserted), or feeds stray bytes. How much of each is a property of the line,
chosen in the initial state (`Lines`, `line`). `H5Crc` holds the CRC and the bit reversal; the
proofs are for any CRC function.

The link model uses whole packets: `h5rx` justifies that abstraction (a
damaged frame is a lost one, a good frame is delivered unchanged), as far as one damaged byte
goes.

### H4Xfer

`start_xfer_wait` is the states `type`, `header` and `payload` of `pc`, one action per read that
`poll` reports; `line` is the bytes not read yet. `Judge` is what is done with an event that is
read, `Outcome` the comparison itself, on a buffer that was cleared before: bytes that were not
read are zero (`At`). `Succeeded` and `Failed` are the callers: the results of the version
commands and of the change of speed are ignored, a download packet's is compared with the index
(`Mismatch`), which a failure stores as 255. `offset` is the pointer into the data, moved on by
`PastData`. The environment answers each command with one completion or a refusal, sends events
of its own, and may hang up; which of these, and whether it answers within a second, is part of
`chip`.

### Attach

`pc` is the place in `main`; `"none"` is no process. Each system call of `init_uart` is an
action, any of which may fail (`SetupFails`); `rtb_init` is one (`InitDevice`). `TestFlag` and
`Block` are separate, as the code tests the flag and then blocks. `revents` is `"junk"` until
`p.revents` is set, as the variable on the stack is not initialised. `fds` counts descriptors
that are open: a recovery goes back to `start` without closing the port or the epoll descriptor.
`Term` is SIGTERM or SIGINT at any place; what it does depends on the place. The service is the
variable `svc`: script steps, launch, restart when the script failed. `gaveUp` remembers that
`fork` (the failing branch of `Fork`) or `ppoll` (`PollFails`) failed in this process: `main` takes
both for an end and returns 0. A process run by
hand (`svc = "manual"`) detaches and has no service; `Detach` is that choice.

### RtbConfig

The tables of `rtb_fwc.c` with the values of `rtb_fwc.h`, and the steps of `rtb_config` from the
versions to the download. A controller (`Answers`) is what a row of the tables says of it; a row
that leaves something unlooked at gives a value no other row of the same subversion claims, and
the chip type is a four-bit number, as the field of the answer is. `Images` are its own, those
of other projects, one without the extension section, or none. `lost` are the
version commands without an answer, which over H4 leaves zeros. `Unreached`, `NoProject` and
`OverH4` are the controllers that the code gives up on whatever image is installed; they are listed
under "Findings". `CasesAssumption` says that the cases are controllers of the tables and project
ids within `project_id[]`.

### CfgLists

The heap: `next`, `prev`, `item` and `freed`, with two static heads `cfg` and `ext`.
`list_add_tail`, `list_del`, `list_replace_init` and `list_splice_tail` are translated pointer by
pointer, with the poisoned links of a deleted item (`Poison`); following one is the state
`crash`. `merge_configs` is one action per iteration of its inner loop, its safe cursors
included (`nxt`, `enext`). A configuration is parsed and written byte by byte (`Encoded`).
A case says how much of the file is read (`Reads`: a read that fails is taken for a whole one,
`Usable`) and what the buffer then holds (`Contents`: good items, a last item cut by the end of the
buffer, or something that fails the checks, which is used as an empty configuration, `Base`).
Repeated offsets are allowed: `merge_configs` then deletes an extra item a second time, and where it
does so through poisoned links the model stops in `crash`, as it does behind a cut item and where
`config_len` wraps (`Wrap`). `Tame` names the files where none of this happens.
`InputsAssumption` says what a case is: bytes and 16-bit offsets, room for every item, one address
at most. `Merged` states what the merge is for, without lists.

### FwImage

`src` is the image as its maker sees it, which `File` lays out from patches and extension fields;
`image` is the bytes read, which are those (`Intact`) or any others. The actions read `image` as
`rtb_get_fw_project_id`, `rtb_get_patch_entry` and `rtb_get_final_patch` do. Every read states its
span (`Reading`): the code looks at two signatures and at no offset or length, and a read outside
of the file leads to the state `outside`, where the model stops. `PatchType` and `FieldType` say what
the maker's sizes can be; a patch may be shorter than the twelve bytes that are read at its end.

### FwFiles

Composes the two as `rtb_config` does: the configuration is read and merged first, then the image
is read and the buffer made from its patch and whatever `rtb_read_config` returned (`config_buf`).
`FwImage` is instantiated; its place is `stage`.

### PatchRam

`prog` is the list of operations that `main` still has to do for the command line (`Main`,
`Patchram`), `pc` the step of the one in progress. `Expired` is the signal handler: it may send
another HCI reset between any two steps, whichever operation is in progress, as long as the
alarm is armed. `tx` carries commands with the speed they were sent at, `rx` bytes. `Cases` are
command lines with controllers (`ControllerType`): one may miss its first resets, refuse commands,
confirm the minidriver, or answer so late that an alarm fires over its answer.

### FirstBoot

`mem` and `disk` are the files as read and as they survive; `Writeback` and `Reboot` write out,
`PowerLoss` goes back to `disk`. `script` is the next step of `rockchip.sh` with
`rk-resize-helper` inlined, `mount` that of `mountboot.sh`. A command that fails ends its script
(`bash -e`).

### Gadget

`items` are the directories and the link of configfs, with `Within` for what configfs refuses to
remove; `mounts` counts functionfs mounts stacked on the directory, `held` the one adbd has open.
Scripts are step lists (`SetupSteps`, `CleanupSteps`); set-up stops at a failing step, clean-up
passes over it. A start that finds no USB controller to write succeeds without binding
(`NoController`). `systemd` is the caller, chosen in the initial state: the unit, which waits for the
daemon's end before clean-up, or `adbd.sh`, which does not.

The `MC*` modules hold the instances, the `*Proofs` modules the theorems; `ServiceProofs` is about
`Attach` and `FirstBoot`, the two units started with the system. Definitions with the prefix `Mut`
are deliberate bugs that the properties are tested with; nothing uses them.

## Runs

| run | properties | instances and bounds |
|---|---|---|
| `h5_safety` | `PipeSpec`, `CountedOnce`, `ResetAfterAll`, `RefusalIsFatal`, `NextSeqZero`, `NeverGivesUp`, `TypeOK` | `Lossy`: two data packets with their padding, 2 losses, late timers; `Refusing`: a change of speed, three commands and the packets that may be refused, 1 loss; `RefusingPackets`: refused packets with two of the controller's events on the line, 1 loss, with and without restarted numbers; `Restarting`: restarted numbers, 2 losses, 2 unasked packets; `EveryResidue`: sizes 1 to 9 with every command sequence, and 127, 128, 129 and 241 packets; lines of two or three packets |
| `h5_live` | `Terminates`, `Attaches` | prompt controllers with one lost packet; one with a change of speed and no loss; one that may never answer |
| `h5rx` | `IntactDelivered`, `BufferFits`, `BufferLive`, `NoForgery`, `ReadsAll` | the real CRC; line `sync`: five stray bytes and one of five frames, intact or damaged at any byte to a sample of values; line `crc`: two frames of three kinds, one damaged byte of twelve values at any place |
| `h4` | `DataInOrder`, `NoticedUpToLast`, `OkMeansExecuted`, `Terminates`, `Attaches` | one to three packets with refusals, up to 2 unasked events of three kinds, cut headers and parameters, a hang-up, late answers; controllers that answer between events of other kinds; 127, 128, 129 and 261 packets |
| `attach` | `Serving`, `SuccessExplained`, `ServesAgain` | under the service and by hand; 5 descriptors, 3 failures, 4 hang-ups, 2 signals |
| `rtb` | `OwnEntry`, `ForeignRefused`, `Accepted`, `RightRom` | all 24 controllers of the tables, images of eleven projects, seven configurations, three sizes, lost answers over H4 |
| `fw_files` | `RingsWhole`, `ProjectRight`, `Downloaded` | seven files, three of them with an offset that is there twice, up to three of five lines, two of them malformed, with or without an address (up to seven items); one file in every state of reading and content; `config_len` wraps at 30; all with one image; five patch lists with up to three of six extension fields and three ROM versions, with and without a configuration; one image damaged: each byte to four values, the length of its last field to all, cut at every place |
| `patchram` | `AnswersPaired`, `ReadyAtEnd`, `NotTorn`, `Ends` | every command line but options that follow each other without a change of speed, which go together; 2 packets, up to 2 missed resets, 3 alarms, with and without refusals and alarms over answers |
| `boot` | `RebootsOnce`, `RecordTrue`, `Settles` | 3 power losses, 2 failing commands |
| `gadget` | `NothingLeft`, `DownMeansGone`, `NeverInTheWay`, `CallsEnd` | the unit and `adbd.sh`; 4 calls, 2 failing steps |

The runs `h5_rollover` and `h5_longreset`, which end in a violation, are under "Findings".

Instances of different kinds share a run: each is chosen in the initial state and never changes,
so the run explores their state spaces one beside the other. A property that claims something of
controllers of one kind says so by a condition on that choice (`Willing`, `Attachable`, `Behaves`,
`OverH4`).

Why the bounds are enough. H5: sequence numbers wrap at eight and the padding makes even the
shortest download reach eight commands, so every instance wraps them. The window of a
stop-and-wait client holds one command and at most two events, so a line of two or three packets
fills. Two losses let an acknowledgement and its repetition, or a command and its repetition, be
lost; the races of the timer with an answer need no loss. `MaxRetry` is the code's own limit. The
download lengths take every residue of the padding and both sides of the boundaries of the index.
H4: each transfer starts with an empty buffer and keeps nothing of the one before but unread
bytes, so two stray events put one before and one inside an answer. Attach: a second attach needs
two descriptors beyond those the first left, so five are used up by the second recovery, inside
the four hang-ups; `ServesAgain` then needs the service. By hand the child closes what its parent
had open, and the hang-ups exceed what five descriptors allow. The lists: an extra item is
shorter, equal, longer, new, first, in the middle, last or repeated, on either side, and three
lines and an address combine them. `Wrap` is 65536 in the code; at 30 the instances are on both
sides of it. The tables are the code's, whole. First boot: each loss of power may fall between any
two steps of a script of eight, and the second and third into the boot that follows. Gadget: four
calls reach a start over the remains of a stop over those of a start.

`prompt` narrows a controller: it answers and repeats within the host's timeout, and its change of
speed falls within the host's 50 ms sleep. It is `TRUE` where success is claimed, for the two H5
violations, so that these do not rest on a slow controller, and in `Restarting`, whose unasked
packets would otherwise multiply with every late timer; `Lossy`, `Refusing` and `Difficult` have it
`FALSE`. In `PatchRam` it is about the alarm: four seconds are enough for an answer on its way.
Without it an answer to a repeated reset may be taken for the next command's, and as the answers
are shifted the program may wait for one that does not come; so deadlock is not checked there.

### Fairness

`H5Link`: `HostFairness` is weak fairness of the host, which is a running process, and strong
fairness of `Expire`: a timerfd expires whatever the program does, but the model lets it expire
only while the program polls, which it leaves again and again. `ChipFairness` is weak fairness of
the receiving, repeating and changing speed of a controller that is `prompt`; of one that is not,
nothing is assumed, and `Terminates` holds for it all the same. Nothing is assumed of losses: they
are bounded.
`H5Rx`: weak fairness of the receive loop for `ReadsAll`.
`H4Xfer`: weak fairness of the host, and of the answer of a controller that is `prompt`;
`Terminates` covers those that are not.
`Attach`: weak fairness of the process and of the service's steps (systemd restarts after two
seconds, the script goes on). Nothing of hang-ups, failures or signals.
`PatchRam`: weak fairness of the program, the alarm, which the kernel delivers, and the
controller, which the property is about.
`FirstBoot`: weak fairness of the two scripts. `Gadget`: of the scripts; and of the daemon's end
only once systemd waits for it, as it sends SIGKILL in the end.

## Findings

Two runs violate a property that states what a comment of the repository says.

| run | what the trace shows |
|---|---|
| `h5_rollover` | `rtb_download_fwc` (1509-1515) says that the index never reaches 0x80 but computes it for packet 255, which is then taken for the last one; the size limits allow downloads that long for the 8852 chips |
| `h5_longreset` | `h5_recv` (867-872) tells a controller that restarts its numbers by `tx_index == total_num`; the former is modulo 128, so with more than 128 packets the restart is not recognised and the program gives up on a line that loses nothing |

Other places where the code does less than its comments or messages say. The models have the
code's behaviour; no run is about these, and the properties are stated beside them.

* H4: the refusal of the last download packet passes the comparison (`hciattach_rtk.c` 1547), and
  the reset follows though the controller did not apply the firmware (comment at 1563).
* H5: in the state `H5_PATCH` neither opcode nor status of a completion is looked at
  (`hciattach_rtk.c` 684-699), so that a refused download packet goes unnoticed and the attach
  succeeds.
* `hciattach.c` 541-551: a `fork` that fails returns -1, which is taken for a child's number: the
  program returns 0 and nobody serves. 565-570, 590: a `ppoll` that fails with another error than
  EINTR, or reports POLLNVAL, leads to a return of 0 as well, and the service does not start again.
* `hciattach.c` 563-565: a signal between the test of `__io_canceled` and `ppoll` only sets the
  flag, and the process sleeps until a hang-up. After a hang-up it goes back to `start` (587)
  without a look at the flag.
* `rtb_fwc.c` 1090: the -1 of `rtb_parse_config` is stored in a `size_t` and compared with zero, so
  an invalid file is used as an empty one ("Invalid Config content" is never said). 1082: the -1 of
  `read` passes the same comparison, and a buffer nothing was written to is parsed. 599-617: of an
  offset that is in the file twice the merge deletes the extra item twice. 665-684: the last item
  may reach behind the end of the file. 1162: `config_len` is 16 bits wide.
* Controllers the tables name and the code never accepts: RTL8852CS, whose chip type 0x77 is
  compared with four bits (615); RTL8723CS, whose project ids are in no entry of `project_id[]`
  (`rtb_fwc.c` 1455); RTL8761 over H4, which is asked for its chip type over the three-wire
  protocol (1816). `Accepted` leaves them out. The row of the RTL8723BS has the chip type of the
  RTL8852BS, so its address goes to 0x30 and not to the 0x3c of `case CHIP_8723BS`.
* `brcm_patchram_plus1.c` 711: no status of an event is looked at, and the program returns 0 over
  an error; 836: one `read` of two bytes may return one, and the other is taken for an event.
* `rockchip.sh` 19-21: the marker is made first, so that after a power loss "First boot already
  completed" is said of one that was not; 24: `u-boot-update` may write to `/boot` before
  `mountboot.sh` has mounted it. `rk-resize-helper.service` calls its helper without an argument,
  which does nothing.
* `android-gadget-start` 7: the wait ends when adbd has ep0 open, before its descriptors are
  written, and the bind is refused; `adbd.sh` 29: `stop` does not wait for adbd, the mount is busy
  and stays, and "Stopping ... ." is said.

`Attaches` claims success with a change of speed only on a line that loses nothing, because
SET_BAUD has no retransmission: there one lost packet ends the program, as written. It leaves out
unasked events: after the last packet the host adopts whatever number comes, so that one loss and
one event of the controller's own can make it acknowledge an event it never took, and the attach
fails.

## Proofs

| theorem | statement | assumptions |
|---|---|---|
| `TypeCorrect` (`H5LinkProofs`) | `Spec => []TypeOK` | those on the constants |
| `CountExact` (`H5LinkProofs`) | `Spec => []CountedOnce` | no controller of `Chips` sends packets unasked (`Quiet`) |
| `SeqAligned` (`H5LinkProofs`) | `Spec => []NextSeqZero` | `Quiet` |
| `PaddingAligns` (`H5LinkProofs`) | commands, padded download and HCI_RESET are a multiple of 8 | none |
| `RollOverSparesBit7` (`H5LinkProofs`) | the index keeps bit 7 clear up to packet 254 | none |
| `RefusalFatal` (`H5LinkProofs`) | `Spec => []RefusalIsFatal`: commands, not download packets, which any controller may refuse unnoticed | `Quiet` |
| `ImplementsPipe` (`H5LinkProofs`) | `Spec => PipeSpec`, the refinement of `CmdPipe` | `Quiet` |
| `ResetLast` (`H5LinkProofs`) | `Spec => []ResetAfterAll` | `Quiet`; the index of the firmware's last packet is at most 247 (`Short`) |
| `Persists` (`H5LinkProofs`) | `Spec => [](Favourable => NeverGivesUp)` | none; `Favourable` is stated of the behaviour: a controller that refuses and sends nothing of its own, a line that loses nothing and holds two packets, at most 248 data packets, 121 if the controller restarts its numbers |
| `ListsWhole` (`FwFilesProofs`) | `FilesSpec => []RingsWhole`, for all files, up to the place where the behaviour is undefined | `InputsAssumption` |
| `ReadBack` (`FwFilesProofs`) | what is written of a list of items is what is parsed, item by item | none |
| `ProjectAlwaysRight` (`FwFilesProofs`) | `FilesSpec => []ProjectRight`, which is about intact images | `ImagesAssumption` |
| `PatchAlwaysRight` (`FwFilesProofs`) | `FilesSpec => []Fw!PatchRight(config_buf)`, which is about intact images, and says of them that nothing is read outside | `ImagesAssumption` |
| `DownloadAlwaysRight` (`FwFilesProofs`) | `FilesSpec => []Downloaded`, which is about intact images and files that are `Tame` | `InputsAssumption`, `ImagesAssumption` |
| `OwnEntryAlways`, `ForeignAlwaysRefused` (`RtbConfigProofs`) | `Spec => []OwnEntry`, `Spec => []ForeignRefused` | `CasesAssumption` |
| `RightRomAlways`, `AcceptedAlways` (`RtbConfigProofs`) | `Spec => []RightRom`, `Spec => []Accepted` | `CasesAssumption` |
| `BufferFitsAlways`, `BufferLiveAlways` (`H5RxProofs`) | `Spec => []BufferFits`, `Spec => []BufferLive` | the buffer has 0x1005 bytes, `FramesAssumption` |
| `IntactAlways` (`H5RxProofs`) | `Spec => []IntactDelivered` | the same |
| `DataAlwaysInOrder` (`H4XferProofs`) | `Spec => []DataInOrder` | those on the constants |
| `RefusalNoticed` (`H4XferProofs`) | `Spec => []NoticedUpToLast` | no event sent unasked has a command's code in it (`Unlike`) |
| `NoAnswerMistaken` (`H4XferProofs`) | `Spec => OkMeansExecuted` | `Unlike` |
| `AnswersAnswer` (`PatchRamProofs`) | `Spec => []AnswersPaired` | none |
| `DownloadNotTorn`, `DoneIsReady` (`PatchRamProofs`) | `Spec => []NotTorn`, `Spec => []ReadyAtEnd` | the file has a packet in it (`SomePackets`) |
| `ServingAlways`, `SuccessExplainedAlways` (`ServiceProofs`) | `Spec => []Serving`, `Spec => SuccessExplained` | those on the constants |
| `RebootsOnceAlways`, `RecordTrueAlways` (`ServiceProofs`) | `BootSpec => []RebootsOnce`, `BootSpec => []RecordTrue` | none |
| `NeverInTheWayAlways` (`GadgetProofs`) | `Spec => NeverInTheWay` | none |
| `NothingLeftAlways`, `DownMeansGoneAlways` (`GadgetProofs`) | `Spec => NothingLeft`, `Spec => []DownMeansGone` | none |

They hold for every value of the constants that satisfies the assumptions: every set of
controllers, download size, line capacity, number of losses, failures, signals or calls, and
every frame, damage and CRC function.

The count. `CountedOnce` is not inductive: that an event completes the current command once
rests on what else may be on the line. `IInv` adds it. `Stage` ties `op`, `pc` and the link
state together; `Counts` says how many commands were issued and completed at each place, with at
most four before the download, so that numbers do not wrap there; `Numbering` says that before
the download everything on the line, kept or unacknowledged, carries a number already issued;
`Expected` says that the host expects the number of the command it waits for until it has its
completion, and the next one after. So an event in sequence answers the current command and can
only be accepted once. From then on the count is fixed, the download is `TotalIdx` packets, and
`PaddingAligns` gives `SeqAligned`. With unasked events the numbers of host and controller drift
apart (`cexp # ctx`) and `Numbering` fails; that case is model-checked (`Restarting` in `h5_safety`).

The pipe. `PInv` says which packets may be in flight. A command on the line is one the controller
has executed or the one it awaits, and none it has executed is behind that one (`CmdsOn`). An event
is the completion of the current command (`Fresh`) or of the one before (`Stale`), told apart by
number and content, in that order, and only the former once the command is completed (`EvtsOn`).
`Sync` says that the controller is at most one command behind, `Kept` what is retransmitted,
`Settled` that a completed command was executed and not refused, and `FirstPacket` covers the one
case where content does not tell the two apart: the first packet, whose index is compared with one
that the commands before left behind. `RefusalFatal` and the steps of `ImplementsPipe` follow from
`PInv` and `IInv`. `ResetLast` needs `Short`: with more packets the padding takes the index past
254, where `RollOver` sets bit 7 and the controller takes the packet for the last (see the finding of
`h5_rollover`). `Late` adds that by the time the link is in a state after the download every
packet of it has been executed.

The retransmission limits. `NeverGivesUp` counts what is retransmitted between two losses, and
without a loss nothing has to be. `Phased` follows one operation: nothing is asked (`Rest`), the packet
is on its way (`Asked`), its answer is (`Told`), or its answer was dropped for its number, because the
controller restarted its numbers with the last packet, and is coming again (`Dropped`). In each the
line holds that and at most an acknowledgement, and the numbers of the two sides agree but for the
restart, which costs one retransmission. The bounds are those of `Favourable`: with more packets the
index passes 254 or, with the restart, a bit is set in an index that is still compared; the runs
`h5_rollover` and `h5_longreset` show what becomes of such downloads.

The lists. `Rings` says that the live nodes form two rings, that of `cfg` being the set `C`: next
and prev are inverse, neither leaves the live nodes nor its ring, and along next a rank `r` grows
except into the head, so that no item can be linked to itself or to a ring without a head.
`InsertRings`, `DeleteRings`, `ReplaceRings` and `SpliceRings` show for each list operation what
it makes of `C` and `r`; `EmptyRing` that a head linked to itself is alone. `Merging` is about the
cursors of `merge_configs`, for files that may say an offset twice: the extra item looked at is in
its own list; or it was moved to the first, where the search is past it (in rank); or it was
freed, and has no pointers to follow (`Sound`), so that deleting it again is where the behaviour
is undefined. The item looked at next (`enext`) is another one and is not moved. So the lists stay
whole however often an offset matches, and an item moved to the first list may be deleted from
there as well. That the file parsed has the items it was written from (`ReadBack`) is by induction
on what is left of it, as a least counterexample.

What the lists say. `RingsWhole` is about the links, `Downloaded` about the order and contents of
what they hold. `Content` reads the two lists as sequences of nodes `s` and `t`, from the head on
(`Strung`), and says at each place in the program which items are in them (`Says`): those of the
lines read so far, those of the file parsed so far, in the merge (`Midway`) the first list as it
was before the `x`-th extra item, with its effect on the items before the `q`-th, and in the
second the extra items found to be new, in order, with those still to come behind them.
`AppendStrung`, `RemoveStrung`, `ReplaceStrung` and `SpliceStrung` are what the list operations
make of such sequences. The reference is `Applied`, which has no lists; `ChainIs` says of it that
the items of the file keep places and offsets. `Matched` is where the two meet: an extra item that
matches is the first of those to come, because an earlier match would be another item of the file
with that offset, which `Tame` rules out. `AlwaysContent` is `IInv /\ (Tame => Content)`, and
`Content` has no place where the behaviour is undefined: no item is deleted twice (`FreeGoesOn`
for the freeing), no item is cut (`CutContent`), and the length does not wrap. `ListIs` says that
`Emit` writes exactly the nodes of `s`; that the walk ends within `MaxItems` is the pigeonhole
principle. `Content` needs `IInv` for the links, and `DownloadAlwaysRight` puts `ImageRead` behind
both: at the place where the patch is copied, `config_buf` is what the file and the extra items
say together. `InputsAssumption` says besides that there is one address at most, as the address
file gives.

The images. What the code reads it finds by offsets it has read before, so the proof is about
where things are. `Holds(f, m, p)` says that `p` is in the file behind the first `m` bytes, `Ends`
that it is at its end; `Layout` splits an image into its seven parts, and lemmas on `Stacked` say
what is at the end of a section or of the data from each part on. `FieldRead`, `EntryRead` and
`HeadRead` are what the code reads there: the length and opcode of a field and the next one in
front of it, the number of patches, the ROM version, length and offset of an entry and the patch
at that offset, each inside of the file (`Reading`). All of this is about images as their maker
lays them out (`Intact`, which no step changes); of the others no property claims anything. The
inductive invariant `ImageRead` says which field `p_buf` stands at, with no project id among those
passed, and that no entry passed is for the ROM version. `ImagesAssumption` says what an image is:
lengths and numbers that fit their fields, at least one extension field (the loop looks at one
before it looks for the end), and a size that fits an `int`.

The tables. `RtbConfig` has one thing to get right: that the row of one controller is not found for
another. `AnswersOf` says what a controller of each row answers, `FirstMatch` that `get_patch_entry`
returns a row if it matches and none before it does. `OwnRow` applies it to the nineteen rows of the
three-wire table, whatever the chip type and ROM version, after the two chip types sold as RTL8852BP
have been renamed; only the RTL8852CS finds none. Over H4 (`OwnRowH4`) the table is searched for the
RTL8723DSH4, or for a controller that did not answer, which finds none. `OwnProject` is that the
image of a row passes the comparison of `rtb_get_final_patch`, `ProjectIds` that none passes it for
an RTL8723CS. The inductive invariant follows this through the program: `Told` is what `rtb_cfg`
holds up to the choice of the row, `Chosen` and `Checked` what the choice and the image leave behind
them, `GaveUp` why the program failed. `RtbConfigProofs` allows any images with an id of the table,
any configurations, sizes and speed, of which the run has samples.

The buffer. `Room` bounds what is stored and awaited in each state (4, 4 + 4095, 4 + 4095 + 2),
`Awaiting` ties `rx_count` and the state to a live buffer. The bound on the length field is
`LenOfBound`. `BufLenAssumption` is the code's literal. `FramesAssumption` says that a payload has
4095 bytes at most, which the length field can announce, and that a CRC is sixteen bits (a
`uint16_t`). `ChosenInv` keeps the line of a run among `Lines`.

The frame read back. What the encoder writes is the recursive function `Slipped`: the bytes of a
packet from each of them on, escaped, up to the closing delimiter. That it has the value its equation
gives it (`SlippedExists`, `SlippedSteps`, and `CrcsSteps` for the CRC) is by induction over the
length, as a least counterexample. `SlippedReads` says what stands in front of each byte: the byte
itself, or an escape and what `h5_unslip_one_byte` turns back into it, and never a delimiter;
`HeaderAnnounces` that the header is four bytes that add up and announce length, type and CRC;
`PackedHolds` where header, payload and CRC are in a packet. `Sync` follows the last frame fed intact:
the line still begins with its delimiter, which ends whatever the receiver was reading; or the
receiver has stored the first `k` bytes of the packet, accumulated their CRC, and the line holds what
was written for the rest (`Inside`); or the frame was delivered. `IntactDelivered` is the last
case, as the line is not empty in the others. The number of a reliable packet may be one the
receiver does not expect, so those are left out.

The pointer over H4. `RollOverBelow` shows that the index that rolls over is below the last
packet's number whenever the packet's own is, so that the pointer is moved on exactly where the
index answered is the one expected; `Within` bounds the packet number.

The line over H4. `SInv` reads the bytes of the event being read and of those behind it as one
stream. `Answered` says that every completion on it is of a command before the current one or, if
the controller carried it out, of the current one, which is there once; `Reading` says that a read
starts where an event does. `Long` says that no code ends an event: the buffer is cleared with
zeros, and a zero behind a code would complete it. `Accepted` and `Asked` tie what the controller
accepted to what the program has passed. Whether an event completes a command is seen from three
bytes anywhere in it, so `Unlike` is what the code relies on: an event about something else that
spells a code is taken for a completion. The controllers of the run `h4` satisfy it.

The Broadcom download. `IInv` has one disjunct for each place in the program (`Place`): up to
`Opening` there are only resets and the name command, however often the alarm repeated the first, and
all that the resets leave on the line lies before the answer to the name; from there on there is one
command at a time (`Doing`), with the confirmation bytes of the minidriver in front of the packets.
`Alarm` says that the alarm is armed only while the first answer is awaited, so that no reset can
follow the minidriver (`NotTorn`), and `Quiet` that a controller that behaves leaves the line empty
behind each answer. With an empty file the reset of the end would follow the minidriver at once;
`SomePackets` excludes it.

The process. `Achieved` says at each place what set-up has achieved by then and nothing has
undone; `OneOwner` says that the service touches the controller only while there is no process,
without which the power could go while a process waits; `Left` says why the loop was left: told to
stop, a hang-up, or a `ppoll` that failed.

The first boot. `MarkerHeld` says that the marker is in memory while the script is past it, and
on the disk after a reboot, which wrote everything out; a power loss can then not bring the
script back. `StepsDone` says what each step of the helper finds done.

The gadget. `Gone` says that what clean-up has passed is gone, which needs `InsideFirst`: each
item is removed after everything within it. `ToMake` says that what set-up still has to make is
not there, whatever it started from; `Unit` that under systemd no mount is busy when it is to go.

Only model-checked:

* everything of `H5Link` for controllers that send packets unasked (`Restarting` in `h5_safety`),
  where the numbers of host and controller drift apart;
* `NoForgery`, which holds of the frames of the run, not of all: sixteen bits of CRC let some
  damaged frames through, so it depends on the polynomial and on what is sent;
* `Settles`, `Ends` and the other liveness properties: liveness and `ENABLED` are out of reach as
  well.

## Not modelled

* H5: errors of `write`, `read`, `malloc`, `tcsetattr` and epoll, which end the program; parity,
  flow control and termios; what the chip does with the firmware; a delivered event that is shorter
  than a command complete, on which `skb_pull` (231) ends the program during the commands.
* Time: the ten seconds of the alarm against the sum of the timeouts. `Expire`, `Alarm` and
  `Expired` may happen at any time they are armed.
* Life cycle: the command line and the types of UART other than the Realtek ones, and the inside of
  `rtb_init`, which is `H5Link` or `H4Xfer`.
* Configuration: the text of the extra configuration and address files (a line is given as
  parsed); what happens behind a place of undefined behaviour (an extra item deleted twice, a last
  item cut by the end of the file, a length of 65536 and more); `malloc` failing; the reads of the
  data of the item 0x000c (1121-1136), which are behind its end if it is short.
  Without a configuration file the extra items and the address are dropped, as the code does.
* Images: what follows a read outside of one; a project id of 35 or more, which reads past
  `project_id[]`; the branch that copies the single patch of an RTL8723A over three wires
  (`rtb_fwc.c` 1389-1425), of which `RtbConfig` has the decision.
* `RightRom` is stated without failing commands over H4: there a failed read of the ROM version
  alone selects version 0.
* `dhd_priv.c` is one ioctl on a network interface; `io.c` reads and writes physical memory from the
  command line; both are sequential and keep no state. The camera and NPU scripts start and stop
  daemons of third parties. Recipes, classes and machine configuration are build-time data; the
  patches are of other projects.
