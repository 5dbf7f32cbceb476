# A verification of rkusb

`rkusb` is a Rust library and the command `rktools` for flashing Rockchip
devices over USB.  This directory models the parts of it that decide whether
the right bytes reach the right place of a device's storage, and whether the
host is told the truth about it.  TLC checks the models on small instances;
TLAPS proves theorems about them for every value of the constants.

    tlc -workers 2 -config MCCbwTransaction.cfg MCCbwTransaction.tla
    tlapm CbwTransaction_proofs.tla

`PROJECT.json` lists the components, runs, theorems, hazards and findings, for
each property a mutant of the code that breaks it, and for each definition the
source lines it stands for.

## 1. Inventory

Everything runs in one process per command, with one thread, against a device
that is a second, concurrent process; libusb calls the hotplug callback from
`handle_events`.  There is no state on the host's disk: what survives a crash
is the storage of the device, and whatever is still in its USB pipes.

| component | source | state | operations |
|---|---|---|---|
| Command transport | `src/lib.rs` 286-410, `src/usb.rs` | the bulk pipes, the tag of the command, a deadline | `cbw_transaction`, `open` |
| LBA transfers | `src/lib.rs` 293-297, 435-517, 600-745 | `next_pos`, a sector buffer | `write_lba`, `read_lba`, `erase_lba` |
| Block device | `bin/rktools/storage/mod.rs` | `pos`, the disk size | `read`, `write`, `seek` |
| Partition transfers | `bin/rktools/subcommands/storage.rs` | the GPT, the file | `partition read`, `partition write`, `select`, `info` |
| Firmware upgrade | `bin/rktools/subcommands/upgrade.rs` | the handle, position in the image, position on the disk | `exec`, `write_regular_image`, `write_sparse_image` |
| Device selection | `bin/rktools/common.rs` | the list, the hotplug registration, the device found | `find_device`, `device_arrived` |
| Device information, media switching | `src/lib.rs` 536-598 | the medium, in the device | one transaction each |
| Maskrom download | `src/lib.rs` 412-433, 521-534, `download_boot.rs` | the entry and chunk sent; the boot ROM counts bytes | `download_boot`, `vendor_request` |
| Loader and firmware images | `src/image.rs` | the mapped file | parsing, entries sliced later |
| IDBlock | `src/idblock/` | none | `build_idblock`, two layouts |
| Loader upgrade | `bin/rktools/subcommands/upgrade_loader.rs` | the block a board starts from | `upgrade-loader` |
| Command line | the rest of `bin/rktools` | none | arguments, printing |
| Windows backend | `src/rockusb.rs` | a handle | not called by anything |

How they interact: every subcommand first calls `find_device`, then `open`.
`lba` calls the LBA transfers directly, and so does `upgrade-loader`, with an
IDBlock built from a loader file.  `download-boot` and the first half of
`upgrade` send a loader file by control requests; `upgrade` then searches the
board again and opens it a second time.  `storage partition` and `upgrade` put
the block device under the `gpt` crate; `partition read` and `write` then go
round it and call `read_lba` and `write_lba`, while `upgrade` seeks it and
copies into it.  Each LBA call cuts its range into commands, and each command
is one transaction on the pipes.

What is hard here:

* **Abandoned commands.**  Each transaction has a deadline and any of its
  stages can fail.  The code returns the error and leaves the pipes as they
  are.  What the device still owes meets the next command: a stale status
  wrapper, stale data, or a device that takes the next wrapper for data.
* **Late execution.**  The device may carry a command out after the host was
  told that it failed.
* **Partial transfers.**  A call of many commands can stop between any two,
  and a partial sector is a read, a patch and a write.
* **Three units.**  Bytes, 512-byte sectors and the logical blocks of the GPT
  meet in `storage.rs` and `upgrade.rs`.
* **Positions at a limit.**  2^32 sectors, the end of the disk, the middle of
  a sector, a chunk that is short.
* **Devices that come and go** between the list and the registration of the
  callback, and during the wait.
* **Boards that become another device.**  After a boot download the board
  leaves Maskrom mode, perhaps the bus, perhaps its address, while the program
  still holds a handle on what it was.
* **Downloads without acknowledgement.**  An entry is cut into chunks of which
  the boot ROM knows only the order.  A failure leaves it with a part.
* **A block that is half there.**  A board starts whatever IDBlock it accepts.
  A write that stops in the middle leaves parts of two.
* **Files that are cut short.**  Tables are checked when a file is parsed, the
  entries only when they are used.

What makes each component correct: a verdict of the transport is about the
command it is reported for; a transfer that returns Ok is complete, and one
that fails has changed a first part of its range and nothing else; the block
device is a file; the images end up in their partitions and nowhere else; the
device found is the one asked for, and waiting for one ends; a board that is
written to has got the whole of its boot image, and is where it was first
found; a board never starts a mixture of two loaders, and after an Ok it starts
the new one.

## 2. The modules

    CommandService   <-implements-  CbwTransaction   <- CbwTransaction_proofs
                                        | its promises, assumed by
                                    LbaTransfer      <- LbaTransfer_proofs
                                        | its promises, assumed by
    ByteFile         <-implements-  BlockDevice      <- BlockDevice_proofs
                                        | its promises, assumed by
                                    Flashing         <- Flashing_proofs

    LbaTransfer, BlockDevice = .. + ByteStore        <- ByteStore_proofs
    LoaderUpgrade   = LbaTransfer + LoaderImage + IdBlock  <- LoaderUpgrade_proofs
    BootDownload    = DeviceSelection + LoaderImage  <- BootDownload_proofs
                      DeviceSelection                <- DeviceSelection_proofs

    (<- : proves about;  = : EXTENDS and composes)

A session of `upgrade` is `BootDownload` up to the stage "partitions", and
`Flashing` from there.  The layers are checked one at a time.  The upper layer
takes from the one below only what the lower one is checked to promise: `LbaTransfer` uses the
outcomes of a command as the properties of `CbwTransaction` state them
(`Succeeds` needs `~dirty` because of `OutOfStepFails`; `Resume` may end `dirty`,
but only when nothing is pending, because of `OkIsBarrier`; `Late` exists because
`CommandService!Execute` may come after the error), `BlockDevice` uses an LBA call that fails after
a first part of it (`ChangeIsPrefix`), and `Flashing` uses a file
(`ByteFile`).

### CbwTransaction: the command transport

One action for each stage of `cbw_transaction`: `Begin` (the wrapper with its
random tag, `Cbw::with_opcode`), `SendCbw`, `SendData`, `ReadData`, `ReadCsw`,
and `Fail`, a deadline or USB error at any stage in which nothing was moved.
A write may reach the device and still be an error for the host, or reach it
in part.  `ReadData` takes a packet at a time, as the host controller does: a
packet that does not fit is an overflow, a short one or a full buffer ends the
transfer, and only then does the code compare the count with what the command
asked for.  `CswVerdict` is the chain of checks on the status wrapper in the
order of the code.  `Open` is the next process, after a flush of the pipes, as
`set_active_configuration` may bring it about; that there is none is a stutter.

The device and the two pipes are external.  The device serves wrappers in
order, answers each one that it recognises once, may refuse any command, and
in a data stage takes whatever packet comes next.  A wrapper taken for data
spoils the command it completes (`intact`), or makes the device refuse it.

`done`, `acked`, `seen`, `replyId`, `dirty` and `reused` are history: no guard
reads them.  `reused` says that `random::<u32>()` returned a tag that was still
in flight.  The code has no defence against that, so the properties except it,
and only it; nothing else is assumed about the tags.

`CommandService` is what a caller may rely on: commands are carried out at
most once and in order, perhaps late, and success is reported only for what
was done.

### LbaTransfer: write_lba, read_lba, erase_lba

`Call` is the beginning of any of the three, `WriteChunk`, `ReadChunk` and
`EraseChunk` a round of their loops, with the command and the advance of
`next_pos` (checked against the u32 limit, as in `advance_lba_by_bytes`),
`ReadTail` and `WriteTail` the two halves of the partial sector.  Each command
succeeds, is never sent (the shared deadline), is refused after some of its
sectors, or is abandoned: then it joins `pending`, from which `Late` may carry
it out at any moment, whole, in part or spoiled.  From then on the session is out
of step (`dirty`) and nothing succeeds, until it is opened on flushed pipes or, at
the beginning of a later call or session (`Resume`), the commands that failed turn
out to have used up all that was left.  Which ones do is not modelled: the
resynchronisation may come whenever nothing is pending any more, which allows more
than the transport does.  Equal tags in flight, which the transport's
properties except, are left out here.  A write that fails leaves the
caller's read buffer out of the model: only an Ok read promises anything.

### BlockDevice and ByteFile: a storage as a file

`Request` is the beginning of `read` or `write`; `ReadSector`, `WriteSector`
and `Middle` are the calls for the partial first sector, the whole sectors and
the partial last one; `Part` says which comes next, from the position and what
is left.  Any call may fail, a write after a first part of it.  `placed` is
history, and is what `ByteFile` sees of a write in progress.  `Seek` refuses
the end of the disk.

`ByteFile` is the promise of `Read`, `Write` and `Seek`: a position and an
array of bytes, a write that puts a first part in place and never anything
elsewhere, and a position that moves by the whole request or not at all.

### Flashing: partitions and images

`StartRead`, `ReadPartition`, `StartWrite` and `WritePartition` are
`storage partition read` and `write`.  `Entry`, `Copy` and `Chunk` are the
loops of `upgrade`: over the files of the image, over the rounds of
`std::io::copy`, over the chunks of a sparse image.  `Objection` is the chain of
checks on an entry.  Every write can fail after
a first part, and an entry, its header or that of a chunk can be unreadable
(`Unreadable`).  The device may state a block size that is neither 512 nor 4096
bytes: then each of the programs prints a line and returns Ok
(`UnknownSize`).  A cell of the storage says which entry, chunk and offset it
came from.  The unit is the sector, since `BlockDevice` has dealt with the
inside of one.  `ChunkStarts` is the table of where the chunks of a sparse image
belong, and `Wanted` what an image has for an offset: they say what the properties
mean by the right place, and the program, which only adds to its position, knows
neither.

The image is any sequence of well-formed entries (`CommandsAssumption`,
`WellFormed`): a sparse header states the sum of its chunks, and a checksum chunk
stands for no blocks, as the format says.  The table is any one whose
partitions are not empty and lie on the device, in front of its last sector, where
the backup header is (`SizesAssumption`).  That the entries of an image share no sector
is no assumption but a condition of the two properties that need it
(`Apart`); `NothingMisplaced` holds without it.

### DeviceSelection: find_device

`List` is the first look at the bus, `Register` and `HandleEvents` are the wait
by hotplug, `Poll` the wait without it, `Timeout` the end of either.
`UsbFails` is the error of libusb that ends a list, a registration or a poll; the
errors of `handle_events` the code ignores, so there they are a stutter.
`SearchAgain` is the second search of `upgrade`, at the address of the first.
`Attach` and `Detach` are the bus.  A device is what a board appears as: a board
is one device at a time, an address that of one device, and the host sees
only the device.  libusb queues arrivals from the registration on (an
assumption: it may have some queued from before); one
`handle_events` may deliver several, and the callback stores each over the one
before it.

### LoaderImage: loader and firmware files

Operators, no state: `ParseTable`, `ParseLoader`, `ParseFirmware` and
`ParseBoot` are the constructors of `image.rs`, each a sequence of checks of
which the first that fails is the error: `check ?? rest` is the `?` of the
source.  `InFile` is the slice
that is taken only when an entry is used, and panics; `HeaderHolds` is the
assertion that the file is longer than its header.

### BootDownload: download-boot, and upgrade up to the partitions

It extends `DeviceSelection`, whose actions are its two searches (`Search`), with
a `stage`.  `Searched` takes the result of a search; `OpenDevice` opens it, if
it is still there; `ReadFile` is the file and its checks, in the order of
each of the two programs.  `SliceEntry` and `SendChunk` are the loop of
`download_boot`: an entry, its two bytes of CRC, in chunks, each of which
either arrives or fails with any part of it delivered.  `Downloaded` is its end,
from which `upgrade` goes to the second search.  `Storage` is the parameter file
and the first command for the storage, `read_storage_info`.

`handle` is the device that is open, and `live` whether it has stayed on the bus
since.  `Unplug` ends that; a board that comes back, at the same address even,
is a new device to libusb, so an old handle stays dead.  `received` is history.

### IdBlock and LoaderUpgrade: upgrade-loader

`OldBlock` and `NewBlock` are the two layouts, sector by sector.  A sector is a
content, under the cipher or not; a checksum or hash is what it is computed of.
`OldAccepted` and `NewAccepted` are a boot ROM (external) that reads a region
with and without the cipher, the new one by `docs/rkns-header-format.md`, and
`Bootable` is the set of the stage pairs it would start.

`LoaderUpgrade` runs the program on `LbaTransfer`, in whole sectors:
`ReadFile` with all lookups, `ReadCapability`, which a FlashHead needs,
`StartWrite`, `Write`, `Finish`.  `Start` is another run, with the same file or
another, after any end of the last, on flushed pipes, as after a reset of
the board, or on what the last one left in them.  What an earlier attempt left
pending can still be carried out at any moment before a flush (`Late`), also while a
later attempt runs, and so can a command of an attempt that is out of step and is
told of nothing but failures.  Being killed is covered: it leaves what a failure at the
same command leaves.

What a file contains is taken to be what its format says.  A sector of an entry is
none of the header sectors of the old layout (`ImagesAssumption`), and a FlashHead
describes the block it is written for (`BlocksAssumption`): the program copies both
unread.  The second also bounds the length of a block by that of a call.

## 3. The runs

| run | asks | states | result |
|---|---|---|---|
| `cbw` | what a verdict of the transport means after any history of abandoned commands; it implements `CommandService` | 1.3 M | holds |
| `lba` | what is changed and what is read by calls that may fail anywhere; every call returns | 204 k | holds |
| `lba_zero_pad` | is the last sector padded with zeros? | | no |
| `lba_overflow` | is an overflow that is reported one? | | no |
| `block_device` | the block device implements `ByteFile` | 109 k | holds |
| `flashing` | images and files end up where they belong, whatever fails | 35 k | holds |
| `large_blocks` | and on storage with logical blocks of 4096 bytes? | | no |
| `boot_download` | what the searches of a session may return and when they must; what a board gets, and which board it is; does the session end? | 225 k | holds |
| `any_device` | is the device found a Rockchip device? | | no |
| `board_reset` | can the search after a download meet the board elsewhere? | | no |
| `missed_arrival` | does an endless wait end when a device comes and stays? | | no |
| `loader_upgrade` | what a board starts during and after attempts that may fail anywhere | 30 k | holds |

### Properties

*Transport.*  `VerdictIsOwn`: a success or failure that is reported is the
device's verdict on this very command.  `OkMeansDone`: success means that the
command was carried out as it was sent.  `OkDataIsOwn`: the data of a
successful read belongs to it.  `OutOfStepFails`: a command that begins while
something of an earlier one is outstanding is not reported as a success, whatever it
meets.  It may use up what it meets (a wrapper is taken for the missing data of a
write, and a `TagMismatch` reads the answer): the session is in step
again then, and the next command can succeed without a new open.  `OkIsBarrier`: nothing sent before a success can
still reach the storage after it.  `ServiceSpec`: all of the above as a
refinement.

*LBA transfers.*  `OkMeansComplete`, `ChangeIsPrefix`, `ReadIsExact`: an Ok
call did all and only what it says, and one that fails did a first part of it.
`OnlyAskedSectors`: late and spoiled commands stay within ranges that were
asked for.  `Returns`: the loops end.

*Block device.*  `FileSpec`.  *Flashing.*  `EntriesInOrder`: an entry begins
only when all before it are in place.  `OkIsAllOrNothing`: after an Ok every entry that
is not skipped had a partition, and is in place as far as the partition goes; or the
block size is an unknown one, and nothing was touched.  The code says Ok in both
cases, and also when it has cut a regular image that is longer than its partition, so
an Ok alone does not say that a device was upgraded.  `SkipIsNeverRefused`: although
the block device refuses to seek to its end, no skip of a sparse image is
refused, since the size of the image was compared with the partition first.
`NothingMisplaced`: after any failure,
each changed sector belongs to an entry that was reached, and holds what this
entry wants there.  `SmallBlockTransfer`: partition reads and writes hit the
partition, with 512-byte blocks.  `Ends`.

*Device selection.*  `NoneOverlooked`, `NeverAmbiguous`: a matching device
that is there all the time is neither missed nor passed over for another.
`FoundWhereAsked`: bus and address are respected by every way to find a device,
by hotplug only because of the assertions.  `PollingEnds`.  `ArrivalEndsWait`: the
wait in which a matching device arrives ends, with a device, with the panic of
finding 5, or by its timeout if it has one.
All of them are checked in `boot_download`, for both searches of a session.

*Sessions.*  `BootInOrder`: the board gets the image from its start on, without a
gap or a repetition.  `BootBeforeStorage`: no failure of the download is taken
for success, neither in the result nor by going on to the storage.
`DownloadIsDue`: nothing is sent of a file that fails a check that comes before,
nor by `upgrade` to a board that needs no boot image; `download-boot` does not look at
the type of the device.  `StorageWhereSelected`: the
storage that is written is at the address of the first search, although the
board was searched a second time.  (That it is the same board the code cannot see:
another device that has taken the address passes.)  `SessionEnds`.

*Loader upgrade.*  `OkBoots`: after an Ok the board starts this file and nothing
else, although earlier attempts have left parts behind.  `NeverMixed`: between
any two commands, and whatever is carried out late, the board starts one whole
loader or none.  It may be none: the old block is not kept.  `OnlySuitable`: no
sector ever comes from a file in which an entry that is looked for is missing or,
like one before it, cut off, nor from one with a FlashHead the device does not
know.  `AttemptEnds`.

### Bounds, and why they are enough

* `cbw`: one command of each shape that the library builds (no data, OUT data
  of two packets, IN data of two whole packets, IN data that is short in a
  large and in a fitting buffer), three tags, four transactions.  Two are needed
  for a stale reply, three for a device that spoils one command with another
  and is asked again; the fourth is margin.  The tags are symmetric: they are
  only compared.
* `lba`: sectors of two bytes, two sectors to a command, calls of up to seven
  bytes at each position: no chunk, a full one, a short one, two, with and
  without a tail.  The device fills the sector space, so that calls end before,
  at and behind its limit.  Two calls, so that one can meet what the other left.
* `block_device`: three sectors of three bytes and requests of up to seven, so
  that a request can have a first, middle and last part, lie inside a sector, or
  begin and end anywhere; two requests, with seeks.
* `flashing`: two partitions of one and three blocks, blocks of one, of two
  and of an unknown number of sectors, all sparse images of up to three chunks of raw, fill or skip, of one
  or two blocks, with chunks for the checksum and of unknown type besides; an image that
  names no partition and one that names the same twice; a sparse header of another
  version, and one larger than its partition, which would be skipped to the end of the disk;
  copies of two sectors at a time, so that they take several rounds and end
  short.
* `boot_download`: three boards and five devices (a board in Maskrom mode, and in
  Loader mode at the same and at another address; a mass storage device at the
  first address; a foreign one), two arrivals, which is a board that comes back
  and one that gets in its way, departures without bound, filters that tell
  these apart.  Images of two 471 entries and one 472 entry, chunks of two
  bytes, so that requests take a full and a short chunk, or full ones only; one whose last
  entry is cut off, one whose table is, one without a table, one without its
  MD5 and one without a parameter file.
* `loader_upgrade`: six loader files: the one the board has, one with the old
  layout under the cipher, one with a FlashHead, one whose block is too large for
  its counts, one without a FlashBoot, one with its last entry cut off.  Areas
  are aligned to two sectors and blocks have up to ten, in commands of four, so
  that a block takes several commands and the areas of two blocks divide the
  region in different places.  Two writes: the second meets what the first has left.

Deadlock checking is off, since every model ends in states in which the program
has returned, or has reached the bound on its calls.

### Fairness

`LbaTransfer` has weak fairness of the steps of the host: every USB transfer
has a positive timeout (`remaining_timeout` filters zero), so each step returns
by the deadline.  `Flashing` has it for the same reason, through
`DEFAULT_IO_TIMEOUT`.  `DeviceSelection` has it for the loops of the host and its
clock (`Host`, which contains `Timeout`), not for the devices and not for `UsbFails`.
So a finite wait may end by giving up, in `PollingEnds` and `ArrivalEndsWait` too; in a
wait without a timeout `Timeout` is never enabled, and there it is the device
that ends it.  `HandleEvents` in `Host` means that `handle_events` does not fail for
ever: the code ignores its errors and tries again.
`BootDownload` has weak fairness of the program as a whole, its
timeouts included, since a session ends by giving up too; a search without a timeout may
wait for ever, and `SessionEnds` excepts it.  `LoaderUpgrade` has it for the program, for
the reason of `LbaTransfer`; nobody has to start another run.
`CbwTransaction` and `BlockDevice` state safety and have none.

### Findings

1. `write_lba` keeps the rest of the last sector (read, patch, write back; its
   own comment says so), where README.md:137 and 210 promise zeros.  Whoever
   relies on the README finds old data behind the end of the file.
2. A transfer that ends at sector 0xFFFFFFFF is carried out and then reported as
   `LbaOverflow`, because the position behind it is computed too.
3. `partition read` and `partition write` use `first_lba`, a number of logical
   blocks, as a number of sectors.  With blocks of 4096 bytes they read and
   write an eighth of the way to the partition.  `upgrade` does it right
   (`bytes_start`).
4. Waiting by hotplug returns the first device of any vendor, since
   `find_device` passes no type and the callback then checks nothing.
5. After the boot download `upgrade` waits for the board at its old address, where
   the comment in `upgrade.rs` and the README say that it may re-enumerate.  If it
   comes back at another address the assertions of the callback fail, as they do when
   any other device is plugged in during a wait for a given address.  What rusb makes
   of a panic in a callback that libusb calls is not in this code; the wait is lost in
   any case.
6. A device that arrives between the list and the registration is never seen,
   and `rktools wait` waits forever.  This assumes of libusb that a callback which is
   registered without `enumerate` is told only of later arrivals.

## 4. The proofs

### The transport

`CbwTransaction_proofs` proves seven theorems about
`CbwTransaction`, for all sets of tags, any bound on the number of transactions and
all sets of commands that satisfy `CommandsAssumption`: a command asks for no more than fits its buffer (`min <= buf`), and one that reads asks for
something (`buf > 0 => min > 0`).  The callers in `lib.rs` that pass a buffer set the
length of the transfer to 4, 8, 11 or that of a buffer which is not empty.

* `TypeCorrect`: `Spec => []TypeOK`.  `TypeOK` is inductive.  What takes an
  argument in it is `got \in 0..cbw.cmd.buf`: the data stage never overruns the
  caller's buffer, because of the order in which `ReadData` checks.
* `VerdictCorrect`: `Spec => []VerdictIsOwn`.  `VerdictIsOwn` is not inductive:
  it speaks of the moment after the status was read, and says nothing of what
  is in the pipes before it.  The strengthening `TagInv` adds that, unless the tag of
  the current command was in flight when it began, each packet in either pipe,
  and the command in the device, that carries its tag also carries its number.
  A new command makes it true because a fresh tag is carried by nothing, and the device
  preserves it because it only copies tags and numbers together from the
  wrapper to the replies.

* `OkIsDone`: `Spec => []OkMeansDone`.  The tag check alone does not give it: a
  status wrapper with the right tag may report success of a command whose data
  the device mixed with something else.  `OrderInv` is the argument that this
  never happens to the current command.  Wrappers and data lie in the pipe in the
  order of their commands, behind the one the device works on, and that behind
  everything done (`InOrder`), none belongs to a command not yet issued
  (`IdsKnown`), and a command whose wrapper is not yet sent has left no trace
  (`Unsent`).  So a wrapper that is taken for data of a command belongs to a
  later one, the command it spoils is not the current one, and the current
  one, when its success is in the pipe, is done (`CurrentIntact`).  With `TagInv`
  the success that `ReadCsw` accepts is one of these.
* `Implementation`: `Spec => ServiceSpec`.  The host's steps are `Issue`,
  `ReturnOk`, `ReturnError` or stutter; a step of the device is `Execute` of the
  command whose turn it is (`AtTurn`), which `InOrder` puts after all that is
  done; `OkMeansDone` is the guard of `ReturnOk`.

* `OkIsTheLast`: `Spec => []OkIsBarrier`, `OkReadsItsOwn`: `Spec => []OkDataIsOwn`,
  `OkBeginsClean`: `Spec => []OutOfStepFails`.  They follow from one invariant,
  `PipeInv`, about how much is in flight.  The success of the current command is the
  last packet in any pipe (`SuccessIsLast`): the device answers it only after it has
  taken everything sent before it, and the host sends nothing while it waits; for
  that, no more data of the current command may be under way than the device still
  wants (`DataIsBounded`).  A reply is whole: data and then its status wrapper
  (`ReplyIsWhole`).  So a data stage that took a packet of an earlier command is still
  within the reply of that command, or has just used it up and finds no success
  behind it (`ReadIsOwn`); here a command that reads must ask for something.  And as
  long as `dirty` there is something of an earlier command before everything of the
  current one, or the current one is spoiled (`DirtIsKept`).

The lemmas say what the operators of the model do to packets (`InData`, `Reply`,
`OutData`) and to the order (`SendOrder`, `TailOrder`), and one per action
what it does to the invariant.

### LBA transfers

`LbaTransfer_proofs` proves for all sizes of sectors, commands, calls and device
(`SizesAssumption`), any number of calls and any failures:

* `TypeCorrect`: `Spec => []TypeOK`.  `InStep` adds that `next_pos` and the count of
  bytes say the same, `moved = (next - pos) * SectorSize`, and that the stage is the
  one the rest of the call asks for.  Without it nothing keeps `moved` below the length.
* `OnlyAskedChange`: `Spec => []OnlyAskedSectors`.  `AskedInv` says that the sectors of
  the call, and those of each command that is still pending, are among those asked for.
* `PrefixChanges`: `Spec => []ChangeIsPrefix`, and `OkCompletes`: `Spec =>
  []OkMeansComplete`.  `WriteInv`: while the call runs and the pipes are clean, the
  storage is exactly that of the beginning with what has been moved (`disk =
  Written(..)`), and the buffer to be written back holds the end of the data and,
  behind it, the bytes of the storage.
* `ReadsExactly`: `Spec => []ReadIsExact`.  `ReadInv`: the buffer holds the bytes of the
  storage up to what has been moved.

The last three also use `Clean`: without `dirty` nothing is pending.

### The block device

`BlockDevice_proofs` proves for all sizes (`GeometryAssumption`):

* `BlockTypes`: `Spec => []TypeOK`.
* `IsAFile`: `Spec => FileSpec`.  `Shape` says which part of a request comes at which
  position, `Content` that the storage is that before the request with the bytes
  moved so far in place, that a read has delivered the bytes up to there, and that a
  sector to be written back joins the old bytes before and behind the data with the
  data.  Each step of a write is then `Place` of `ByteFile` or its end, each step of a
  read stutters but the last.

`ByteStore_proofs` has the lemmas both rest on: sectors and bytes (`DivMod`,
`MulDistr`), and what an `Overlay` does to a storage that already holds a part of the
data (`Carries`), to a patched sector (`Patches`) and to its place (`Puts`).

### Partitions and images

`Flashing_proofs` proves, for every partition table, every list of commands and all
sizes that satisfy the two assumptions of section 2, with a failure at any
read or write, and for block sizes the programs do not know:

* `FlashingTypes`: `Spec => []TypeOK`.  What is not obvious in it is that the position
  never leaves the device.
* `UpgradeInOrder`: `Spec => []EntriesInOrder`.
* `UpgradeMisplacesNothing`: `Spec => []NothingMisplaced`.
* `UpgradeAllOrNothing`: `Spec => []OkIsAllOrNothing`.
* `SkipsAccepted`: `Spec => SkipIsNeverRefused`, an action property: the position behind
  a skipped chunk is that of the next one, which is still in the partition or right
  behind it, and no partition takes the last sector of the disk (`SkipStaysInside`).
* `SmallBlocksTransfer`: `Spec => []SmallBlockTransfer`.  The only step in it that needs
  `lb = 1` is `Lba(name) = PartStart(name)`: it is where finding 3 enters.

They come from `IInv`, an invariant where the block size is known; where it is not,
`Untouched` is one: the storage is as it was.  `Place` says where the device stands: at the
start of the partition, behind the chunks in front of the current one, behind what is
copied of it.  The code has no such variable: this is the sum of its seeks and
writes.  `Filled` says that the partition of the current entry is written up to the
position, holes included, and untouched behind it; when the entry is done, the position
is behind everything it has, so it `Holds`.  `Placed` is `NothingMisplaced` with
the moment from which an entry may have changed anything (`Reached`): the partition of
an entry whose turn has only come is as it was, from which `Filled` starts
(`FreshPartition`).  Each write and each gap is then a matter of which chunk covers an
offset: at most one (`ChunkFound`), none behind the last (`NoneFound`).  `Seen`,
which `UpgradeAllOrNothing` needs besides, adds that all entries before the current one were skipped or had a
partition.

`ChunkStarts` is a recursive function, and that it is one at all, and adds the chunks
up, needs induction (`StartsTable`, `StartsGrow`).  The induction theorems of the library take an
operator, which the provers cannot instantiate; `SetInduction` is the same principle
for a set of numbers, and follows from `WFMin`: a set of numbers that is not
empty has a minimal element.

### Device selection

`DeviceSelection_proofs` proves, for every finite set of devices
(`DevicesAssumption`), all filters, any number of searches, arrivals and
departures:

* `NothingOverlooked`: `Spec => []NoneOverlooked`,
* `NoRival`: `Spec => []NeverAmbiguous`,
* `AddressRespected`: `Spec => []FoundWhereAsked`,
* `SelectionTypes`: `Spec => []TypeOK`.

The first three speak of the end of a call.  `SelectionInv` adds what holds in the
wait before it: no device that was attached all the time matches the filter.
The list makes it true, since it found no candidate, and after that the
devices that have been there all the time only become fewer.

### Sessions

`BootDownload_proofs` proves for all boards, devices, firmware files and chunk lengths:

* `SessionSearches`: a session is a behaviour of the searches, `SessionSpec => Init
  /\ [][Next]_vars`, so the invariants of `DeviceSelection` hold in it.
  `SessionOverlooksNone` is one of them.
* `SameStorage`: `SessionSpec => []StorageWhereSelected`.  The property is about
  the last stage.  What leads there is that from the first search on `first` is
  what it found, that the filter of the second search is `first`'s address, that a
  device that is found is there (`FoundWhereAsked`), and that the handle is that
  device.
* `DownloadInOrder`: `SessionSpec => []BootInOrder`.  `ChainInv` adds where the last
  piece ended: at `sent` within the current entry, or with `sent = 0` at the
  end of one, and that its table is not behind the current one.
* `WholeImageFirst`: `SessionSpec => []BootBeforeStorage`.  `WholeInv` says that each
  entry before the current one is in the file and received to its last byte,
  and that from the stages behind the download on the current entry is behind the last.
  It also keeps `handle = first` up to the download, so that
  the decision to download was taken from the board the property speaks of.
* `SentWhenDue`: `SessionSpec => []DownloadIsDue`.  `DueInv` says that at the stage
  "download", and once something was received, all tables are within the file and, in
  `upgrade`, the boot part is within the firmware and the board of the first search is
  in Maskrom mode.  It comes from the checks of `ReadFile`, of which `Ok` means that
  each one passed.
* `SessionTypes`: `SessionSpec => []SessionTypeOK`.

### Loader upgrade

`LoaderUpgrade_proofs` proves for all loader files, payloads, alignments and devices,
any number of attempts and any failures, from `ImagesAssumption` and
`BlocksAssumption` (section 2):

* `UpgradeTypes`: `UpgradeSpec => []UpgradeTypeOK`.
* `SuitableOnly`: `UpgradeSpec => []OnlySuitable`.
* `NeverMixes`: `UpgradeSpec => []NeverMixed`.
* `OkStarts`: `UpgradeSpec => []OkBoots`.

All four come from `UpgradeInv`.  Its first half is the invariant of the transfers
below (`LbaInv`): each step of the program is one of `LbaTransfer`, or a read of the
capabilities that fails and touches nothing else (`UpgradeIsTransfer`).  The second
half says where every sector comes from, those that are still in the pipes included:
a command that is carried out late changes the storage when the program is long
somewhere else, and none of the properties speaks of it.

* `AttemptInv`: the call that runs is a write of the block of the image, at `IdbLba`,
  under the number of its entry in `written`; after an Ok the whole block has been
  dealt with and lies on the device.
* `SuitInv`: the image has passed its lookups from the step "capability" on, and
  each image in `written` is `Suitable`.
* `OwedInv`: each command in the pipes carries, for each of its sectors, what one of
  the writes has for it (`OfWrite`).
* `PlacedInv`: so does each sector of the storage, unless it is that of the beginning
  or spoiled.

What the board makes of such a region is a matter of the layouts.  `OldLayout` and
`NewLayout` say what `OldBlock` and `NewBlock` have in each sector, with padding and
cipher, and `Blocks` says so for the block of each file.  `OldBoots`: if each of the
first and the third sector of a region is that of some block, or noise, and the region
is accepted by the old layout, then the third sector is a checksum sector, so the one
whose payload and counts are checked is that of a single file (no other content has
the kind of a checksum: `ThirdSector`), and everything that is started is what this
checksum was computed of.  `NewBoots` is the same of the header and its hashes.
`OldStarts` and `NewStarts` are the converse, that a region which begins with a whole
block is accepted: counts, offsets and checksums agree with what was written.  `OkBegins`
has the rest of `OkStarts`: `OkMeansComplete` of the transfer gives the region.

That two contents do not share a checksum is an assumption of the format in `IdBlock`;
the theorems say that the code does not undo what the checksums are for.

### What is only model-checked

Liveness: `Returns`, `Ends`, `PollingEnds`, `ArrivalEndsWait`, `SessionEnds` and
`AttemptEnds`.  The prover does not reach fairness and `ENABLED`.  Every safety
property and every refinement that a passing run checks is also a theorem.  That the
assumptions hold of the instances is evaluated by TLC on every run.

## 5. What is not modelled

* `read_storage`, `switch_storage` and `reset_device` are one transaction each;
  the transport run contains their shapes, and what is left is decoding.
  `read_capability` and `read_storage_info` are steps of `LoaderUpgrade` and
  `BootDownload`; of what they return only what the programs look at is modelled.
* What a boot ROM makes of the rest of an earlier download that failed: the code
  has no way to find out.  A download is to a board that was just reset.
* Equal random tags of two commands in flight, above the transport.
* `get_crc32`, `calculate_crc32` and `get_entry_data` of `image.rs`, which no
  decision of the programs rests on.  That a header is exactly as long as its
  file, the only case in which `HeaderHolds` fails, is not among the files of
  the instances: the tables and the MD5 come behind it.
* `RkNsImage`, which decodes a FlashHead to print it.
* The files of the `lba` subcommand, which are arguments of one LBA call.
* Time.  A deadline is a failure that may happen at any step.  The `--timeout`
  of `upgrade` is parsed and not used.
* Abandoned commands that are carried out late are in `CbwTransaction` and
  `LbaTransfer`; `BlockDevice` and `Flashing` take the failure to be final.
* Malformed sparse images (chunks whose sum is not the header's total, files
  that end early), partitions that reach the end of the disk or beyond 2^32
  blocks.  A regular image longer than its partition is modelled as the code has
  it, cut without a word and with Ok.  Of an image that names a partition twice only
  `NothingMisplaced` says anything.
* Devices whose descriptor cannot be read.
* The `gpt` crate: the table is taken as given.
* Text: arguments, messages, logs.

## 6. Plan

Done, in this order: the transport and its service; LBA transfers; the block
device and its file; flashing; device selection; images, the boot download and
the search after it; IDBlock and the loader upgrade.  Proved: every safety property
of these, and the refinements of the transport and the block device.

Next: `switch_storage` as a step of `Flashing`: which medium a transfer meets when
the switch is refused or its answer lost.
