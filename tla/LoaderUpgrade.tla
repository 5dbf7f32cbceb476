--------------------------- MODULE LoaderUpgrade ---------------------------
(***************************************************************************)
(* upgrade-loader (src/.../upgrade_loader.rs): parse a loader file, look   *)
(* up its entries, ask the device what it supports, build an IDBlock and   *)
(* write it over the one the board starts from.  The write is that of      *)
(* LbaTransfer, in whole sectors: it may fail after any part, leave        *)
(* commands the device carries out later, and be tried again, with the     *)
(* same file or another.                                                   *)
(***************************************************************************)
EXTENDS LbaTransfer, LoaderImage, IdBlock

CONSTANTS
  Images,         \* loader images
  File,           \* their files
  Payload,        \* [image -> [name of an entry -> its sectors]]
  Shipped,        \* the image whose block is on the board at first
  IdbLba          \* --lba

\* A sector of an entry is a record with a kind.  None is what a header of the
\* old layout is made of: that is an assumption of the format.
ASSUME ImagesAssumption ==
  /\ File \in [Images -> Loader] /\ Shipped \in Images
  /\ \A f \in Images : \A i \in DOMAIN File[f].loader.entries :
       LET e == File[f].loader.entries[i]
           s == Payload[f][e.name]
       IN  /\ e.name \in DOMAIN Payload[f] /\ Len(s) = e.size
           /\ s \in Seq({s[k] : k \in DOMAIN s})
           /\ \A k \in DOMAIN s : s[k].kind \notin {"tag", "crc"}
ASSUME IdbAssumption == SectorSize = 1 /\ IdbLba \in Nat /\ IdbLba < DiskSectors

VARIABLES
  step,       \* the step of the program that is next
  image,      \* the file
  supported,  \* the device takes blocks with a FlashHead (external)
  written,    \* the images of the writes so far, by the number of the call
  outcome     \* how the last attempt ended

attempt == <<step, image, supported, written, outcome>>
upgradeVars == <<vars, attempt>>

End(how) == step' = "idle" /\ outcome' = how

-----------------------------------------------------------------------------
Entries(f) == File[f].loader.entries
Named(f, name) == {i \in DOMAIN Entries(f) : Entries(f)[i].name = name}
HasEntry(f, name) == Named(f, name) # {}

\* The entries find_loader_entry slices: those up to the first of that name.
Visited(f, name) == {i \in DOMAIN Entries(f) : \A j \in Named(f, name) : i <= j}

\* A slice that is not in the file panics.
LookUp(f, name, missing) ==
     Check(\A i \in Visited(f, name) : InFile(File[f], Entries(f)[i]), "panic")
  ?? Check(HasEntry(f, name), missing)

FileChecks(f) ==
     ParseLoader(File[f])
  ?? LookUp(f, "FlashBoot", "MissingEntry")
  ?? LookUp(f, "FlashData", "MissingEntry")
  ?? LookUp(f, "FlashHead", "Ok")
  ?? Check(HeaderHolds(File[f].len, HeaderLen), "panic")

\* idblock::build_idblock.
Build(f) ==
  LET p == Payload[f]
  IN  IF HasEntry(f, "FlashHead")
        THEN NewBlock(p["FlashHead"], p["FlashData"], p["FlashBoot"], File[f].rc4)
        ELSE OldBlock(p["FlashData"], p["FlashBoot"], File[f].rc4)
BuildError(f) ==
  IF HasEntry(f, "FlashHead") THEN "Ok"
  ELSE OldError(Payload[f]["FlashData"], Payload[f]["FlashBoot"])

\* The blocks of the images that have one.
Block ==
  [f \in {i \in Images : HasEntry(i, "FlashBoot") /\ HasEntry(i, "FlashData")} |-> Build(f)]

\* A FlashHead is written for the block it becomes a part of: it says where
\* the two stages are, and what they are.  The program copies it unread.
Describes(head, ddr, loader) ==
  /\ head # <<>> /\ head[1].kind = "RKNS"
  /\ head[1].images =
       <<[offset |-> Padded(Len(head)), count |-> Len(ddr), hash |-> ddr],
         [offset |-> Padded(Len(head)) + Padded(Len(ddr)), count |-> Len(loader),
          hash |-> loader]>>

ASSUME BlocksAssumption ==
  /\ Shipped \in DOMAIN Block
  /\ \A f \in DOMAIN Block :
       /\ HasEntry(f, "FlashHead") =>
            LET p == Payload[f] IN Describes(p["FlashHead"], p["FlashData"], p["FlashBoot"])
       /\ BuildError(f) = "Ok" => Len(Block[f]) <= MaxLen

-----------------------------------------------------------------------------
\* A run of the program, on pipes that were flushed or as the last run left
\* them.
Start ==
  /\ step = "idle" /\ call.id < MaxCalls
  /\ step' = "file" /\ outcome' = "none"
  /\ image' \in Images
  /\ Open
  /\ UNCHANGED <<supported, written>>

ReadFile ==
  /\ step = "file"
  /\ \/ End("Io")
     \/ FileChecks(image) # "Ok" /\ End(FileChecks(image))
     \/ /\ FileChecks(image) = "Ok"
        /\ step' = IF HasEntry(image, "FlashHead") THEN "capability" ELSE "build"
        /\ UNCHANGED outcome
  /\ UNCHANGED <<vars, image, supported, written>>

\* Mutant: the capability is read and not looked at.
ReadCapabilityOnly ==
  /\ step = "capability"
  /\ \/ ~dirty /\ step' = "build" /\ UNCHANGED <<vars, outcome>>
     \/ ReadFails /\ End("Usb") /\ UNCHANGED <<call, sector, buf, history>>
  /\ UNCHANGED <<image, supported, written>>

\* read_capability, and the bit that says whether a FlashHead is supported.
ReadCapability ==
  /\ step = "capability"
  /\ \/ /\ ~dirty
        /\ IF supported THEN step' = "build" /\ UNCHANGED outcome
           ELSE End("FlashHeadNotSupported")
        /\ UNCHANGED vars
     \/ ReadFails /\ End("Usb") /\ UNCHANGED <<call, sector, buf, history>>
  /\ UNCHANGED <<image, supported, written>>

\* Mutant: the length is rounded up to whole commands.
StartWriteRounded ==
  LET len == ((Len(Block[image]) + MaxWriteSectors - 1) \div MaxWriteSectors)
               * MaxWriteSectors
  IN  /\ step = "build"
      /\ \/ /\ BuildError(image) # "Ok" /\ End(BuildError(image))
            /\ UNCHANGED <<vars, written>>
         \/ /\ BuildError(image) = "Ok"
            /\ Call("write", IdbLba, len)
            /\ written' = Append(written, image)
            /\ step' = "write" /\ UNCHANGED outcome
      /\ UNCHANGED <<image, supported>>

\* The block is built and write_lba called.
StartWrite ==
  /\ step = "build"
  /\ \/ BuildError(image) # "Ok" /\ End(BuildError(image)) /\ UNCHANGED <<vars, written>>
     \/ /\ BuildError(image) = "Ok"
        /\ Call("write", IdbLba, Len(Block[image]))
        /\ written' = Append(written, image)
        /\ step' = "write" /\ UNCHANGED outcome
  /\ UNCHANGED <<image, supported>>

Write == step = "write" /\ WriteChunk /\ UNCHANGED attempt

\* Mutant: a write that failed cleanly is tried again, however often.
FinishRetrying ==
  /\ step = "write" /\ pc = "idle"
  /\ IF result = "Ok" \/ dirty
       THEN End(result) /\ UNCHANGED vars
       ELSE /\ pc' = "chunk" /\ next' = IdbLba /\ moved' = 0
            /\ UNCHANGED <<step, outcome, call, sector, buf, result, disk, session, history>>
  /\ UNCHANGED <<image, supported, written>>

\* write_lba returned.
Finish ==
  /\ step = "write" /\ pc = "idle"
  /\ End(result)
  /\ UNCHANGED <<vars, image, supported, written>>

-----------------------------------------------------------------------------
UpgradeInit ==
  /\ Init
  /\ step = "idle" /\ image = Shipped /\ outcome = "none"
  /\ supported \in BOOLEAN /\ (HasEntry(Shipped, "FlashHead") => supported)
  /\ written = <<>>

\* A program that is killed between two commands leaves what one does whose
\* deadline passes there (NotSent), in the middle of one what Abandoned does.
Run == ReadFile \/ ReadCapability \/ StartWrite \/ Write \/ Finish

UpgradeNext == Run \/ Start \/ (Late /\ UNCHANGED attempt)

\* Every command returns by its deadline, so the program goes on.
UpgradeSpec == UpgradeInit /\ [][UpgradeNext]_upgradeVars /\ WF_upgradeVars(Run)

-----------------------------------------------------------------------------
\* What is in a sector: the block a write has put there, or the shipped one.
SectorAt(b) ==
  LET byte == disk[b]
      of(f, k) == IF k \in DOMAIN Block[f] THEN Block[f][k] ELSE Plain([kind |-> "other"])
  IN  IF byte = Spoiled THEN Plain([kind |-> "other"])
      ELSE IF byte.from = 0 THEN of(Shipped, byte.at - IdbLba + 1)
      ELSE of(written[byte.from], byte.at + 1)

Region == [k \in 1..DiskSectors - IdbLba |-> SectorAt(IdbLba + k - 1)]

IsImage(stages, f) ==
  /\ IsPayload(stages[1], Payload[f]["FlashData"])
  /\ IsPayload(stages[2], Payload[f]["FlashBoot"])

\* Every variable stays in its type, and the number of a call is that of the
\* image it writes.
UpgradeTypeOK ==
  /\ TypeOK
  /\ step \in {"idle", "file", "capability", "build", "write"}
  /\ image \in Images /\ supported \in BOOLEAN
  /\ written \in Seq(Images) /\ Len(written) = call.id
  /\ step = "write" => call.op = "write" /\ call.len = Len(Block[image])
  /\ pc # "idle" => step = "write"

\* After an attempt that said Ok the board starts the FlashData and FlashBoot
\* of this very file, whatever earlier attempts have left on the storage and
\* in the pipes: layout, counts, checksums and cipher agree.
OkBoots ==
  outcome = "Ok" =>
    /\ Bootable(Region) # {}
    /\ \A stages \in Bootable(Region) : IsImage(stages, image)

\* At no moment does the board start a mixture: a block that is only partly
\* written over is refused, and one that is accepted is that of one file.
NeverMixed ==
  \A stages \in Bootable(Region) :
    \E f \in {Shipped} \cup {written[i] : i \in DOMAIN written} : IsImage(stages, f)

\* Nothing of a file that fails a check gets to the storage, then or later:
\* no sector comes from one in which an entry that is looked for is missing or,
\* like one before it, cut off, or from one with a FlashHead the device does
\* not support.
Suitable(f) ==
  /\ \A name \in {"FlashBoot", "FlashData"} : HasEntry(f, name)
  /\ \A name \in {"FlashBoot", "FlashData", "FlashHead"} :
       \A i \in Visited(f, name) : InFile(File[f], Entries(f)[i])
  /\ HasEntry(f, "FlashHead") => supported

OnlySuitable == \A b \in Disk : disk[b].from > 0 => Suitable(written[disk[b].from])

\* Every attempt ends.
AttemptEnds == step # "idle" ~> step = "idle"
=============================================================================
