---------------------------- MODULE BootDownload ----------------------------
(***************************************************************************)
(* A session that downloads a boot image: download-boot, and upgrade up to *)
(* the point where it writes the partitions (src/.../download_boot.rs,     *)
(* upgrade.rs; RkDevice::download_boot and vendor_request in src/src/      *)
(* lib.rs).  It searches a device, opens it, parses the file, sends the    *)
(* entries of the image chunk by chunk, and upgrade then searches the      *)
(* board again where it was before.  Devices come and go at any moment:    *)
(* the searches are those of DeviceSelection.                              *)
(***************************************************************************)
EXTENDS DeviceSelection, LoaderImage, Integers

CONSTANTS
  Firmwares,      \* firmware files; download-boot gets the loader file inside
  ParamSize,      \* the size of the parameter entry of a firmware, or NoParam
  MaxParam,       \* 64 * 1024
  Manufactures,   \* values of RkFlashInfo::manufacture
  ChunkLen,       \* 4096
  CrcLen          \* 2

NoParam == -1

ASSUME FirmwaresAssumption ==
  /\ Firmwares \subseteq Firmware
  /\ ParamSize \in [Firmwares -> Nat \cup {NoParam}]
  /\ MaxParam \in Nat /\ Manufactures \subseteq 0..255
ASSUME ChunksAssumption == ChunkLen \in Nat \ {0} /\ CrcLen \in Nat \ {0}

VARIABLES
  stage,      \* the step of the session that is next
  program,    \* "download-boot", "upgrade", "none" while it does not matter
  file,       \* the file, <<>> while it does not matter
  first,      \* what the first search found
  handle,     \* the device that is open
  live,       \* it has not left the bus since it was opened
  entry,      \* the entry of the image that is sent
  sent,       \* bytes of it sent so far
  received,   \* history: what of the image got to the device, piece by piece
  outcome     \* how the session ended: "Ok", an error, "panic"

session == <<stage, program, file, first, handle, live, entry, sent, received,
             outcome>>
sessionVars == <<vars, session>>

-----------------------------------------------------------------------------
\* What download_boot goes through: all entries of one table, then the other.
Tagged(request, t) ==
  [i \in DOMAIN t.entries |-> [request |-> request, of |-> t.entries[i]]]

\* Mutant: the tables are swapped.
BootEntriesSwapped(f) == Tagged(1138, f.t472) \o Tagged(1137, f.t471)

BootEntries(f) == Tagged(1137, f.t471) \o Tagged(1138, f.t472)    \* 0x471, 0x472

\* The bytes vendor_request sends for an entry: the data and its CRC.
RequestLen(e) == e.of.size + CrcLen

Smaller(a, b) == IF a <= b THEN a ELSE b

End(how) == stage' = "ended" /\ outcome' = how

-----------------------------------------------------------------------------
\* What the search returned.
Searched ==
  /\ stage \in {"search", "search again"}
  /\ \/ /\ pc = "returned" /\ result = "Found"
        /\ first' = IF stage = "search" THEN chosen ELSE first
        /\ stage' = IF stage = "search" THEN "open" ELSE "open again"
        /\ UNCHANGED outcome
     \/ /\ pc = "returned" /\ result # "Found"
        /\ End(result) /\ UNCHANGED first
     \/ /\ pc = "crashed"
        /\ End("panic") /\ UNCHANGED first
  /\ UNCHANGED <<vars, program, file, handle, live, entry, sent, received>>

\* RkDevice::open.
OpenDevice ==
  /\ stage \in {"open", "open again"}
  /\ \/ /\ chosen \in attached
        /\ handle' = chosen /\ live' = TRUE
        /\ stage' = IF stage = "open" THEN "file" ELSE "storage"
        /\ UNCHANGED outcome
     \/ End("Usb") /\ UNCHANGED <<handle, live>>
  /\ UNCHANGED <<vars, program, file, first, entry, sent, received>>

\* The checks of the program before it downloads, in their order.
DownloadBootChecks(w) == ParseLoader(w.boot)
UpgradeChecks(w) ==
     Check(Detect(handle) # "None", "UnknownRkUsbType")
  ?? ParseFirmware(w)
  ?? Check(HeaderHolds(w.len, FwHeaderLen), "panic")
  ?? ParseBoot(w)
Checks(p, w) == IF p = "upgrade" THEN UpgradeChecks(w) ELSE DownloadBootChecks(w)

\* Mutant: whatever the device is, it gets the boot image.
NeedsBootAlways(p) == TRUE

NeedsBoot(p) == p = "download-boot" \/ Detect(handle) = "Maskrom"

\* The file is mapped and parsed.
ReadFile ==
  /\ stage = "file"
  /\ \E p \in {"download-boot", "upgrade"}, w \in Firmwares :
       /\ program' = p /\ file' = w
       /\ \/ End("Io")
          \/ Checks(p, w) # "Ok" /\ End(Checks(p, w))
          \/ /\ Checks(p, w) = "Ok"
             /\ stage' = IF NeedsBoot(p) THEN "download" ELSE "storage"
             /\ UNCHANGED outcome
  /\ UNCHANGED <<vars, first, handle, live, entry, sent, received>>

-----------------------------------------------------------------------------
Downloading == stage = "download" /\ entry <= Len(BootEntries(file.boot))
Current == BootEntries(file.boot)[entry]
ChunkEnd == Smaller(sent + ChunkLen, RequestLen(Current))

\* The device got the current entry up to byte n.
Receives(n) ==
  received' = IF n = sent THEN received
              ELSE Append(received, [request |-> Current.request, of |-> Current.of,
                                     from |-> sent, to |-> n])

\* An entry that reaches beyond the file panics when its turn comes.
SliceEntry ==
  /\ Downloading /\ sent = 0 /\ ~InFile(file.boot, Current.of)
  /\ End("panic")
  /\ UNCHANGED <<vars, program, file, first, handle, live, entry, sent, received>>

Advance ==
  IF ChunkEnd = RequestLen(Current)
    THEN entry' = entry + 1 /\ sent' = 0
    ELSE entry' = entry /\ sent' = ChunkEnd

\* Mutant: the number of bytes written is not compared with the chunk.
SendChunkAnyLength ==
  /\ Downloading /\ (sent > 0 \/ InFile(file.boot, Current.of))
  /\ \/ /\ live /\ \E n \in sent..ChunkEnd : Receives(n)
        /\ Advance /\ UNCHANGED <<stage, outcome>>
     \/ End("Usb") /\ UNCHANGED <<entry, sent, received>>
  /\ UNCHANGED <<vars, program, file, first, handle, live>>

\* One write_control of vendor_request: all of the chunk, or a failure that
\* leaves any part of it with the device.
SendChunk ==
  /\ Downloading /\ (sent > 0 \/ InFile(file.boot, Current.of))
  /\ \/ /\ live /\ Receives(ChunkEnd)
        /\ Advance /\ UNCHANGED <<stage, outcome>>
     \/ /\ End("Usb")
        /\ \E n \in (IF live THEN sent..ChunkEnd ELSE {sent}) : Receives(n)
        /\ UNCHANGED <<entry, sent>>
  /\ UNCHANGED <<vars, program, file, first, handle, live>>

\* download_boot returned Ok.  upgrade drops the handle only when it has
\* opened the next.
Downloaded ==
  /\ stage = "download" /\ entry > Len(BootEntries(file.boot))
  /\ \/ program = "download-boot" /\ End("Ok") /\ UNCHANGED vars
     \/ program = "upgrade" /\ stage' = "search again" /\ SearchAgain /\ UNCHANGED outcome
  /\ UNCHANGED <<program, file, first, handle, live, entry, sent, received>>

-----------------------------------------------------------------------------
\* RkFlashInfo::lba_size.
LbaSize(manufacture) == IF manufacture <= 200 THEN 1 ELSE manufacture - 200

ParamChecks(size) ==
     Check(size # NoParam, "ParameterNotFound")
  ?? Check(size <= MaxParam, "ParameterTooLarge")
  ?? Check(size > 2, "ParameterTooShort")

\* The parameter file, which may be unreadable, then read_storage_info: the
\* first command of the session that is for the storage.  A block size it does
\* not know ends the program without an error.
Storage ==
  /\ stage = "storage"
  /\ \/ End("Io")
     \/ ParamChecks(ParamSize[file]) # "Ok" /\ End(ParamChecks(ParamSize[file]))
     \/ /\ ParamChecks(ParamSize[file]) = "Ok"
        /\ \/ \E e \in {"Usb", "InvalidFlashInfoLength"} : End(e)
           \/ /\ live
              /\ \E m \in Manufactures :
                   IF LbaSize(m) \in {1, 8}
                     THEN stage' = "partitions" /\ UNCHANGED outcome
                     ELSE End("Ok")
  /\ UNCHANGED <<vars, program, file, first, handle, live, entry, sent, received>>

\* The devices, seen from the session: a handle dies with its device.
Plug(d) == Attach(d) /\ UNCHANGED session
Unplug(d) ==
  /\ Detach(d)
  /\ live' = (live /\ d # handle)
  /\ UNCHANGED <<stage, program, file, first, handle, entry, sent, received, outcome>>

-----------------------------------------------------------------------------
SessionInit ==
  /\ Init
  /\ stage = "search" /\ outcome = "none"
  /\ program = "none" /\ file = <<>>
  /\ first = NoDevice /\ handle = NoDevice /\ live = FALSE
  /\ entry = 1 /\ sent = 0 /\ received = <<>>

Search == Host /\ UNCHANGED session
SearchFails == UsbFails /\ UNCHANGED session

Program ==
  \/ Search \/ Searched \/ OpenDevice \/ ReadFile
  \/ SliceEntry \/ SendChunk \/ Downloaded \/ Storage

SessionNext == Program \/ SearchFails \/ (\E d \in Devices : Plug(d) \/ Unplug(d))

\* The program is one thread whose every call returns, by a timeout if need
\* be; only a search without a timeout may wait for ever.
SessionSpec == SessionInit /\ [][SessionNext]_sessionVars /\ WF_sessionVars(Program)

-----------------------------------------------------------------------------
Stages == {"search", "open", "file", "download", "search again", "open again",
           "storage", "partitions", "ended"}
Piece == [request : {1137, 1138}, of : Entry, from : Nat, to : Nat]

\* Every variable stays in its type; a device is open from the first open on.
SessionTypeOK ==
  /\ TypeOK
  /\ stage \in Stages
  /\ program \in {"none", "download-boot", "upgrade"}
  /\ file \in Firmwares \cup {<<>>}
  /\ first \in Devices \cup {NoDevice} /\ handle \in Devices \cup {NoDevice}
  /\ (stage \in {"download", "storage", "partitions"} => handle # NoDevice)
  /\ live \in BOOLEAN /\ (live => handle # NoDevice)
  /\ entry \in Nat \ {0} /\ sent \in Nat
  /\ received \in Seq(Piece)
  /\ (stage = "ended") = (outcome # "none")

\* p and the piece before it are neighbours in one entry, or the end of an
\* entry (with its CRC) and the start of another.
Follows(p, q) ==
  \/ q.request = p.request /\ q.of = p.of /\ q.from = p.to
  \/ p.to = RequestLen(p) /\ q.from = 0

\* What the device gets is the image from its start on, without a gap or a
\* repetition, and all of table 471 before any of table 472: this is all the
\* boot ROM has to tell where one entry ends and the next begins.
BootInOrder ==
  /\ received # <<>> => received[1].from = 0
  /\ \A i \in 1..Len(received) - 1 :
       /\ Follows(received[i], received[i + 1])
       /\ received[i].request <= received[i + 1].request

\* The device has every entry of image f to its last byte.
HasWhole(f) ==
  \A request \in {1137, 1138} :
    LET t == IF request = 1137 THEN f.t471 ELSE f.t472
    IN  \A i \in DOMAIN t.entries : \E p \in DOMAIN received :
          /\ received[p].request = request /\ received[p].of = t.entries[i]
          /\ received[p].to = t.entries[i].size + CrcLen

\* A program that says Ok, or goes on to the storage of a board that was in
\* Maskrom mode, has given the board the whole of a boot image that fits in
\* its file: no failure on the way is taken for a success.
BootBeforeStorage ==
  \/ program = "download-boot" /\ outcome = "Ok"
  \/ program = "upgrade" /\ Detect(first) = "Maskrom"
     /\ stage \in {"search again", "open again", "storage", "partitions"}
  => /\ HasWhole(file.boot)
     /\ \A t \in {file.boot.t471, file.boot.t472} :
          \A i \in DOMAIN t.entries : InFile(file.boot, t.entries[i])

\* Nothing is sent of a file whose tables, firmware or MD5 are not all there,
\* and an upgrade sends nothing to a device that is not in Maskrom mode.
DownloadIsDue ==
  received # <<>> =>
    /\ \A t \in {file.boot.t471, file.boot.t472, file.boot.loader} :
         t.offset + t.size * t.count <= file.boot.len
    /\ program = "upgrade" =>
         /\ Detect(first) = "Maskrom"
         /\ file.fwOffset + file.fwSize + Md5Len <= file.len

\* The storage that upgrade is about to write is that of the device at the
\* bus and address of the first search, whatever was plugged in or out and
\* however the second search found it.
StorageWhereSelected ==
  stage = "partitions" => handle.bus = first.bus /\ handle.addr = first.addr

\* Unless it may wait for ever, the session ends, whatever the devices do.
SessionEnds == <>(stage \in {"ended", "partitions"} \/ patience = "forever")

-----------------------------------------------------------------------------
(* What a comment says, and the code does not do.                          *)

\* upgrade.rs, after download_boot: "Device might reset? re-enumerate it!".
BoardIsFollowed == ~(stage = "search again" /\ pc = "crashed")
=============================================================================
