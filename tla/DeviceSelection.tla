--------------------------- MODULE DeviceSelection ---------------------------
(***************************************************************************)
(* find_device (src/src/bin/rktools/common.rs): how every subcommand picks *)
(* the USB device it talks to.  It lists what is attached; if nothing fits *)
(* and the user is willing to wait, it registers a hotplug callback, or    *)
(* polls where the platform has no hotplug.  Meanwhile devices come and go *)
(* (a board changes its kind, and mostly its address, when it leaves       *)
(* Maskrom mode).  A program may search more than once.                    *)
(***************************************************************************)
EXTENDS Naturals, FiniteSets, Sequences

CONSTANTS
  Boards,         \* the things that are plugged in
  Devices,        \* the USB devices they can appear as, see Device
  Filters,        \* values of --bus and --addr; 0 is an absent option
  MaxArrivals     \* bound on the arrivals of a behaviour

(***************************************************************************)
(* board: the thing itself, which the host cannot see.                     *)
(* ids: the class of the vendor and product id, "listed" in RkDeviceType,  *)
(* some other product of "rockchip", in the table of is_msc_device, or     *)
(* "foreign".  bit: the lowest bit of the minor USB version.               *)
(***************************************************************************)
Device ==
  [board : Boards, bus : Nat \ {0}, addr : Nat \ {0}, bit : {0, 1},
   ids : {"listed", "rockchip", "msc", "foreign"}]
Filter == [bus : Nat, addr : Nat]

ASSUME DevicesAssumption ==
  Devices \subseteq Device /\ IsFiniteSet(Devices)
ASSUME FiltersAssumption == Filters \subseteq Filter
ASSUME MaxArrivalsAssumption == MaxArrivals \in Nat

VARIABLES
  pc,         \* "list", "register", "wait", "poll", "returned", "crashed"
  filter,     \* bus and addr
  patience,   \* the timeout: "none", "finite", or "forever": Duration::MAX, as
              \* the command wait has it by default, is taken as no timeout
  hotplug,    \* rusb::has_hotplug()
  result,     \* "none", an error, or "Found"
  chosen,     \* the device returned, or NoDevice
  attached,   \* the devices on the bus (external)
  events,     \* arrivals the callback has not been told of
  arrivals,   \* number of arrivals so far
  present     \* history: devices attached throughout the call

vars == <<pc, filter, patience, hotplug, result, chosen, attached, events,
          arrivals, present>>
args == <<filter, patience, hotplug>>
bus  == <<attached, events, arrivals, present>>

NoDevice == [bus |-> 0, addr |-> 0]

-----------------------------------------------------------------------------
\* RkUsbType::detect.
Detect(d) ==
  CASE d.ids \in {"listed", "rockchip"} -> IF d.bit = 0 THEN "Maskrom" ELSE "Loader"
    [] d.ids = "msc" -> "MSC"
    [] d.ids = "foreign" -> "None"

AtAddress(d) ==
  /\ filter.bus = 0 \/ d.bus = filter.bus
  /\ filter.addr = 0 \/ d.addr = filter.addr

\* is_device_matching, which every caller uses for any type.
Matching(d) == Detect(d) # "None" /\ AtAddress(d)
Candidates == {d \in attached : Matching(d)}

\* Mutant: the device is not stored.
FoundNothing(d) == pc' = "returned" /\ result' = "Found" /\ UNCHANGED chosen

Fail(e) == pc' = "returned" /\ result' = e /\ UNCHANGED chosen
Found(d) == pc' = "returned" /\ result' = "Found" /\ chosen' = d

\* Mutant: the first candidate will do.
PickAny == \E d \in Candidates : Found(d)

\* What a list of the attached devices leads to, if it is not empty.
Pick ==
  \/ Cardinality(Candidates) = 1 /\ \E d \in Candidates : Found(d)
  \/ Cardinality(Candidates) > 1 /\ Fail("MultipleDevicesFound")

-----------------------------------------------------------------------------
\* Mutant: a call that may wait does so at once.
ListUnlessWaiting ==
  /\ pc = "list"
  /\ IF patience # "none"
       THEN /\ pc' = IF hotplug THEN "register" ELSE "poll"
            /\ UNCHANGED <<result, chosen>>
       ELSE Pick \/ (Candidates = {} /\ Fail("NoDeviceFound"))
  /\ UNCHANGED <<args, bus>>

\* The list find_device starts with.
List ==
  /\ pc = "list"
  /\ \/ Pick
     \/ /\ Candidates = {} /\ patience = "none"
        /\ Fail("NoDeviceFound")
     \/ /\ Candidates = {} /\ patience # "none"
        /\ pc' = IF hotplug THEN "register" ELSE "poll"
        /\ UNCHANGED <<result, chosen>>
  /\ UNCHANGED <<args, bus>>

\* HotplugBuilder::register; enumerate is off, so devices that are attached
\* by now are not reported.
Register ==
  /\ pc = "register"
  /\ pc' = "wait"
  /\ UNCHANGED <<result, chosen, args, bus>>

AcceptsAny(d) == TRUE    \* mutant: no assertions

\* DeviceFinder::device_arrived, with usb_type None: the assertions, then
\* the device is stored, whatever it is.
Accepts(d) == AtAddress(d)

\* Mutant: the result of the callback is not looked at.
HandleEventsOnly ==
  /\ pc = "wait" /\ events # <<>>
  /\ events' = <<>>
  /\ UNCHANGED <<pc, result, chosen, args, attached, arrivals, present>>

\* handle_events tells the callback of some arrivals, in order; a later one
\* overwrites an earlier one, and one that fails an assertion ends it all.
\* The loop ignores an error of handle_events and calls it again: a stutter.
HandleEvents ==
  /\ pc = "wait"
  /\ \E n \in 1..Len(events) :
       \/ /\ \A i \in 1..n : Accepts(events[i])
          /\ Found(events[n])
          /\ events' = SubSeq(events, n + 1, Len(events))
       \/ /\ ~Accepts(events[n])
          /\ \A i \in 1..(n - 1) : Accepts(events[i])
          /\ pc' = "crashed"
          /\ events' = <<>>
          /\ UNCHANGED <<result, chosen>>
  /\ UNCHANGED <<args, attached, arrivals, present>>

\* Mutant: several candidates are as good as none.
PollForOne ==
  /\ pc = "poll"
  /\ Cardinality(Candidates) = 1 /\ Pick
  /\ UNCHANGED <<args, bus>>

\* One round of find_device_polling that finds something.
Poll ==
  /\ pc = "poll"
  /\ Pick
  /\ UNCHANGED <<args, bus>>

\* Mutant: polling has no timeout.
TimeoutOfWait ==
  /\ patience = "finite" /\ pc = "wait"
  /\ Fail("Timeout")
  /\ UNCHANGED <<args, bus>>

\* The timeout of either way to wait; polling looks once more before.
Timeout ==
  /\ patience = "finite"
  /\ pc = "wait" \/ (pc = "poll" /\ Candidates = {})
  /\ Fail("Timeout")
  /\ UNCHANGED <<args, bus>>

\* libusb can list no devices, or register no callback.
UsbFails ==
  /\ pc \in {"list", "register", "poll"}
  /\ Fail("Usb")
  /\ UNCHANGED <<args, bus>>

\* Mutant: the second search goes by the options of the command line.
SearchAnywhere ==
  /\ pc = "returned" /\ result = "Found"
  /\ pc' = "list" /\ result' = "none" /\ chosen' = NoDevice
  /\ events' = <<>> /\ present' = attached
  /\ UNCHANGED <<args, attached, arrivals>>

\* The second search of upgrade, at the address the device was found at.
\* The callback of the first, and what it was not told of, are gone.
SearchAgain ==
  /\ pc = "returned" /\ result = "Found"
  /\ pc' = "list" /\ result' = "none" /\ chosen' = NoDevice
  /\ filter' = [bus |-> chosen.bus, addr |-> chosen.addr]
  /\ events' = <<>> /\ present' = attached
  /\ UNCHANGED <<patience, hotplug, attached, arrivals>>

\* A board is one device at a time, and an address is that of one device.
Apart(d, e) == d.board # e.board /\ (d.bus # e.bus \/ d.addr # e.addr)

\* The USB bus (external).  That a callback is told of no device that arrived
\* before its registration is an assumption about libusb.
Attach(d) ==
  /\ arrivals < MaxArrivals
  /\ \A e \in attached : Apart(d, e)
  /\ attached' = attached \cup {d}
  /\ arrivals' = arrivals + 1
  /\ events' = IF pc = "wait" THEN Append(events, d) ELSE events
  /\ UNCHANGED <<pc, args, result, chosen, present>>

Detach(d) ==
  /\ d \in attached
  /\ attached' = attached \ {d}
  /\ present' = present \ {d}
  /\ UNCHANGED <<pc, args, result, chosen, events, arrivals>>

-----------------------------------------------------------------------------
Init ==
  /\ pc = "list" /\ result = "none" /\ chosen = NoDevice
  /\ filter \in Filters
  /\ patience \in {"none", "finite", "forever"}
  /\ hotplug \in BOOLEAN
  /\ attached \in SUBSET Devices /\ present = attached
  /\ \A d, e \in attached : d = e \/ Apart(d, e)
  /\ events = <<>> /\ arrivals = 0

Host == List \/ Register \/ HandleEvents \/ Poll \/ Timeout

Next ==
  \/ Host \/ UsbFails \/ SearchAgain
  \/ \E d \in Devices : Attach(d) \/ Detach(d)

\* The one thread of the host goes on, and its clock, and handle_events does
\* not fail for ever; nothing is assumed of the devices or of other failures.
Spec == Init /\ [][Next]_vars /\ WF_vars(Host)

-----------------------------------------------------------------------------
Results == {"none", "Found", "NoDeviceFound", "MultipleDevicesFound", "Timeout",
            "Usb"}

\* Every variable stays in its type; a device is chosen exactly when one is
\* reported as found.
TypeOK ==
  /\ pc \in {"list", "register", "wait", "poll", "returned", "crashed"}
  /\ filter \in Filter
  /\ patience \in {"none", "finite", "forever"}
  /\ hotplug \in BOOLEAN
  /\ result \in Results
  /\ chosen \in Devices \cup {NoDevice}
  /\ (result = "Found") = (chosen # NoDevice)
  /\ attached \subseteq Devices /\ present \subseteq attached
  /\ events \in Seq(Devices) /\ arrivals \in 0..MaxArrivals

\* A matching device that is attached for the whole call is never overlooked:
\* the call does not end saying there is none.
NoneOverlooked ==
  result \in {"NoDeviceFound", "Timeout"} => {d \in present : Matching(d)} = {}

\* The call never picks one of several: a device that is returned has no
\* matching rival that was attached for the whole call.
NeverAmbiguous ==
  result = "Found" => {d \in present : Matching(d)} \subseteq {chosen}

\* A device that is returned is where the user said it is, whichever way it
\* was found, even if several arrived in the meantime.
FoundWhereAsked == result = "Found" => AtAddress(chosen)

\* Polling finds a device that comes and stays, in the first search and in
\* the second.
PollingEnds ==
  (~hotplug /\ <>[](Candidates # {})) => <>[](pc # "poll")

\* A matching device that arrives after the registration ends the wait, even
\* if it leaves again at once: it is returned, or the callback panics, or a
\* finite wait times out before it is told of.
ArrivalEndsWait ==
  pc = "wait" /\ (\E i \in DOMAIN events : Matching(events[i]))
    ~> pc \in {"returned", "crashed"}

-----------------------------------------------------------------------------
(* What the documentation or an assertion says, and the code does not do.  *)

\* README: "Wait for a Rockchip device to appear".
FoundIsSupported == result = "Found" => Detect(chosen) # "None"

\* README: "wait forever until a supported device appears".
WaitEndsOnArrival ==
  (patience = "forever" /\ <>[](Candidates # {})) => <>(pc \in {"returned", "crashed"})
=============================================================================
