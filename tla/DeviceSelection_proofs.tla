---------------------- MODULE DeviceSelection_proofs ----------------------
(***************************************************************************)
(* What find_device may return, for every set of devices, every filter,    *)
(* any number of searches, and any arrivals and departures.                *)
(***************************************************************************)
EXTENDS DeviceSelection, FiniteSetTheorems, SequenceTheorems, TLAPS

Waiting == pc \in {"register", "wait", "poll"}
Steady == {d \in present : Matching(d)}

(***************************************************************************)
(* The three properties speak of a call that has ended; the wait it ends   *)
(* with begins only after a list without candidates.  What was there all   *)
(* the time was on that list, so from then on no steady device matches.    *)
(***************************************************************************)
SelectionInv ==
  /\ attached \subseteq Devices
  /\ present \subseteq attached
  /\ Waiting => Steady = {}
  /\ NoneOverlooked
  /\ NeverAmbiguous
  /\ FoundWhereAsked

LEMMA SelectionInit == Init => SelectionInv
<1> SUFFICES ASSUME Init PROVE SelectionInv
  OBVIOUS
<1>1. attached \subseteq Devices /\ present = attached /\ pc = "list" /\ result = "none"
  BY DEF Init
<1>. QED
  BY <1>1 DEF SelectionInv, Waiting, NoneOverlooked, NeverAmbiguous, FoundWhereAsked

(* A single candidate is the only one.                                     *)
LEMMA SingleCandidate ==
  ASSUME attached \subseteq Devices, Cardinality(Candidates) = 1, NEW d \in Candidates
  PROVE  Candidates = {d}
<1>1. IsFiniteSet(Candidates)
  BY FS_Subset, DevicesAssumption DEF Candidates
<1>2. PICK e : Candidates = {e}
  BY <1>1, FS_Singleton
<1>. QED
  BY <1>2

(* Steady devices are candidates of every list.                            *)
LEMMA SteadyAreCandidates ==
  ASSUME present \subseteq attached
  PROVE  Steady \subseteq Candidates
BY DEF Steady, Candidates

(* A list or a poll that picks a device, or refuses to.                    *)
LEMMA PickSafe ==
  ASSUME SelectionInv, Pick, UNCHANGED <<args, bus>>
  PROVE  SelectionInv'
<1> USE DEF args, bus
<1>1. Steady' = Steady /\ attached' = attached /\ present' = present
  BY DEF Steady, Matching, AtAddress
<1>2. Steady \subseteq Candidates
  BY SteadyAreCandidates DEF SelectionInv
<1>3. attached' \subseteq Devices /\ present' \subseteq attached' /\ ~Waiting'
  BY <1>1 DEF SelectionInv, Pick, Found, Fail, Waiting
<1>4. CASE Cardinality(Candidates) = 1 /\ \E d \in Candidates : Found(d)
  <2>1. PICK d \in Candidates : Found(d)
    BY <1>4
  <2>2. Candidates = {d}
    BY <1>4, SingleCandidate DEF SelectionInv
  <2>3. AtAddress(d) /\ filter' = filter
    BY DEF Candidates, Matching
  <2>4. NoneOverlooked' /\ FoundWhereAsked'
    BY <2>1, <2>3 DEF Found, NoneOverlooked, FoundWhereAsked, AtAddress
  <2>5. NeverAmbiguous'
    BY <1>1, <1>2, <2>1, <2>2 DEF Found, NeverAmbiguous, Steady
  <2>. QED
    BY <1>3, <2>4, <2>5 DEF SelectionInv
<1>5. CASE Cardinality(Candidates) > 1 /\ Fail("MultipleDevicesFound")
  BY <1>3, <1>5 DEF SelectionInv, Fail, NoneOverlooked, NeverAmbiguous, FoundWhereAsked
<1>. QED
  BY <1>4, <1>5 DEF Pick

(* A failure that says there is no device is safe where no steady one      *)
(* matches; any other failure is.                                          *)
LEMMA FailSafe ==
  ASSUME SelectionInv, NEW e, Fail(e), e # "Found",
         e \in {"NoDeviceFound", "Timeout"} => Steady = {}, UNCHANGED <<args, bus>>
  PROVE  SelectionInv'
<1>1. Steady' = Steady /\ attached' = attached /\ present' = present
  BY DEF Steady, Matching, AtAddress, args, bus
<1>2. result' = e /\ ~Waiting'
  BY DEF Fail, Waiting
<1>. QED
  BY <1>1, <1>2 DEF SelectionInv, NoneOverlooked, NeverAmbiguous, FoundWhereAsked, Steady

LEMMA ListSafe == ASSUME SelectionInv, List PROVE SelectionInv'
<1>1. UNCHANGED <<args, bus>>
  BY DEF List
<1>2. Candidates = {} => Steady = {}
  BY SteadyAreCandidates DEF SelectionInv
<1>3. CASE Pick
  BY <1>1, <1>3, PickSafe
<1>4. CASE Candidates = {} /\ Fail("NoDeviceFound")
  BY <1>1, <1>2, <1>4, FailSafe
<1>5. CASE Candidates = {} /\ UNCHANGED <<result, chosen>>
  <2>1. Steady' = {} /\ UNCHANGED <<attached, present, filter, result, chosen>>
    BY <1>1, <1>2, <1>5 DEF Steady, Matching, AtAddress, args, bus
  <2>. QED
    BY <2>1 DEF SelectionInv, NoneOverlooked, NeverAmbiguous, FoundWhereAsked, AtAddress, Steady
<1>. QED
  BY <1>3, <1>4, <1>5 DEF List

(* The device a callback stores has passed the assertions, and it has no   *)
(* steady rival.                                                           *)
LEMMA HandleEventsSafe == ASSUME SelectionInv, HandleEvents PROVE SelectionInv'
<1>1. UNCHANGED <<filter, attached, present>>
  BY DEF HandleEvents, args
<1>2. Steady' = {} /\ Steady = {}
  BY <1>1 DEF HandleEvents, SelectionInv, Waiting, Steady, Matching, AtAddress
<1>3. CASE \E n \in 1..Len(events) : Accepts(events[n]) /\ Found(events[n])
  BY <1>1, <1>2, <1>3
     DEF SelectionInv, Accepts, Found, Waiting, NoneOverlooked, NeverAmbiguous,
         FoundWhereAsked, AtAddress, Steady
<1>4. CASE pc' = "crashed" /\ UNCHANGED <<result, chosen>>
  BY <1>1, <1>2, <1>4
     DEF SelectionInv, Waiting, NoneOverlooked, NeverAmbiguous, FoundWhereAsked,
         AtAddress, Steady
<1>. QED
  BY <1>3, <1>4 DEF HandleEvents

(* Arrivals, departures and the registration change no verdict; what is    *)
(* steady only shrinks.                                                    *)
LEMMA OthersSafe ==
  ASSUME SelectionInv, attached' \subseteq Devices,
         present' \subseteq present, present' \subseteq attached',
         Waiting' => Waiting, UNCHANGED <<filter, result, chosen>>
  PROVE  SelectionInv'
<1>1. Steady' \subseteq Steady
  BY DEF Steady, Matching, AtAddress
<1>. QED
  BY <1>1 DEF SelectionInv, NoneOverlooked, NeverAmbiguous, FoundWhereAsked,
              AtAddress, Steady

LEMMA SelectionNext == SelectionInv /\ [Next]_vars => SelectionInv'
<1> SUFFICES ASSUME SelectionInv, [Next]_vars PROVE SelectionInv'
  OBVIOUS
<1>1. CASE List
  BY <1>1, ListSafe
<1>2. CASE Register
  BY <1>2, OthersSafe DEF Register, Waiting, SelectionInv, args, bus
<1>3. CASE HandleEvents
  BY <1>3, HandleEventsSafe
<1>4. CASE Poll
  BY <1>4, PickSafe DEF Poll
<1>5. CASE Timeout
  <2>1. Steady = {}
    BY <1>5 DEF Timeout, SelectionInv, Waiting
  <2>. QED
    BY <1>5, <2>1, FailSafe DEF Timeout
<1>6. CASE SearchAgain
  BY <1>6 DEF SearchAgain, SelectionInv, Waiting, NoneOverlooked, NeverAmbiguous,
              FoundWhereAsked
<1>7. ASSUME NEW d \in Devices, Attach(d)
      PROVE  SelectionInv'
  BY <1>7, OthersSafe DEF Attach, Waiting, SelectionInv, args
<1>8. ASSUME NEW d \in Devices, Detach(d)
      PROVE  SelectionInv'
  BY <1>8, OthersSafe DEF Detach, Waiting, SelectionInv, args
<1>9. CASE UsbFails
  BY <1>9, FailSafe DEF UsbFails
<1>10. CASE UNCHANGED vars
  BY <1>10, OthersSafe DEF vars, Waiting, SelectionInv
<1>. QED
  BY <1>1, <1>2, <1>3, <1>4, <1>5, <1>6, <1>7, <1>8, <1>9, <1>10 DEF Next, Host

LEMMA SelectionAlways == Spec => []SelectionInv
<1>1. Init => SelectionInv
  BY SelectionInit
<1>2. SelectionInv /\ [Next]_vars => SelectionInv'
  BY SelectionNext
<1>. QED
  BY <1>1, <1>2, PTL DEF Spec

(* The call never says that there is no device while a matching one was    *)
(* attached all the time: find_device lists before it waits.               *)
THEOREM NothingOverlooked == Spec => []NoneOverlooked
<1>1. SelectionInv => NoneOverlooked
  BY DEF SelectionInv
<1>. QED
  BY <1>1, SelectionAlways, PTL

(* The call never picks one of several: no device that matches as well and *)
(* was attached all the time is passed over.                               *)
THEOREM NoRival == Spec => []NeverAmbiguous
<1>1. SelectionInv => NeverAmbiguous
  BY DEF SelectionInv
<1>. QED
  BY <1>1, SelectionAlways, PTL

(* A device is found only at the bus and address the user gave, by the     *)
(* list, by polling, and, thanks to the assertions, by the callback.       *)
THEOREM AddressRespected == Spec => []FoundWhereAsked
<1>1. SelectionInv => FoundWhereAsked
  BY DEF SelectionInv
<1>. QED
  BY <1>1, SelectionAlways, PTL

-----------------------------------------------------------------------------
(* A search has a result exactly when it has returned.                     *)
SelectionTypeInv ==
  /\ TypeOK
  /\ (pc = "returned") = (result # "none")

(* The absent device is no device.                                         *)
LEMMA NoDeviceIsNone == NoDevice \notin Devices
BY DevicesAssumption DEF NoDevice, Device

LEMMA FoundType ==
  ASSUME SelectionTypeInv, NEW d \in Devices, Found(d)
  PROVE  /\ pc' = "returned" /\ result' = "Found" /\ chosen' \in Devices
         /\ chosen' # NoDevice
BY NoDeviceIsNone DEF Found

LEMMA PickType ==
  ASSUME SelectionTypeInv, pc # "returned", Pick, UNCHANGED <<args, bus>>
  PROVE  SelectionTypeInv'
<1> USE DEF args, bus, SelectionTypeInv, TypeOK
<1>1. CASE \E d \in Candidates : Found(d)
  BY <1>1, FoundType DEF Candidates, Results
<1>2. CASE Fail("MultipleDevicesFound")
  BY <1>2 DEF Fail, Results
<1>. QED
  BY <1>1, <1>2 DEF Pick

LEMMA HandleEventsType ==
  ASSUME SelectionTypeInv, HandleEvents
  PROVE  SelectionTypeInv'
<1> USE DEF args, SelectionTypeInv, TypeOK
<1>1. events \in Seq(Devices)
  OBVIOUS
<1>2. CASE \E n \in 1..Len(events) :
             Found(events[n]) /\ events' = SubSeq(events, n + 1, Len(events))
  <2>1. PICK n \in 1..Len(events) :
               Found(events[n]) /\ events' = SubSeq(events, n + 1, Len(events))
    BY <1>2
  <2>2. events[n] \in Devices
    BY <1>1, ElementOfSeq
  <2>3. events' \in Seq(Devices)
    BY <1>1, <2>1, SubSeqProperties
  <2>. QED
    BY <2>1, <2>2, <2>3, FoundType DEF HandleEvents, Results
<1>3. CASE pc' = "crashed" /\ events' = <<>> /\ UNCHANGED <<result, chosen>>
  BY <1>3 DEF HandleEvents
<1>. QED
  BY <1>2, <1>3 DEF HandleEvents

LEMMA SelectionTypeNext == SelectionTypeInv /\ [Next]_vars => SelectionTypeInv'
<1> SUFFICES ASSUME SelectionTypeInv, [Next]_vars PROVE SelectionTypeInv'
  OBVIOUS
<1>1. CASE List
  <2>1. CASE Pick
    BY <1>1, <2>1, PickType DEF List
  <2>2. CASE Fail("NoDeviceFound")
    BY <1>1, <2>2 DEF List, Fail, SelectionTypeInv, TypeOK, Results, args, bus
  <2>3. CASE pc' = IF hotplug THEN "register" ELSE "poll"
    BY <1>1, <2>3 DEF List, Pick, Fail, Found, SelectionTypeInv, TypeOK, args, bus
  <2>. QED
    BY <1>1, <2>1, <2>2, <2>3 DEF List
<1>2. CASE Register
  BY <1>2 DEF Register, SelectionTypeInv, TypeOK, args, bus
<1>3. CASE HandleEvents
  BY <1>3, HandleEventsType
<1>4. CASE Poll
  BY <1>4, PickType DEF Poll
<1>5. CASE Timeout
  BY <1>5 DEF Timeout, Fail, SelectionTypeInv, TypeOK, Results, args, bus
<1>6. CASE SearchAgain
  <2>1. chosen \in Devices
    BY <1>6 DEF SearchAgain, SelectionTypeInv, TypeOK
  <2>2. filter' \in Filter
    BY <1>6, <2>1, DevicesAssumption DEF SearchAgain, Device, Filter
  <2>. QED
    BY <1>6, <2>2 DEF SearchAgain, SelectionTypeInv, TypeOK, Results
<1>7. ASSUME NEW d \in Devices, Attach(d)
      PROVE  SelectionTypeInv'
  <2>1. arrivals' \in 0..MaxArrivals
    BY <1>7, MaxArrivalsAssumption DEF Attach, SelectionTypeInv, TypeOK
  <2>2. events' \in Seq(Devices)
    BY <1>7, AppendProperties DEF Attach, SelectionTypeInv, TypeOK
  <2>. QED
    BY <1>7, <2>1, <2>2 DEF Attach, SelectionTypeInv, TypeOK, args
<1>8. ASSUME NEW d \in Devices, Detach(d)
      PROVE  SelectionTypeInv'
  BY <1>8 DEF Detach, SelectionTypeInv, TypeOK, args
<1>9. CASE UsbFails
  BY <1>9 DEF UsbFails, Fail, SelectionTypeInv, TypeOK, Results, args, bus
<1>10. CASE UNCHANGED vars
  BY <1>10 DEF vars, SelectionTypeInv, TypeOK
<1>. QED
  BY <1>1, <1>2, <1>3, <1>4, <1>5, <1>6, <1>7, <1>8, <1>9, <1>10 DEF Next, Host

LEMMA SelectionTypeInit == Init => SelectionTypeInv
BY FiltersAssumption, MaxArrivalsAssumption, EmptySeq
   DEF Init, SelectionTypeInv, TypeOK, Results

(* Every variable stays in its type; a device is chosen exactly when one   *)
(* is reported as found, and it is one that can be on the bus.             *)
THEOREM SelectionTypes == Spec => []TypeOK
<1>1. SelectionTypeInv => TypeOK
  BY DEF SelectionTypeInv
<1>. QED
  BY <1>1, SelectionTypeInit, SelectionTypeNext, PTL DEF Spec
=============================================================================
