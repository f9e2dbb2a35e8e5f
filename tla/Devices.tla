------------------------------ MODULE Devices ------------------------------
(***************************************************************************)
(* The memory-mapped devices, which share no state: one of them moves in a *)
(* behaviour, part says which.                                             *)
(***************************************************************************)
EXTENDS DiskDma

CONSTANTS
  ClockWord, Second, Milli, MaxTime,   \* of Clock
  MBASE, MSIZE, PAGE_SIZE, IO_SPACE_MAX, NR_MAP, Places, Lens, WORD,
  Byte, Garbage                        \* of Mmio

VARIABLES
  part,
  now, port, high, low, start, uptime, ticks,
  state, maps, p_space, space, got, stored

clock == <<now, port, high, low, start, uptime, ticks>>
map   == <<state, maps, p_space, space, got, stored>>

C == INSTANCE Clock WITH Word <- ClockWord
M == INSTANCE Mmio WITH Addr <- Places

ASSUME DevicesAssumption == C!ClockAssumption /\ M!MmioAssumption

DevicesInit ==
  /\ part \in {"disk", "clock", "map"}
  /\ Init /\ C!Init /\ M!Init
  \* The others start in one state while a device is looked at.
  /\ part # "disk" => mem = [a \in Addr |-> 0] /\ disk = [d \in DiskAddr |-> 0]

DevicesNext ==
  /\ UNCHANGED part
  /\ \/ part = "disk" /\ Next /\ UNCHANGED <<clock, map>>
     \/ part = "clock" /\ C!Next /\ UNCHANGED <<vars, map>>
     \/ part = "map" /\ M!Next /\ UNCHANGED <<vars, clock>>

DevicesSpec == DevicesInit /\ [][DevicesNext]_<<vars, clock, map, part>>

\* A call returns a time between its beginning and its end, or one that is wrong
\* by as many overflows of the low word as lie between its loads (rtc.c:8); until
\* the first of them the ticks of a program never go back (Clock).
TimesRight == [][C!Returned /\ C!FollowsUntilCarry]_clock

\* No device shares an address with another or hides physical memory (mmio.c), and
\* a read returns what the program or the device last stored at its addresses,
\* whatever is done to the other devices (map.c and the handlers).
DevicesApart == M!RegionsApart /\ M!ReadsStored
=============================================================================
