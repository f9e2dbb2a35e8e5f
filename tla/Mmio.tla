-------------------------------- MODULE Mmio --------------------------------
(***************************************************************************)
(* The map of the devices (sim/device/io): while the simulator starts,     *)
(* each device gets pages of the device space and enters its registers     *)
(* into a table; after that the table turns every access outside physical  *)
(* memory into bytes of the device space and a call of the device, which   *)
(* may refuse the access and may store into registers itself.              *)
(***************************************************************************)
EXTENDS Integers, Sequences

CONSTANTS
  MBASE, MSIZE,     \* physical memory
  PAGE_SIZE, IO_SPACE_MAX, NR_MAP,
  Addr, Lens,       \* where devices are placed, and how many bytes they have
  WORD,             \* bytes of a word
  Byte, Garbage     \* what is stored, and what malloc left

MmioAssumption ==
  /\ MBASE \in Nat /\ MSIZE \in Nat \ {0} /\ PAGE_SIZE \in Nat \ {0}
  /\ IO_SPACE_MAX \in Nat /\ NR_MAP \in Nat
  /\ WORD \in Nat \ {0} /\ 0 \in Byte /\ Garbage \notin Byte
  /\ Addr \subseteq {a \in Nat : a % WORD = 0}
  \* screen_size() is the longest; of a device only the two ends are looked at.
  /\ Lens \subseteq {n \in 1..MSIZE : n % WORD = 0}

VARIABLES
  state,            \* "init", then "running"; "panic" and "abort" end the simulator
  maps,             \* the table: name, first and last address, place of the first byte
  p_space, space,   \* what is allocated of the device space, and its contents
  got,              \* address and bytes of a read, until the next access
  stored            \* history: by address, the bytes that the program or the device stored last

vars == <<state, maps, p_space, space, got, stored>>

in_pmem(a) == a \in MBASE..MBASE + MSIZE - 1

Init ==
  /\ state = "init" /\ maps = <<>> /\ p_space = 0
  /\ space = [c \in 0..IO_SPACE_MAX - 1 |-> Garbage]
  /\ got = <<>> /\ stored = <<>>

-----------------------------------------------------------------------------
(* Registers *)

Registers(e) == 0..e.high - e.low

\* Every register of e holds zero, every register one of the bytes.
Zeros(e) == [k \in Registers(e) |-> 0]
Any(e) == [Registers(e) -> Byte]

Contents == [space |-> space, stored |-> stored]

\* The device space and the history after values, by register, are stored into e.
After(c, e, values) ==
  LET over(array, cells, at) ==
        [x \in cells |-> IF x - at \in DOMAIN values THEN values[x - at] ELSE array[x]]
  IN  [space |-> over(c.space, DOMAIN c.space, e.place),
       stored |-> over(c.stored, DOMAIN c.stored \cup {e.low + k : k \in DOMAIN values}, e.low)]

Become(c) == space' = c.space /\ stored' = c.stored

-----------------------------------------------------------------------------
(* Starting: new_space and add_mmio_map *)

\* Fault: the size is not rounded, the next device starts inside a page.
Pages_Down(size) == (size \div PAGE_SIZE) * PAGE_SIZE

Pages(size) == ((size + PAGE_SIZE - 1) \div PAGE_SIZE) * PAGE_SIZE

\* Fault: only the first address of the new region is looked up.
Overlaps_First(e, left, right) == left <= e.high /\ left >= e.low

Overlaps(e, left, right) == left <= e.high /\ right >= e.low

Entry(name, left, len, place) ==
  [name |-> name, low |-> left, high |-> left + len - 1, place |-> place]

\* add_mmio_map lets e into table.
Fits(table, e) ==
  /\ Len(table) < NR_MAP
  /\ ~in_pmem(e.low) /\ ~in_pmem(e.high)
  /\ \A i \in DOMAIN table : ~Overlaps(table[i], e.low, e.high)

\* The devices in the order in which they are started.
Names == <<"serial", "rtc", "vgactl", "vmem", "ffb_mem", "ffb_draw", "keyboard", "diskctl">>

HasLen(name, len) ==
  /\ name \in {"serial", "vgactl"} => len = 2 * WORD
  /\ name \in {"ffb_draw", "keyboard"} => len = WORD
  /\ name = "diskctl" => len > WORD

\* The command of the disk is an entry of its own, behind its other registers.
Entries(name, addr, len) ==
  IF name # "diskctl" THEN <<Entry(name, addr, len, p_space)>>
  ELSE LET first == len - WORD
       IN  <<Entry(name, addr, first, p_space), Entry("diskrw", addr + first, WORD, p_space + first)>>

\* What a device puts into its registers before it is used.
Fresh(e) ==
  CASE e.name \in {"vmem", "keyboard"} -> {Zeros(e)}
    [] e.name = "vgactl" -> [0..WORD - 1 -> Byte]
    [] OTHER -> {<<>>}

\* Any of the devices may be configured, but nothing draws without a frame buffer.
init_device(i, addr, len) ==
  LET name == Names[i]
      new == Entries(name, addr, len)
      allocated == p_space + Pages(len)
      fits == \A n \in DOMAIN new : Fits(maps \o SubSeq(new, 1, n - 1), new[n])
  IN  /\ state = "init" /\ HasLen(name, len)
      /\ \A n \in DOMAIN maps : \E j \in 1..i - 1 : Names[j] = maps[n].name
      /\ name = "ffb_draw" => \E n \in DOMAIN maps : maps[n].name = "vmem"
      /\ p_space' = allocated
      /\ IF allocated < IO_SPACE_MAX /\ fits
         THEN /\ maps' = maps \o new /\ UNCHANGED state
              /\ \E values \in Fresh(new[1]) : Become(After(Contents, new[1], values))
         ELSE state' = "panic" /\ UNCHANGED <<maps, space, stored>>
      /\ UNCHANGED got

Start ==
  /\ state = "init" /\ maps # <<>> /\ state' = "running"
  /\ UNCHANGED <<maps, p_space, space, got, stored>>

-----------------------------------------------------------------------------
(* The handlers *)

\* An assertion of the handler of e fails.
Refuses(e, a, len, is_write) ==
  CASE e.name = "keyboard" -> is_write \/ a # e.low
    [] e.name = "rtc" -> is_write
    [] e.name = "serial" -> ~(is_write /\ len = 1 /\ a = e.low)
    [] e.name = "ffb_draw" -> ~is_write
    [] OTHER -> FALSE

\* The contents after the handler of e, what it does outside the device space left out:
\* the keyboard and the clock prepare what is read, the disk takes its command
\* back, and a row is drawn into the frame buffer (and nowhere else).
Called(c, e, is_write) ==
  CASE ~is_write /\ e.name \in {"keyboard", "rtc"} -> {After(c, e, v) : v \in Any(e)}
    [] is_write /\ e.name = "diskrw" -> {After(c, e, Zeros(e))}
    [] is_write /\ e.name = "ffb_draw" ->
         UNION {{After(c, maps[i], v) : v \in Any(maps[i])} : i \in {n \in DOMAIN maps : maps[n].name = "vmem"}}
    [] OTHER -> {c}

\* device_update of the simulator, between two accesses.
vga_update_screen ==
  /\ state = "running"
  /\ \E i \in DOMAIN maps :
       LET e == maps[i]
           sync == WORD..e.high - e.low
       IN  /\ e.name = "vgactl" /\ \E k \in sync : space[e.place + k] # 0
           /\ Become(After(Contents, e, [k \in sync |-> 0]))
  /\ got' = <<>> /\ UNCHANGED <<state, maps, p_space>>

-----------------------------------------------------------------------------
(* Running: mmio_read and mmio_write *)

Inside(a) == {i \in DOMAIN maps : a \in maps[i].low..maps[i].high}

find_mapid_by_addr(a) == CHOOSE i \in Inside(a) : \A j \in Inside(a) : i <= j

\* Loads and stores of len bytes are aligned, and so are the registers.
Aligned(a, len) == state = "running" /\ ~in_pmem(a) /\ a % len = 0

\* The bytes of the device space behind an access of len bytes at a.
host_read(c, e, a, len) == [k \in 1..len |-> c.space[e.place + (a - e.low) + k - 1]]

host_write(c, e, a, data) ==
  LET offset == a - e.low
  IN  After(c, e, [k \in offset..offset + Len(data) - 1 |-> data[k - offset + 1]])

\* Fault: what the device prepares comes too late.
mmio_read_Early(a, len) ==
  LET e == maps[find_mapid_by_addr(a)]
  IN  /\ Aligned(a, len) /\ Inside(a) # {}
      /\ ~Refuses(e, a, len, FALSE) /\ UNCHANGED state
      /\ \E c \in Called(Contents, e, FALSE) :
           Become(c) /\ got' = [at |-> a, bytes |-> host_read(Contents, e, a, len)]
      /\ UNCHANGED <<maps, p_space>>

mmio_read(a, len) ==
  LET e == maps[find_mapid_by_addr(a)]
  IN  /\ Aligned(a, len) /\ Inside(a) # {}
      /\ IF Refuses(e, a, len, FALSE) THEN state' = "panic" /\ UNCHANGED <<space, stored, got>>
         ELSE /\ UNCHANGED state
              /\ \E c \in Called(Contents, e, FALSE) :
                   Become(c) /\ got' = [at |-> a, bytes |-> host_read(c, e, a, len)]
      /\ UNCHANGED <<maps, p_space>>

mmio_write(a, data) ==
  LET e == maps[find_mapid_by_addr(a)]
      written == host_write(Contents, e, a, data)
  IN  /\ Aligned(a, Len(data)) /\ Inside(a) # {}
      /\ IF Refuses(e, a, Len(data), TRUE) THEN state' = "panic" /\ Become(written)
         ELSE UNCHANGED state /\ \E c \in Called(written, e, TRUE) : Become(c)
      /\ got' = <<>> /\ UNCHANGED <<maps, p_space>>

\* check_bound: nothing is at a; the instruction is finished with a zero.
check_bound(a, len) ==
  /\ Aligned(a, len) /\ Inside(a) = {}
  /\ state' = "abort"
  /\ UNCHANGED <<maps, p_space, space, got, stored>>

Next ==
  \/ \E i \in DOMAIN Names, a \in Addr, len \in Lens : init_device(i, a, len)
  \/ Start \/ vga_update_screen
  \/ \E word \in Addr, lane \in 0..WORD - 1, len \in {1, WORD} :
       LET a == word + lane
       IN  \/ mmio_read(a, len)
           \/ check_bound(a, len)
           \/ \E data \in [1..len -> Byte] : mmio_write(a, data)

Spec == Init /\ [][Next]_vars

-----------------------------------------------------------------------------
(* Properties *)

\* mmio.c, report_mmio_overlap: whatever devices are configured, none shares an
\* address with another or hides part of physical memory.
RegionsApart ==
  \A i \in DOMAIN maps :
    /\ \A a \in maps[i].low..maps[i].high : ~in_pmem(a)
    /\ \A j \in DOMAIN maps \ {i} : maps[i].high < maps[j].low \/ maps[j].high < maps[i].low

\* map.c: a read returns what was stored last at those addresses, by accesses of
\* any size or by the device that owns them: what the keyboard and the clock
\* prepare in the same call, the zero of a command the disk has done, a sync
\* register that has been served, a frame buffer that has been drawn to; and
\* whatever is done to the other devices.
ReadsStored ==
  got # <<>> =>
    \A k \in DOMAIN got.bytes :
      LET a == got.at + k - 1 IN a \in DOMAIN stored => got.bytes[k] = stored[a]
=============================================================================
