---------------------------- MODULE KernelProofs ----------------------------
(***************************************************************************)
(* Proofs about the system calls of nanos, for every table, every disk and *)
(* every size_t, and for traps nested to any depth: the offsets stay in    *)
(* their files, the file table implements FileStore, and every trap that   *)
(* returns goes on behind its own ecall.                                   *)
(***************************************************************************)
EXTENDS Kernel, TLAPS

\* Reducing a number that is in range does nothing (size_t arithmetic).
LEMMA ModIdentity == \A m \in Nat \ {0}, x \in Int : x \in 0..m - 1 => x % m = x
  OBVIOUS

\* Reducing any number brings it into range.
LEMMA ModRange == \A m \in Nat \ {0}, x \in Int : x % m \in 0..m - 1
  OBVIOUS

\* The inductive invariant of the file table: inside its file an offset is what
\* keeps size - open_offset from wrapping around.
TableInv == TypeOK /\ OffsetInFile

\* The files whose reads are not clipped.
Text == {"events", "dispinfo"}

\* While the offset is in the file, the size_t expressions of fs_read and
\* fs_write compute the smaller of the request and what is left.
LEMMA ClippedFits ==
  ASSUME TableInv, NEW f \in Fd, Kind[f] \notin Text, NEW n \in Lens
  PROVE  /\ Clipped(f, n) \in Nat
         /\ open_offset[f] \in Nat
         /\ open_offset[f] + Clipped(f, n) <= FileSize[f]
         /\ (open_offset[f] + Clipped(f, n)) % SizeMod = open_offset[f] + Clipped(f, n)
<1>1. open_offset[f] \in Nat /\ open_offset[f] <= FileSize[f]
  BY DEF TableInv, TypeOK, OffsetInFile, SizeT, Text
<1>2. FileSize[f] \in Nat /\ n \in Nat /\ SizeMod \in Nat \ {0} /\ FileSize[f] + n < SizeMod
  BY FilesAssumption
<1>3. (open_offset[f] + n) % SizeMod = open_offset[f] + n
  <2> DEFINE end == open_offset[f] + n
  <2>1. end \in 0..SizeMod - 1
    BY <1>1, <1>2
  <2> HIDE DEF end
  <2>2. end % SizeMod = end
    BY <1>2, <2>1, ModIdentity
  <2> QED BY <2>2 DEF end
<1>4. (FileSize[f] - open_offset[f]) % SizeMod = FileSize[f] - open_offset[f]
  <2>1. FileSize[f] - open_offset[f] \in 0..SizeMod - 1
    BY <1>1, <1>2
  <2> QED BY <1>1, <1>2, <2>1, ModIdentity
<1>5. /\ Clipped(f, n) \in Nat
      /\ open_offset[f] + Clipped(f, n) <= FileSize[f]
  <2>1. Clipped(f, n) =
          IF open_offset[f] + n > FileSize[f] THEN FileSize[f] - open_offset[f] ELSE n
    BY <1>3, <1>4 DEF Clipped
  <2> QED BY <1>1, <1>2, <2>1
<1>6. (open_offset[f] + Clipped(f, n)) % SizeMod = open_offset[f] + Clipped(f, n)
  <2> DEFINE m == open_offset[f] + Clipped(f, n)
  <2>1. m \in 0..SizeMod - 1
    BY <1>1, <1>2, <1>5
  <2> HIDE DEF m
  <2>2. m % SizeMod = m
    BY <1>2, <2>1, ModIdentity
  <2> QED BY <2>2 DEF m
<1> QED BY <1>1, <1>5, <1>6

\* Moving one offset to a place in its file keeps every offset in its file.
LEMMA MoveKeeps ==
  ASSUME TableInv, NEW f \in Fd, NEW p \in SizeT, Kind[f] \notin Text => p <= FileSize[f],
         open_offset' = [open_offset EXCEPT ![f] = p]
  PROVE  open_offset' \in [Fd -> SizeT] /\ OffsetInFile'
BY DEF TableInv, TypeOK, OffsetInFile, Text

\* At first every offset is 0.
LEMMA TableInit == Init => TableInv
<1>1. 0 \in SizeT /\ \A f \in Fd : FileSize[f] \in Nat /\ 0 <= FileSize[f]
  BY FilesAssumption DEF SizeT
<1>2. Init => TypeOK
  BY <1>1 DEF Init, TypeOK
<1>3. Init => OffsetInFile
  BY <1>1 DEF Init, OffsetInFile
<1> QED BY <1>2, <1>3 DEF TableInv

\* Every call keeps the types and the offsets.
LEMMA TableStep ==
  ASSUME TableInv, [Next]_vars
  PROVE  TableInv'
<1> USE DEF TableInv
<1>0. CASE UNCHANGED vars
  BY <1>0 DEF vars, TypeOK, OffsetInFile
<1>z. 0 \in SizeT /\ SizeMod \in Nat \ {0}
  BY FilesAssumption DEF SizeT
<1>n. \A f \in Fd : 0 <= FileSize[f]
  BY FilesAssumption
<1>1. ASSUME NEW f \in Fd, fs_open(f) PROVE TableInv'
  <2>1. open_offset' \in [Fd -> SizeT] /\ OffsetInFile'
    BY <1>1, <1>z, <1>n, MoveKeeps DEF fs_open
  <2> QED BY <1>1, <2>1 DEF fs_open, TypeOK
<1>2. ASSUME NEW f \in Fd, fs_close(f) PROVE TableInv'
  <2>1. CASE Rejected("close", f, 0)
    BY <2>1 DEF Rejected, table, TypeOK, OffsetInFile
  <2>2. CASE /\ is_open' = [is_open EXCEPT ![f] = FALSE]
             /\ open_offset' = [open_offset EXCEPT ![f] = 0]
             /\ UNCHANGED <<disk, screen, halted, data>>
    <3>1. open_offset' \in [Fd -> SizeT] /\ OffsetInFile'
      BY <2>2, <1>z, <1>n, MoveKeeps
    <3> QED BY <2>2, <3>1 DEF TypeOK
  <2> QED BY <1>2, <2>1, <2>2 DEF fs_close
<1>p. panic => TableInv'
  BY DEF panic, table, TypeOK, OffsetInFile
<1>3. ASSUME NEW f \in Fd, NEW n \in Lens, fs_read(f, n) PROVE TableInv'
  <2>1. CASE Rejected("read", f, n)
    BY <2>1 DEF Rejected, table, TypeOK, OffsetInFile
  <2>2. CASE ReadDisk(f, n)
    <3>1. Kind[f] \notin Text
      BY <2>2 DEF ReadDisk, Text
    <3>a. open_offset[f] + Clipped(f, n) \in Int
      BY <3>1, ClippedFits
    <3>2. (open_offset[f] + Clipped(f, n)) % SizeMod \in SizeT
      BY <3>a, <1>z, ModRange DEF SizeT
    <3>3. open_offset' \in [Fd -> SizeT] /\ OffsetInFile'
      BY <2>2, <3>1, <3>2, ClippedFits, MoveKeeps DEF ReadDisk, Advance, TypeOK
    <3> QED BY <2>2, <3>3 DEF ReadDisk, TypeOK
  <2>3. CASE ReadText(f, n)
    <3>1. PICK m \in MsgLens : Advance(f, m)
      BY <2>3 DEF ReadText
    <3>2. Kind[f] \in Text
      BY <2>3 DEF ReadText, Text
    <3>a. open_offset[f] + m \in Int
      BY <1>z, FilesAssumption DEF SizeT, TypeOK
    <3>3. (open_offset[f] + m) % SizeMod \in SizeT
      BY <3>a, <1>z, ModRange DEF SizeT
    <3>4. open_offset' \in [Fd -> SizeT] /\ OffsetInFile'
      BY <3>1, <3>2, <3>3, MoveKeeps DEF Advance, TypeOK
    <3> QED BY <2>3, <3>4 DEF ReadText, TypeOK
  <2> QED BY <1>3, <1>p, <2>1, <2>2, <2>3 DEF fs_read
<1>4. ASSUME NEW f \in Fd, NEW n \in Lens, NEW b \in Byte, fs_write(f, n, b) PROVE TableInv'
  <2>1. CASE Rejected("write", f, n)
    BY <2>1 DEF Rejected, table, TypeOK, OffsetInFile
  <2>2. CASE WriteDisk(f, n) \/ WriteSerial(f, n)
    <3>1. Kind[f] \notin Text
      BY <2>2 DEF WriteDisk, WriteSerial, Text
    <3>a. open_offset[f] + Clipped(f, n) \in Int
      BY <3>1, ClippedFits
    <3>2. (open_offset[f] + Clipped(f, n)) % SizeMod \in SizeT
      BY <3>a, <1>z, ModRange DEF SizeT
    <3>3. open_offset' \in [Fd -> SizeT] /\ OffsetInFile'
      BY <2>2, <3>1, <3>2, ClippedFits, MoveKeeps DEF WriteDisk, WriteSerial, Advance, TypeOK
    <3> QED BY <2>2, <3>3 DEF WriteDisk, WriteSerial, TypeOK
  <2>3. CASE WriteScreen(f, n, b)
    <3> DEFINE count == Clipped(f, n) \div 4
    <3>1. Kind[f] \notin Text
      BY <2>3 DEF WriteScreen, Text
    <3>2. count \in Nat /\ count <= Clipped(f, n)
      BY <3>1, ClippedFits
    <3>3. open_offset[f] + count <= FileSize[f] /\ open_offset[f] + count \in SizeT
      BY <3>1, <3>2, ClippedFits, FilesAssumption DEF SizeT
    <3>4. (open_offset[f] + count) % SizeMod = open_offset[f] + count
      BY <3>3, <1>z, ModIdentity DEF SizeT
    <3>5. open_offset' \in [Fd -> SizeT] /\ OffsetInFile'
      BY <2>3, <3>3, <3>4, MoveKeeps DEF WriteScreen, Advance, TypeOK
    <3> QED BY <2>3, <3>5 DEF WriteScreen, TypeOK
  <2> QED BY <1>4, <1>p, <2>1, <2>2, <2>3 DEF fs_write
<1>5. ASSUME NEW f \in Fd, NEW base \in SeekBase(f), NEW offset \in SizeT, fs_lseek(f, base, offset)
      PROVE  TableInv'
  <2> DEFINE new == (base + offset) % SizeMod
  <2>1. CASE UNCHANGED <<table, disk, screen, halted, data>>
    BY <2>1 DEF table, TypeOK, OffsetInFile
  <2>2. CASE is_open[f] /\ new <= FileSize[f] /\ open_offset' = [open_offset EXCEPT ![f] = new]
             /\ UNCHANGED <<is_open, disk, screen, halted, data>>
    <3>1. base \in Int
      BY FilesAssumption DEF SeekBase, TypeOK, SizeT
    <3>2. new \in SizeT
      BY <3>1, <1>z, ModRange DEF SizeT
    <3>3. open_offset' \in [Fd -> SizeT] /\ OffsetInFile'
      BY <2>2, <3>2, MoveKeeps
    <3> QED BY <2>2, <3>3 DEF TypeOK
  <2> QED BY <1>5, <2>1, <2>2 DEF fs_lseek, Rejected
<1> QED BY <1>0, <1>1, <1>2, <1>3, <1>4, <1>5 DEF Next

\* The file table keeps its types (fs.c), whatever is called.
THEOREM TableTyped == Spec => []TypeOK
<1>1. Init => TableInv
  BY TableInit
<1>2. TableInv /\ [Next]_vars => TableInv'
  BY TableStep
<1>3. TableInv => TypeOK
  BY DEF TableInv
<1> QED BY <1>1, <1>2, <1>3, PTL DEF Spec

-----------------------------------------------------------------------------
(* Refinement of FileStore.                                                *)

\* Nothing happens to the ordinary files.
SameFiles == UNCHANGED <<contents, position, opened, data>>

\* Calls that are refused, that panic or that go to a device are invisible.
LEMMA TableAlone ==
  ASSUME UNCHANGED <<is_open, open_offset, disk, data>>
  PROVE  SameFiles
BY DEF SameFiles, contents, position, opened

\* A call on a special file moves an offset that no ordinary file has.
LEMMA DevicesAlone ==
  ASSUME TableInv, NEW f \in Fd, f \notin Disk, NEW p, open_offset' = [open_offset EXCEPT ![f] = p],
         UNCHANGED <<is_open, disk, data>>
  PROVE  SameFiles
<1>1. \A g \in Disk : g \in Fd /\ g # f
  BY DEF Disk
<1>2. position' = position
  BY <1>1 DEF position, TableInv, TypeOK
<1> QED BY <1>2 DEF SameFiles, contents, opened

\* The offset of an ordinary file is its position.
LEMMA MoveRefines ==
  ASSUME TableInv, NEW f \in Disk, NEW p, open_offset' = [open_offset EXCEPT ![f] = p]
  PROVE  Store!Move(f, p)
<1>1. \A g \in Disk : g \in Fd
  BY DEF Disk
<1> QED BY <1>1 DEF Store!Move, position, TableInv, TypeOK

\* Opening or closing an ordinary file sets its flag and its position.
LEMMA FlagRefines ==
  ASSUME TableInv, NEW f \in Disk, NEW flag \in BOOLEAN, is_open' = [is_open EXCEPT ![f] = flag]
  PROVE  opened' = [opened EXCEPT ![f] = flag]
<1>1. \A g \in Disk : g \in Fd
  BY DEF Disk
<1> QED BY <1>1 DEF opened, TableInv, TypeOK

\* At first the ordinary files are closed and hold what the disk holds.
LEMMA InitRefines == Init => Store!Init
<1>1. \A g \in Disk : g \in Fd
  BY DEF Disk
<1> QED BY <1>1 DEF Init, Store!Init, position, opened

\* Every call is one of FileStore, or invisible there: fs_open, fs_read, fs_write,
\* fs_lseek and fs_close, one step each.
LEMMA StepRefines ==
  ASSUME TableInv, [Next]_vars
  PROVE  [Store!Next]_(Store!vars)
<1> SUFFICES SameFiles \/ Store!Next
  BY DEF Store!vars, SameFiles
<1>0. CASE UNCHANGED vars
  BY <1>0, TableAlone DEF vars
<1>p. panic => SameFiles
  BY TableAlone DEF panic, table
<1>r. \A op, f, n : Rejected(op, f, n) => SameFiles
  BY TableAlone DEF Rejected, table
<1>1. ASSUME NEW f \in Fd, fs_open(f) PROVE SameFiles \/ Store!Next
  <2>1. CASE f \in Disk
    <3>1. Store!Move(f, 0) /\ opened' = [opened EXCEPT ![f] = TRUE]
      BY <1>1, <2>1, MoveRefines, FlagRefines DEF fs_open
    <3>2. UNCHANGED <<contents, data>>
      BY <1>1 DEF fs_open, contents
    <3> QED BY <2>1, <3>1, <3>2 DEF Store!Next, Store!Open
  <2>2. CASE f \notin Disk
    <3>1. \A g \in Disk : g \in Fd /\ g # f
      BY <2>2 DEF Disk
    <3>2. UNCHANGED <<position, opened>>
      BY <1>1, <3>1 DEF fs_open, position, opened, TableInv, TypeOK
    <3> QED BY <1>1, <3>2 DEF fs_open, SameFiles, contents
  <2> QED BY <2>1, <2>2
<1>2. ASSUME NEW f \in Fd, fs_close(f) PROVE SameFiles \/ Store!Next
  <2>1. CASE Rejected("close", f, 0)
    BY <2>1, <1>r
  <2>2. CASE /\ is_open[f] /\ is_open' = [is_open EXCEPT ![f] = FALSE]
             /\ open_offset' = [open_offset EXCEPT ![f] = 0]
             /\ UNCHANGED <<disk, screen, halted, data>>
    <3>1. CASE f \in Disk
      <4>1. Store!Move(f, 0) /\ opened' = [opened EXCEPT ![f] = FALSE] /\ opened[f]
        BY <2>2, <3>1, MoveRefines, FlagRefines DEF opened
      <4>2. UNCHANGED <<contents, data>>
        BY <2>2 DEF contents
      <4> QED BY <3>1, <4>1, <4>2 DEF Store!Next, Store!Close
    <3>2. CASE f \notin Disk
      <4>1. \A g \in Disk : g \in Fd /\ g # f
        BY <3>2 DEF Disk
      <4>2. UNCHANGED <<position, opened>>
        BY <2>2, <4>1 DEF position, opened, TableInv, TypeOK
      <4> QED BY <2>2, <4>2 DEF SameFiles, contents
    <3> QED BY <3>1, <3>2
  <2> QED BY <1>2, <2>1, <2>2 DEF fs_close
<1>3. ASSUME NEW f \in Fd, NEW n \in Lens, fs_read(f, n) PROVE SameFiles \/ Store!Next
  <2>1. CASE is_open[f] /\ ReadDisk(f, n)
    <3> DEFINE m == Clipped(f, n)
    <3>1. f \in Disk /\ Kind[f] \notin Text
      BY <2>1 DEF ReadDisk, Disk, Text
    <3>2. /\ m \in Nat /\ open_offset[f] \in Nat /\ open_offset[f] + m <= FileSize[f]
          /\ (open_offset[f] + m) % SizeMod = open_offset[f] + m
      BY <3>1, ClippedFits
    <3>3. m \in 0..FileSize[f] - position[f] /\ position[f] = open_offset[f]
      BY <3>1, <3>2, FilesAssumption DEF position
    <3>4. Store!Move(f, position[f] + m)
      <4>1. open_offset' = [open_offset EXCEPT ![f] = open_offset[f] + m]
        BY <2>1, <3>2 DEF ReadDisk, Advance
      <4> QED BY <3>1, <3>3, <4>1, MoveRefines
    <3>5. data' = [i \in 0..m - 1 |-> contents[f][position[f] + i]]
      <4>1. \A i \in 0..m - 1 : /\ position[f] + i \in 0..FileSize[f] - 1
                               /\ DiskOffset[f] + open_offset[f] + i
                                    = DiskOffset[f] + (position[f] + i)
        BY <3>1, <3>2, <3>3, FilesAssumption
      <4>2. \A i \in 0..m - 1 : contents[f][position[f] + i]
                                = disk[DiskOffset[f] + open_offset[f] + i]
        BY <3>1, <4>1 DEF contents
      <4> QED BY <2>1, <4>2 DEF ReadDisk
    <3>6. UNCHANGED <<contents, opened>> /\ opened[f]
      BY <2>1, <3>1 DEF ReadDisk, contents, opened
    <3> QED BY <3>1, <3>3, <3>4, <3>5, <3>6 DEF Store!Next, Store!Read
  <2>2. CASE is_open[f] /\ ReadText(f, n)
    <3>1. f \notin Disk
      BY <2>2 DEF ReadText, Disk
    <3>2. PICK m \in MsgLens : Advance(f, m)
      BY <2>2 DEF ReadText
    <3> QED BY <2>2, <3>1, <3>2, DevicesAlone DEF ReadText, Advance
  <2> QED BY <1>3, <1>p, <1>r, <2>1, <2>2 DEF fs_read
<1>4. ASSUME NEW f \in Fd, NEW n \in Lens, NEW b \in Byte, fs_write(f, n, b)
      PROVE  SameFiles \/ Store!Next
  <2>1. CASE is_open[f] /\ WriteDisk(f, n)
    <3> DEFINE m == Clipped(f, n)
    <3>1. f \in Disk /\ Kind[f] \notin Text
      BY <2>1 DEF WriteDisk, Disk, Text
    <3>2. /\ m \in Nat /\ open_offset[f] \in Nat /\ open_offset[f] + m <= FileSize[f]
          /\ (open_offset[f] + m) % SizeMod = open_offset[f] + m
      BY <3>1, ClippedFits
    <3>3. m \in 0..FileSize[f] - position[f] /\ position[f] = open_offset[f]
      BY <3>1, <3>2, FilesAssumption DEF position
    <3>4. Store!Move(f, position[f] + m)
      <4>1. open_offset' = [open_offset EXCEPT ![f] = open_offset[f] + m]
        BY <2>1, <3>2 DEF WriteDisk, Advance
      <4> QED BY <3>1, <3>3, <4>1, MoveRefines
    <3>5. UNCHANGED <<contents, opened, data>> /\ opened[f]
      BY <2>1, <3>1 DEF WriteDisk, contents, opened
    <3> QED BY <3>1, <3>3, <3>4, <3>5 DEF Store!Next, Store!Write
  <2>2. CASE is_open[f] /\ (WriteScreen(f, n, b) \/ WriteSerial(f, n))
    <3>1. f \notin Disk
      BY <2>2 DEF WriteScreen, WriteSerial, Disk
    <3> QED BY <2>2, <3>1, DevicesAlone DEF WriteScreen, WriteSerial, Advance
  <2> QED BY <1>4, <1>p, <1>r, <2>1, <2>2 DEF fs_write
<1>5. ASSUME NEW f \in Fd, NEW base \in SeekBase(f), NEW offset \in SizeT, fs_lseek(f, base, offset)
      PROVE  SameFiles \/ Store!Next
  <2> DEFINE new == (base + offset) % SizeMod
  <2>1. CASE UNCHANGED <<table, disk, screen, halted, data>>
    BY <2>1, TableAlone DEF table
  <2>2. CASE is_open[f] /\ new <= FileSize[f] /\ open_offset' = [open_offset EXCEPT ![f] = new]
             /\ UNCHANGED <<is_open, disk, screen, halted, data>>
    <3>1. CASE f \in Disk
      <4>1. base \in Int /\ SizeMod \in Nat \ {0} /\ FileSize[f] \in Nat
        BY FilesAssumption DEF SeekBase, TableInv, TypeOK, SizeT
      <4>2. new \in 0..FileSize[f]
        BY <2>2, <4>1, ModRange DEF SizeT
      <4>3. Store!Move(f, new)
        BY <2>2, <3>1, MoveRefines
      <4>4. UNCHANGED <<contents, opened, data>> /\ opened[f]
        BY <2>2, <3>1 DEF contents, opened
      <4> QED BY <3>1, <4>2, <4>3, <4>4 DEF Store!Next, Store!Seek
    <3>2. CASE f \notin Disk
      BY <2>2, <3>2, DevicesAlone
    <3> QED BY <3>1, <3>2
  <2> QED BY <1>5, <2>1, <2>2 DEF fs_lseek, Rejected
<1> QED BY <1>0, <1>1, <1>2, <1>3, <1>4, <1>5 DEF Next

-----------------------------------------------------------------------------
(* Traps.                                                                  *)

\* A context is what the ecall that it belongs to was made with.
Saved(f, c) ==
  /\ f.gpr = c.gpr /\ f.nr = c.nr
  /\ c.nr # "service" => f.a0 = c.a0
  /\ f.mstatus = Y!Trapped(c.mstatus)

\* The inductive invariant, in parts: every context on the stack matches its
\* ecall, and only the newest has moved on, when its handler is done; a handler
\* has a context; a trap that the kernel made lies on top of another.
Matched ==
  \A k \in 1..Len(frames) :
    /\ Saved(frames[k], pending[k])
    /\ frames[k].mepc = pending[k].site + (IF at = "restore" /\ k = Len(frames) THEN 4 ELSE 0)
Open == at \in {"dispatch", "restore", "yielded"} => Len(frames) > 0
Nested == \A k \in 1..Len(pending) : pending[k].site = KernelSite => k > 1

TrapInv == Y!TypeOK /\ Matched /\ Open /\ Nested

-----------------------------------------------------------------------------
\* A trap keeps mstatus in its twelve bits, and a return undoes it below the
\* oldest level.
LEMMA Levels ==
  \A s \in 0..8 * Top - 1 :
    /\ Y!Trapped(s) \in 0..8 * Top - 1 /\ Y!Returned(s) \in 0..8 * Top - 1
    /\ Y!Returned(Y!Trapped(s)) = Top + (s % Top)
<1> TAKE s \in 0..8 * Top - 1
<1>1. Top \in Nat \ {0} /\ s \in Int
  BY KernelAssumption DEF Y!SyscallsAssumption
<1>2. s % Top \in 0..Top - 1
  BY <1>1
<1>3. Y!Trapped(s) \in 0..8 * Top - 1
  BY <1>1, <1>2 DEF Y!Trapped
<1>4. s \div 8 \in 0..Top - 1
  BY <1>1
<1>5. Y!Returned(s) \in 0..8 * Top - 1
  BY <1>1, <1>4 DEF Y!Returned
<1>6. \A n \in 0..Top - 1 : (n * 8 + 6) \div 8 = n
  BY <1>1
<1>7. Y!Returned(Y!Trapped(s)) = Top + (s % Top)
  BY <1>2, <1>6 DEF Y!Returned, Y!Trapped
<1> QED
  BY <1>3, <1>5, <1>7

\* The machine starts without a context.
LEMMA TrapInit == Y!Init => TrapInv
<1> SUFFICES ASSUME Y!Init PROVE TrapInv
  OBVIOUS
<1>1. <<>> \in Seq(Y!Context) /\ <<>> \in Seq(Y!Ecall) /\ FALSE \in BOOLEAN /\ 0 \in 0..8 * Top - 1
  BY KernelAssumption DEF Y!SyscallsAssumption
<1>2. frames \in Seq(Y!Context) /\ pending \in Seq(Y!Ecall) /\ Len(frames) = Len(pending)
  BY <1>1 DEF Y!Init
<1>3. at \in {"user"} /\ pc \in Int /\ mepc \in Int
  BY KernelAssumption DEF Y!SyscallsAssumption, Y!Init
<1>4. Y!TypeOK
  BY <1>1, <1>2, <1>3 DEF Y!Init, Y!TypeOK
<1>5. Matched /\ Open /\ Nested
  BY DEF Y!Init, Matched, Open, Nested
<1> QED
  BY <1>4, <1>5 DEF TrapInv

\* An ecall puts one context on top, which matches it.
LEMMA TrapStep ==
  ASSUME TrapInv, NEW site \in Site \cup {KernelSite}, NEW nr \in Y!Number, Y!Trap(site, nr),
         at # "restore", site = KernelSite => Len(frames) > 0
  PROVE  TrapInv'
<1> DEFINE f == [nr |-> nr, mepc |-> site, mstatus |-> Y!Trapped(mstatus), a0 |-> a0, gpr |-> gpr]
           c == [site |-> site, nr |-> nr, mstatus |-> mstatus, a0 |-> a0, gpr |-> gpr]
<1>1. frames' = Append(frames, f) /\ pending' = Append(pending, c)
  BY DEF Y!Trap
<1>2. f \in Y!Context /\ c \in Y!Ecall
  BY Levels, KernelAssumption DEF Y!SyscallsAssumption, TrapInv, Y!TypeOK, Y!Context, Y!Ecall
<1>3. /\ frames \in Seq(Y!Context) /\ pending \in Seq(Y!Ecall) /\ Len(frames) = Len(pending)
      /\ site \in Int
  BY KernelAssumption DEF Y!SyscallsAssumption, TrapInv, Y!TypeOK
<1>4. Saved(f, c) /\ f.mepc = c.site + 0
  BY <1>3 DEF Saved
<1> HIDE DEF f, c
<1>5. /\ frames' \in Seq(Y!Context) /\ pending' \in Seq(Y!Ecall)
      /\ Len(frames') = Len(frames) + 1 /\ Len(pending') = Len(pending) + 1
      /\ \A k \in 1..Len(frames) : frames'[k] = frames[k] /\ pending'[k] = pending[k]
      /\ frames'[Len(frames')] = f /\ pending'[Len(frames')] = c
  BY <1>1, <1>2, <1>3
<1>6. Y!TypeOK'
  BY <1>3, <1>5, Levels, KernelAssumption DEF Y!SyscallsAssumption, TrapInv, Y!TypeOK, Y!Trap
<1>7. Matched'
  <2> SUFFICES ASSUME NEW k \in 1..Len(frames')
               PROVE /\ Saved(frames'[k], pending'[k])
                     /\ frames'[k].mepc = pending'[k].site + 0
    BY DEF Matched, Y!Trap, Saved
  <2>1. CASE k = Len(frames')
    BY <1>4, <1>5, <2>1
  <2>2. CASE k \in 1..Len(frames)
    <3>1. Saved(frames[k], pending[k]) /\ frames[k].mepc = pending[k].site + 0
      BY <2>2 DEF TrapInv, Matched
    <3> QED
      BY <1>5, <2>2, <3>1
  <2> QED
    BY <1>3, <1>5, <2>1, <2>2
<1>8. Open' /\ Nested'
  BY <1>3, <1>5 DEF TrapInv, Open, Nested, c
<1> QED
  BY <1>6, <1>7, <1>8 DEF TrapInv

\* The end of a handler moves the newest context behind its ecall.
LEMMA ReturnStep ==
  ASSUME TrapInv, NEW ret \in Ret, Y!Return(ret), at \in {"dispatch", "yielded"},
         Y!newest.nr # "service" => ret = Y!newest.a0
  PROVE  TrapInv'
<1> DEFINE n == Len(frames)
           f == [Y!newest EXCEPT !.mepc = Y!newest.mepc + 4, !.a0 = ret]
<1>1. /\ frames \in Seq(Y!Context) /\ n \in Nat /\ n > 0 /\ Len(pending) = n
      /\ pending[n] \in Y!Ecall
      /\ Y!newest \in Y!Context
  BY DEF TrapInv, Y!TypeOK, Open, Y!newest
<1>2. f \in Y!Context
  <2> DEFINE g == [Y!newest EXCEPT !.mepc = Y!newest.mepc + 4]
  <2>1. Y!newest.mepc + 4 \in Int
    BY <1>1 DEF Y!Context
  <2>2. g \in Y!Context
    BY <1>1, <2>1 DEF Y!Context
  <2>3. f = [g EXCEPT !.a0 = ret]
    OBVIOUS
  <2> HIDE DEF g, f
  <2> QED
    BY <2>2, <2>3 DEF Y!Context
<1>3. frames' = Append(Y!Older(frames), f) /\ pending' = pending /\ at' = "restore"
  BY DEF Y!Return, Y!Behind
<1>4. /\ f.mepc = Y!newest.mepc + 4 /\ f.gpr = Y!newest.gpr /\ f.nr = Y!newest.nr
      /\ f.mstatus = Y!newest.mstatus /\ f.a0 = ret
  BY <1>1 DEF Y!Context
<1> HIDE DEF f
<1>5. /\ frames' \in Seq(Y!Context) /\ Len(frames') = n /\ frames'[n] = f
      /\ \A k \in 1..n - 1 : frames'[k] = frames[k]
  <2>1. Y!Older(frames) \in Seq(Y!Context) /\ Len(Y!Older(frames)) = n - 1
        /\ \A k \in 1..n - 1 : Y!Older(frames)[k] = frames[k]
    BY <1>1 DEF Y!Older
  <2> HIDE DEF n
  <2> QED
    BY <1>1, <1>2, <1>3, <2>1
<1>6. Y!TypeOK'
  BY <1>1, <1>3, <1>5 DEF TrapInv, Y!TypeOK, Y!Return
<1>7. Matched'
  <2> SUFFICES ASSUME NEW k \in 1..n
               PROVE /\ Saved(frames'[k], pending[k])
                     /\ frames'[k].mepc = pending[k].site + (IF k = n THEN 4 ELSE 0)
    BY <1>3, <1>5 DEF Matched, Saved
  <2>1. Saved(frames[k], pending[k]) /\ frames[k].mepc = pending[k].site + 0
    BY DEF TrapInv, Matched
  <2>2. CASE k = n
    <3>1. Y!newest = frames[k]
      BY <2>2 DEF Y!newest
    <3>2. pending[k].site \in Int
      BY <1>1, <2>2 DEF TrapInv, Y!TypeOK, Y!Ecall
    <3> QED
      BY <1>4, <1>5, <2>1, <2>2, <3>1, <3>2 DEF Saved
  <2>3. CASE k # n
    BY <1>5, <2>1, <2>3
  <2> QED
    BY <2>2, <2>3
<1>8. Open' /\ Nested'
  BY <1>1, <1>3, <1>5 DEF TrapInv, Open, Nested
<1> QED
  BY <1>6, <1>7, <1>8 DEF TrapInv

\* What mret returns to, and that the older contexts stay as they are.
LEMMA RestoreStep ==
  ASSUME TrapInv, Y!Restore
  PROVE  TrapInv' /\ Y!Returns
<1> DEFINE n == Len(frames)
<1>1. /\ frames \in Seq(Y!Context) /\ pending \in Seq(Y!Ecall)
      /\ n \in Nat /\ n > 0 /\ Len(pending) = n
      /\ Y!newest \in Y!Context /\ pending[n] \in Y!Ecall /\ Y!newest = frames[n]
  BY DEF TrapInv, Y!TypeOK, Open, Y!newest, Y!Restore
<1>2. Saved(Y!newest, pending[n]) /\ Y!newest.mepc = pending[n].site + 4
  BY <1>1 DEF TrapInv, Matched, Y!Restore
<1>3. /\ pc' = Y!newest.mepc /\ mepc' = Y!newest.mepc /\ gpr' = Y!newest.gpr /\ a0' = Y!newest.a0
      /\ mstatus' = Y!Returned(Y!newest.mstatus)
  BY DEF Y!Restore, Y!Restored
<1>4. /\ frames' \in Seq(Y!Context) /\ Len(frames') = n - 1
      /\ \A k \in 1..n - 1 : frames'[k] = frames[k]
      /\ pending' \in Seq(Y!Ecall) /\ Len(pending') = n - 1
      /\ \A k \in 1..n - 1 : pending'[k] = pending[k]
  BY <1>1 DEF Y!Restore, Y!Older
<1>5. Y!Returns
  <2>1. Y!newest.mstatus = Y!Trapped(pending[n].mstatus) /\ pending[n].mstatus \in 0..8 * Top - 1
    BY <1>1, <1>2 DEF Saved, Y!Ecall
  <2>2. mstatus' = Top + (pending[n].mstatus % Top)
    BY <1>3, <2>1, Levels
  <2> QED
    BY <1>1, <1>2, <1>3, <2>2 DEF Y!Returns, Saved
<1>6. Y!TypeOK'
  <2>1. Y!newest.mepc \in Int /\ Y!newest.gpr \in Value /\ Y!newest.a0 \in Ret
        /\ Y!newest.mstatus \in 0..8 * Top - 1
    BY <1>1 DEF Y!Context
  <2>2. mstatus' \in 0..8 * Top - 1
    BY <1>3, <2>1, Levels
  <2> QED
    BY <1>3, <1>4, <2>1, <2>2 DEF TrapInv, Y!TypeOK, Y!Restore
<1>7. Matched'
  <2> SUFFICES ASSUME NEW k \in 1..n - 1
               PROVE /\ Saved(frames'[k], pending'[k])
                     /\ frames'[k].mepc = pending'[k].site + 0
    BY <1>4 DEF Matched, Saved, Y!Restore
  <2>1. k \in 1..n /\ k # n
    BY <1>1
  <2>2. Saved(frames[k], pending[k]) /\ frames[k].mepc = pending[k].site + 0
    BY <2>1 DEF TrapInv, Matched
  <2> QED
    BY <1>4, <2>2
<1>8. Nested'
  BY <1>1, <1>4 DEF TrapInv, Nested
<1>9. Open'
  <2>1. CASE at' = "yielded"
    <3>1. pending[n].site = KernelSite
      <4>1. Y!newest.mepc = KernelSite + 4 /\ pending[n].site \in Int
        BY <1>1, <1>3, <2>1 DEF Y!Restore, Y!Ecall
      <4> QED
        BY <1>2, <4>1, KernelAssumption DEF Y!SyscallsAssumption
    <3> QED
      BY <1>1, <1>4, <3>1 DEF TrapInv, Nested, Open
  <2>2. CASE at' # "yielded"
    BY <2>2 DEF Y!Restore, Open
  <2> QED
    BY <2>1, <2>2
<1> QED
  BY <1>5, <1>6, <1>7, <1>8, <1>9 DEF TrapInv

\* Every step keeps the invariant and returns only where it should.
LEMMA TrapsStep ==
  ASSUME TrapInv, [Y!Next]_(Y!vars)
  PROVE  TrapInv' /\ Y!Returns
<1>1. CASE UNCHANGED Y!vars
  BY <1>1 DEF Y!vars, TrapInv, Y!TypeOK, Matched, Saved, Open, Nested, Y!Returns
<1>2. ASSUME at # "restore" PROVE Y!Returns
  BY <1>2 DEF Y!Returns
<1>3. CASE Y!Program
  <2>1. CASE /\ at = "user" /\ a0' \in Ret /\ gpr' \in Value
             /\ UNCHANGED <<at, pc, mepc, mstatus, frames, prog, pending>>
    BY <1>2, <2>1 DEF TrapInv, Y!TypeOK, Matched, Saved, Open, Nested
  <2>2. ASSUME at = "user", NEW site \in Site, NEW nr \in Y!Number, Y!Trap(site, nr)
        PROVE  TrapInv' /\ Y!Returns
    BY <1>2, <2>2, TrapStep, KernelAssumption DEF Y!SyscallsAssumption
  <2> QED
    BY <1>3, <2>1, <2>2 DEF Y!Program
<1>4. at \in {"dispatch", "yielded"} => Y!newest.a0 \in Ret
  <2>1. at \in {"dispatch", "yielded"} => frames[Len(frames)] \in Y!Context
    BY DEF TrapInv, Y!TypeOK, Open
  <2> QED
    BY <2>1 DEF Y!newest, Y!Context
<1>5. CASE Y!yield_irq
  BY <1>2, <1>4, <1>5, ReturnStep DEF Y!yield_irq
<1>6. CASE Y!service
  BY <1>2, <1>6, ReturnStep DEF Y!service
<1>7. CASE Y!SYS_yield
  BY <1>2, <1>7, TrapStep DEF Y!SYS_yield, Y!Number, TrapInv, Open
<1>8. CASE Y!yielded
  BY <1>2, <1>4, <1>8, ReturnStep DEF Y!yielded
<1>9. CASE Y!SYS_exit
  BY <1>2, <1>9 DEF Y!SYS_exit, TrapInv, Y!TypeOK, Matched, Saved, Open, Nested
<1>10. CASE Y!SYS_execve
  <2>1. PICK path \in File :
          \/ /\ path \in Exists /\ at' = "user" /\ pc' \in Site /\ gpr' \in Value /\ a0' \in Ret
             /\ prog' = path
             /\ UNCHANGED <<mepc, mstatus, frames, pending>>
          \/ /\ at' = "halted"
             /\ UNCHANGED <<pc, a0, gpr, mepc, mstatus, frames, prog, pending>>
    BY <1>10 DEF Y!SYS_execve
  <2>2. at = "dispatch"
    BY <1>10 DEF Y!SYS_execve
  <2>3. Y!TypeOK'
    BY <2>1, KernelAssumption DEF Y!SyscallsAssumption, TrapInv, Y!TypeOK
  <2>4. Matched' /\ Open' /\ Nested'
    BY <2>1, <2>2 DEF TrapInv, Matched, Saved, Open, Nested
  <2> QED
    BY <1>2, <2>2, <2>3, <2>4 DEF TrapInv
<1>11. CASE Y!Restore
  BY <1>11, RestoreStep
<1> QED
  BY <1>1, <1>3, <1>5, <1>6, <1>7, <1>8, <1>9, <1>10, <1>11 DEF Y!Next

\* The machine and the contexts keep their types (trap.S, irq.c).
THEOREM TrapsTyped == Y!Spec => []Y!TypeOK
<1>1. TrapInv => Y!TypeOK
  BY DEF TrapInv
<1>2. TrapInv /\ [Y!Next]_(Y!vars) => TrapInv'
  BY TrapsStep
<1> QED
  BY <1>1, <1>2, TrapInit, PTL DEF Y!Spec

-----------------------------------------------------------------------------
(* The two together.                                                       *)

\* A behaviour of the kernel is one of the file table and one of the traps:
\* a step of either leaves the other alone.
THEOREM Composition == KernelSpec => Spec /\ Y!Spec
<1>1. KernelInit => Init /\ Y!Init
  BY DEF KernelInit
<1>2. [KernelNext]_<<vars, traps, program>> => [Next]_vars /\ [Y!Next]_(Y!vars)
  BY DEF KernelNext, CallFiles, Traps, traps, Y!vars
<1> QED
  BY <1>1, <1>2, PTL DEF KernelSpec, Spec, Y!Spec

\* No sequence of calls moves an offset out of its file (fs.c:59-61, 81-83, 116-118).
THEOREM OffsetsInFile == KernelSpec => []OffsetInFile
<1>1. TableInv => OffsetInFile
  BY DEF TableInv
<1>2. TableInv /\ [Next]_vars => TableInv'
  BY TableStep
<1> QED BY <1>1, <1>2, TableInit, Composition, PTL DEF Spec

\* After any calls on any descriptors a read of an ordinary file delivers that
\* file's own bytes, from where the last call left its one position and never
\* past its end: the table, the clipping and the layout of the disk implement
\* FileStore (fs.c:53-122).
THEOREM RefinesFileStore == KernelSpec => IsFileStore
<1>1. TableInv /\ [Next]_vars => [Store!Next]_(Store!vars)
  BY StepRefines
<1>2. TableInv /\ [Next]_vars => TableInv'
  BY TableStep
<1> QED
  BY <1>1, <1>2, TableInit, InitRefines, Composition, PTL
  DEF Spec, IsFileStore, Store!Spec

\* For any number of nested traps and loaded programs, a trap that returns goes
\* on behind its own ecall with its own registers (trap.S:52-60, irq.c:28-42).
THEOREM TrapsReturn == KernelSpec => ReturnsBehind
<1>1. TrapInv /\ [Y!Next]_(Y!vars) => [Y!Returns]_(Y!vars)
  BY TrapsStep
<1>2. TrapInv /\ [Y!Next]_(Y!vars) => TrapInv'
  BY TrapsStep
<1> QED
  BY <1>1, <1>2, TrapInit, Composition, PTL DEF Y!Spec, ReturnsBehind, Y!ReturnsBehind
=============================================================================
