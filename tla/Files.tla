------------------------------- MODULE Files -------------------------------
(***************************************************************************)
(* The file table of nanos (software/os/src/fs.c) with the devices behind  *)
(* its special files (os/src/device.c) and the disk behind the others.     *)
(* A file descriptor is an index of the table, so every open of a file     *)
(* shares one offset.  size_t has SizeMod values.                          *)
(***************************************************************************)
EXTENDS Integers

CONSTANTS
  FILE_NUM,   \* entries of the table
  Kind,       \* what stands behind each entry
  FileSize,   \* its size field, after init_fs
  DiskOffset, \* its disk_offset field
  DiskSize,   \* bytes on the disk
  SizeMod,    \* size_t wraps at this value: 2^32 in the code
  Lens,       \* the lengths programs pass
  Byte,
  ScreenW,    \* pixels in a row of the screen
  MsgLens     \* lengths of the text a device file produces

Fd == 0..FILE_NUM - 1
SizeT == 0..SizeMod - 1
Disk == {f \in Fd : Kind[f] = "disk"}
Fb == {f \in Fd : Kind[f] = "fb"}
DiskPos == 0..DiskSize - 1
Extent(f) == DiskOffset[f]..DiskOffset[f] + FileSize[f] - 1

ASSUME FilesAssumption ==
  /\ FILE_NUM \in Nat /\ DiskSize \in Nat /\ SizeMod \in Nat \ {0} /\ ScreenW \in Nat \ {0}
  /\ Kind \in [Fd -> {"stdin", "serial", "events", "dispinfo", "fb", "disk"}]
  /\ FileSize \in [Fd -> Nat] /\ DiskOffset \in [Fd -> Nat]
  /\ Lens \subseteq Nat /\ MsgLens \subseteq SizeT
  /\ \A f \in Fd, n \in Lens : FileSize[f] + n < SizeMod  \* no length near 2^32

\* files.h places every ordinary file on the disk.
ASSUME LayoutAssumption == \A f \in Disk : Extent(f) \subseteq DiskPos

VARIABLES
  is_open, open_offset, \* fields of the table
  disk,                 \* bytes on the disk
  screen,               \* pixels of the frame buffer
  halted,               \* panic or exit
  data,                 \* history: what the last read of an ordinary file delivered
  call                  \* history: the last call, its length and result, the bytes that came out

table == <<is_open, open_offset>>
vars == <<is_open, open_offset, disk, screen, halted, data, call>>

Pixels == UNION {0..(FileSize[f] \div 4) - 1 : f \in Fb}
Failed == SizeMod - 1  \* -1 as a size_t

Called(op, f, len, ret) == [op |-> op, fd |-> f, len |-> len, ret |-> ret]

Init ==
  /\ is_open = [f \in Fd |-> FALSE]
  /\ open_offset = [f \in Fd |-> 0]
  /\ disk \in [DiskPos -> Byte]
  /\ screen \in [Pixels -> Byte]
  /\ halted = FALSE
  /\ data = <<>>
  /\ call = Called("none", 0, 0, 0)

-----------------------------------------------------------------------------
\* The offset moves by what was transferred, as a size_t.
Advance(f, n) == open_offset' = [open_offset EXCEPT ![f] = (@ + n) % SizeMod]

fs_open(f) ==
  /\ is_open' = [is_open EXCEPT ![f] = TRUE]
  /\ open_offset' = [open_offset EXCEPT ![f] = 0]
  /\ call' = Called("open", f, 0, f)
  /\ UNCHANGED <<disk, screen, halted, data>>

\* The check in front of every call with a descriptor.
Rejected(op, f, n) ==
  /\ ~is_open[f]
  /\ call' = Called(op, f, n, Failed)
  /\ UNCHANGED <<table, disk, screen, halted, data>>

panic ==
  /\ halted' = TRUE
  /\ UNCHANGED <<table, disk, screen, data, call>>

\* Fault: one byte too many is left.
Clipped_OneMore(f, n) ==
  IF (open_offset[f] + n) % SizeMod > FileSize[f]
    THEN (FileSize[f] + 1 - open_offset[f]) % SizeMod
    ELSE n

\* What is left of a request of n bytes.
Clipped(f, n) ==
  IF (open_offset[f] + n) % SizeMod > FileSize[f]
    THEN (FileSize[f] - open_offset[f]) % SizeMod
    ELSE n

\* Fault: disk_offset is left out.
ReadDisk_NoBase(f, n) ==
  /\ Kind[f] = "disk"
  /\ data' = [i \in 0..Clipped(f, n) - 1 |-> disk[open_offset[f] + i]]
  /\ Advance(f, Clipped(f, n))
  /\ call' = Called("read", f, n, Clipped(f, n))
  /\ UNCHANGED <<is_open, disk, screen, halted>>

\* ramdisk_read delivers the bytes from the offset of the file on.
ReadDisk(f, n) ==
  /\ Kind[f] = "disk"
  /\ data' = [i \in 0..Clipped(f, n) - 1 |-> disk[DiskOffset[f] + open_offset[f] + i]]
  /\ Advance(f, Clipped(f, n))
  /\ call' = Called("read", f, n, Clipped(f, n))
  /\ UNCHANGED <<is_open, disk, screen, halted>>

\* keyboard_read and dispinfo_read print a text whatever length they are asked for.
ReadText(f, n) ==
  /\ Kind[f] \in {"events", "dispinfo"}
  /\ \E m \in MsgLens :
       /\ m = 0 => Kind[f] = "events"
       /\ Advance(f, m)
       /\ call' = Called("read", f, n, m)
  /\ UNCHANGED <<is_open, disk, screen, halted, data>>

fs_read(f, n) ==
  \/ Rejected("read", f, n)
  \/ is_open[f] /\ (ReadDisk(f, n) \/ ReadText(f, n))
  \/ is_open[f] /\ Kind[f] \in {"stdin", "serial", "fb"} /\ panic  \* invalid_read

\* rw_disk has the image open for reading (init_disk): fwrite changes nothing.
WriteDisk(f, n) ==
  /\ Kind[f] = "disk"
  /\ Advance(f, Clipped(f, n))
  /\ call' = Called("write", f, n, Clipped(f, n))
  /\ UNCHANGED <<is_open, disk, screen, halted, data>>

\* fb_write draws one row of pixels from the offset on, cut off at the right
\* edge by the device, and returns a number of pixels.  b is what physical memory
\* holds of them.
WriteScreen(f, n, b) ==
  LET first == open_offset[f] \div 4
      count == Clipped(f, n) \div 4
      edge  == (first \div ScreenW + 1) * ScreenW
  IN  /\ Kind[f] = "fb"
      /\ screen' = [p \in Pixels |->
           IF p \in first..first + count - 1 /\ p < edge THEN b ELSE screen[p]]
      /\ Advance(f, count)
      /\ call' = Called("write", f, n, count)
      /\ UNCHANGED <<is_open, disk, halted, data>>

\* serial_write puts out as many characters as it is given.
WriteSerial(f, n) ==
  /\ Kind[f] = "serial"
  /\ Advance(f, Clipped(f, n))
  /\ call' = Called("write", f, n, Clipped(f, n))
  /\ UNCHANGED <<is_open, disk, screen, halted, data>>

fs_write(f, n, b) ==
  \/ Rejected("write", f, n)
  \/ is_open[f] /\ (WriteDisk(f, n) \/ WriteScreen(f, n, b) \/ WriteSerial(f, n))
  \/ is_open[f] /\ Kind[f] \in {"stdin", "events", "dispinfo"} /\ panic  \* invalid_write

\* SEEK_SET, SEEK_CUR and SEEK_END count from 0, the offset and the size.
SeekBase(f) == {0, open_offset[f], FileSize[f]}

fs_lseek(f, base, offset) ==
  LET new == (base + offset) % SizeMod
  IN  \/ Rejected("lseek", f, 0)
      \/ /\ is_open[f] /\ new > FileSize[f]
         /\ call' = Called("lseek", f, 0, Failed)
         /\ UNCHANGED <<table, disk, screen, halted, data>>
      \/ /\ is_open[f] /\ new <= FileSize[f]
         /\ open_offset' = [open_offset EXCEPT ![f] = new]
         /\ call' = Called("lseek", f, 0, new)
         /\ UNCHANGED <<is_open, disk, screen, halted, data>>

fs_close(f) ==
  \/ Rejected("close", f, 0)
  \/ /\ is_open[f]
     /\ is_open' = [is_open EXCEPT ![f] = FALSE]
     /\ open_offset' = [open_offset EXCEPT ![f] = 0]
     /\ call' = Called("close", f, 0, 0)
     /\ UNCHANGED <<disk, screen, halted, data>>

\* Descriptors outside the table and unknown whences are answered like closed files.
Next ==
  /\ ~halted
  /\ \E f \in Fd :
       \/ fs_open(f)
       \/ fs_close(f)
       \/ \E n \in Lens : fs_read(f, n)
       \/ \E n \in Lens, b \in Byte : fs_write(f, n, b)
       \/ \E base \in SeekBase(f), offset \in SizeT : fs_lseek(f, base, offset)

Spec == Init /\ [][Next]_vars

-----------------------------------------------------------------------------
TypeOK ==
  /\ is_open \in [Fd -> BOOLEAN]
  /\ open_offset \in [Fd -> SizeT]
  /\ disk \in [DiskPos -> Byte]
  /\ screen \in [Pixels -> Byte]
  /\ halted \in BOOLEAN

\* An offset never leaves its file, so the size_t subtraction in fs_read and
\* fs_write does not underflow.  The texts of the devices have no end to leave.
OffsetInFile ==
  \A f \in Fd : Kind[f] \notin {"events", "dispinfo"} => open_offset[f] <= FileSize[f]

\* The ordinary files behave as separate files with contents that stay and a
\* position, although they share a disk and every transfer is a range of it
\* computed from three numbers: whatever was opened, sought, read and written
\* before, through whichever descriptor, a read delivers the bytes of its own
\* file from where the last call left the position, and never past the end.
contents == [f \in Disk |-> [i \in 0..FileSize[f] - 1 |-> disk[DiskOffset[f] + i]]]
position == [f \in Disk |-> open_offset[f]]
opened == [f \in Disk |-> is_open[f]]
Store == INSTANCE FileStore WITH Ordinary <- Disk, Size <- FileSize, open <- opened
IsFileStore == Store!Spec
=============================================================================
