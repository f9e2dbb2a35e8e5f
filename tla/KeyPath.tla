------------------------------ MODULE KeyPath ------------------------------
(***************************************************************************)
(* From a key of the host to an event of the program: the ring of the      *)
(* keyboard device (sim/device/keyboard.c, filled by device_update), the   *)
(* driver (base/src/kbd.c), /dev/events (os/src/device.c), NDL_PollEvent,  *)
(* whose fread collects what is there, and SDL_PollEvent.  A key is its    *)
(* number in the table all of them share (ESCAPE is 1); the text of an     *)
(* event is the code it was made from, and has Length[key] + 4 characters. *)
(***************************************************************************)
EXTENDS Integers, Sequences

CONSTANTS
  Keys,     \* how many keys there are
  Length,   \* the lengths of their names
  QueueLen, \* KEY_QUEUE_LEN
  BufLen,   \* characters NDL_PollEvent asks for
  MaxSent   \* bound: events of the host

Key == 1..Keys
KEYDOWN_MASK == 32768
Code == Key \cup {k + KEYDOWN_MASK : k \in Key}
KEY_NONE == 0

ASSUME KeyAssumption ==
  /\ Keys \in Nat /\ Keys < KEYDOWN_MASK /\ Length \in [Key -> Nat \ {0}]
  /\ QueueLen \in Nat /\ QueueLen > 1 /\ BufLen \in Nat \ {0} /\ MaxSent \in Nat

VARIABLES
  key_queue, key_f, key_r, \* the ring
  dead,                    \* Assert in key_enqueue has stopped the simulator
  reading, text,           \* in fread; the events it has got
  event,                   \* what SDL_PollEvent returned last
  sent, taken,             \* history: events of the host, and of the device
  begun                    \* history: how many were taken when the last fread began

ring == <<key_queue, key_f, key_r>>
vars == <<ring, dead, reading, text, event, sent, taken, begun>>

Slot == 0..QueueLen - 1
None == [ok |-> FALSE, down |-> FALSE, key |-> KEY_NONE]

Init ==
  /\ key_queue = [s \in Slot |-> 0] /\ key_f = 0 /\ key_r = 0 /\ dead = FALSE
  /\ reading = FALSE /\ text = <<>> /\ event = None
  /\ sent = <<>> /\ taken = <<>> /\ begun = 0

-----------------------------------------------------------------------------
(* The device.                                                             *)

\* Fault: the index runs into the slot behind the ring.
Advance_NoWrap(i) == i + 1
Advance(i) == (i + 1) % QueueLen

\* Fault: the ring may run full.
Overflows_Never(r) == FALSE
Overflows(r) == r = key_f

\* device_update passes on what SDL has polled, in any cycle of the program;
\* keys that are not in the table do not get here.
send_key(k, down) ==
  /\ ~dead /\ Len(sent) < MaxSent
  /\ LET code == k + (IF down THEN KEYDOWN_MASK ELSE 0) IN
       /\ key_queue' = [key_queue EXCEPT ![key_r] = code]
       /\ key_r' = Advance(key_r)
       /\ dead' = Overflows(key_r')
       /\ sent' = Append(sent, code)
  /\ UNCHANGED <<key_f, reading, text, event, taken, begun>>

\* Fault: the last key counts for none.
Empty_OneLeft == key_f = key_r \/ Advance(key_f) = key_r
Empty == key_f = key_r

\* Fault: the newest key.
Oldest_Newest == key_queue[(key_r + QueueLen - 1) % QueueLen]
Oldest == key_queue[key_f]

key_dequeue ==
  IF Empty
    THEN UNCHANGED <<ring, taken>>
    ELSE /\ key_f' = Advance(key_f)
         /\ taken' = Append(taken, Oldest)
         /\ UNCHANGED <<key_queue, key_r>>

-----------------------------------------------------------------------------
(* The program.                                                            *)

Keydown(code) == code >= KEYDOWN_MASK
Keycode(code) == code % KEYDOWN_MASK
Chars(s) == LET sum[i \in 0..Len(s)] == IF i = 0 THEN 0 ELSE sum[i - 1] + Length[Keycode(s[i])] + 4
            IN sum[Len(s)]

\* SDL_PollEvent calls NDL_PollEvent, which opens /dev/events.
PollEvent ==
  /\ ~dead /\ ~reading
  /\ reading' = TRUE /\ text' = <<>> /\ begun' = Len(taken)
  /\ UNCHANGED <<ring, dead, event, sent, taken>>

Enough(s) == Chars(s) >= BufLen

\* The text starts with the name of key k, a newline behind it.  The loop over
\* the names cuts the text at its i-th character when it tries the i-th name,
\* so that a name is not found before the loop has counted its characters.
Found(k) == k >= Length[k]

\* Fault: the last event.
Parsed_Last(s) ==
  IF s = <<>> \/ ~Found(Keycode(s[1])) THEN None
  ELSE [ok |-> TRUE, down |-> Keydown(s[Len(s)]), key |-> Keycode(s[Len(s)])]

\* SDL_PollEvent looks at the first event and drops the others.  A name that is not found makes it
\* read past the end of its table; what comes of it is taken for no event.
Parsed(s) ==
  IF s = <<>> \/ ~Found(Keycode(s[1])) THEN None
  ELSE [ok |-> TRUE, down |-> Keydown(s[1]), key |-> Keycode(s[1])]

Return(s) == reading' = FALSE /\ text' = <<>> /\ event' = Parsed(s)

\* A read of /dev/events loads from the device.  No event ends fread, and so
\* does a full buffer.
Read ==
  /\ ~dead /\ reading
  /\ key_dequeue
  /\ LET got == IF Empty THEN text ELSE Append(text, Oldest) IN
       IF Empty \/ Enough(got)
         THEN Return(got)
         ELSE text' = got /\ UNCHANGED <<reading, event>>
  /\ UNCHANGED <<dead, sent, begun>>

Host == \E k \in Key, down \in BOOLEAN : send_key(k, down)
Program == PollEvent \/ Read
Next == Host \/ Program
Spec == Init /\ [][Next]_vars

\* The program polls for ever; the host owes nothing.
Fairness == WF_vars(Program)
LiveSpec == Spec /\ Fairness

-----------------------------------------------------------------------------
TypeOK ==
  /\ key_queue \in [Slot -> Code \cup {0}] /\ key_f \in Slot /\ key_r \in Slot
  /\ dead \in BOOLEAN /\ reading \in BOOLEAN
  /\ {sent, taken, text} \subseteq Seq(Code) /\ begun \in Nat
  /\ event \in [ok : BOOLEAN, down : BOOLEAN, key : Key \cup {KEY_NONE}]

\* The ring is a queue of one entry less than it has slots.
Held == IF key_r >= key_f THEN key_r - key_f ELSE QueueLen - key_f + key_r
Pending == IF dead THEN <<>> ELSE [i \in 1..Held |-> key_queue[(key_f + i - 1) % QueueLen]]
Fifo == INSTANCE KeyFifo WITH Most <- QueueLen - 1, pending <- Pending
IsFifo == Fifo!Spec

\* What the program got is what the host sent first, in that order
\* (keyboard.c:37-50).
InOrder == Len(taken) <= Len(sent) /\ taken = SubSeq(sent, 1, Len(taken))

\* event is what the host said when it sent code.
EventOf(code) == event = [ok |-> TRUE, down |-> Keydown(code), key |-> Keycode(code)]

\* An event that SDL_PollEvent returns is the oldest that no earlier poll has
\* taken from the device, pressed or released as the host said: nothing an
\* earlier fread left, and nothing the host sent during this one, gets in front
\* of it (keyboard.c:37-50, event.c:17-35).
FirstReported ==
  [][Read /\ ~reading' /\ event'.ok =>
       begun < Len(sent) /\ EventOf(sent[begun + 1])']_vars

\* A poll during which there is an event with a name that is found, whether it
\* waited or comes while fread reads, ends and returns it, although the host may
\* go on sending: what SDL_WaitEvent waits for (event.c:17-42).  Until it has
\* returned, begun stands for the same event.
Awaited == reading /\ begun < Len(sent) /\ Found(Keycode(sent[begun + 1]))
Served == ~reading /\ begun < Len(sent) /\ EventOf(sent[begun + 1])
WaiterServed == Awaited ~> (dead \/ Served)
=============================================================================
