--------------------------- MODULE DevicesProofs ---------------------------
(***************************************************************************)
(* Proofs about the devices.  For every memory, line size and disk, the    *)
(* fences of the driver keep the program, the devices and the reference on *)
(* one view of memory; for every word size, a time that is read in two     *)
(* halves is one of the call; for every configuration, devices share no    *)
(* address and no place in the device space.                               *)
(***************************************************************************)
EXTENDS Devices, Sequences, TLAPS

-----------------------------------------------------------------------------
(* The disk.                                                               *)

\* What the two fences have done by the time the command is stored.
Fenced ==
  /\ pc = "read command" => cached = <<>> /\ dirty = {}
  /\ pc = "write command" => dirty = {}

\* Transfers the driver may be in the middle of.
Requested ==
  ctl \in [disk : DiskAddr \cup {0}, mem : Addr \cup {0}, size : Nat]
    /\ (pc # "run" => \A i \in 0..ctl.size - 1 : ctl.mem + i \in Addr)

IInv == TypeOK /\ Coherent /\ ReferenceFollows /\ Fenced /\ Requested

LEMMA Words == Addr \subseteq Int /\ DiskAddr \subseteq Int /\ \A a \in Addr : LineOf(a) \in Lines
BY DmaAssumption DEF Addr, DiskAddr, LineOf, Lines

\* A dirty line is in the cache with all its words.
LEMMA DirtyHeld ==
  ASSUME TypeOK
  PROVE  \A a \in Addr : LineOf(a) \in dirty => a \in DOMAIN cached
<1>1. PICK H \in SUBSET Lines : /\ cached \in [{a \in Addr : LineOf(a) \in H} -> Value]
                              /\ dirty \subseteq H
  BY DEF TypeOK
<1> QED BY <1>1

\* Writing lines back leaves memory with what the program left there.
LEMMA WriteBackCoherent ==
  ASSUME TypeOK, Coherent, NEW L \in SUBSET dirty
  PROVE  /\ WrittenBack(L) \in [Addr -> Value]
         /\ \A a \in Addr : LineOf(a) \notin dirty \ L => WrittenBack(L)[a] = view[a]
<1>1. \A a \in Addr : LineOf(a) \in L => a \in DOMAIN cached /\ cached[a] = view[a]
  BY DirtyHeld DEF Coherent
<1>2. \A a \in Addr : LineOf(a) \notin L => WrittenBack(L)[a] = mem[a]
  BY DEF WrittenBack
<1>3. \A a \in Addr : LineOf(a) \in L => WrittenBack(L)[a] = view[a]
  BY <1>1 DEF WrittenBack
<1>4. WrittenBack(L) \in [Addr -> Value]
  BY <1>2, <1>3 DEF TypeOK, WrittenBack
<1> QED BY <1>2, <1>3, <1>4 DEF Coherent

\* A line that is brought in holds what the program left in it.
LEMMA FillCoherent ==
  ASSUME TypeOK, Coherent, NEW a \in Addr
  PROVE  /\ \E H \in SUBSET Lines : /\ With(a) \in [{b \in Addr : LineOf(b) \in H} -> Value]
                                  /\ dirty \subseteq H /\ LineOf(a) \in H
         /\ \A b \in DOMAIN With(a) : With(a)[b] = view[b]
<1>1. PICK H \in SUBSET Lines : /\ cached \in [{b \in Addr : LineOf(b) \in H} -> Value]
                              /\ dirty \subseteq H
  BY DEF TypeOK
<1> DEFINE G == H \cup {LineOf(a)}
<1>2. DOMAIN cached = {b \in Addr : LineOf(b) \in H}
  BY <1>1
<1>3. \A b \in Addr : LineOf(b) \in Held <=> LineOf(b) \in H
  BY <1>2 DEF Held
<1>4. {x \in Addr : LineOf(x) \in Held \cup {LineOf(a)}} = {b \in Addr : LineOf(b) \in G}
  BY <1>3
<1>5. DOMAIN With(a) = {b \in Addr : LineOf(b) \in G}
  BY <1>4 DEF With
<1>6. ASSUME NEW b \in DOMAIN With(a)
      PROVE  With(a)[b] = view[b] /\ With(a)[b] \in Value
  <2>1. b \in Addr
    BY <1>5
  <2>2. CASE b \in DOMAIN cached
    BY <1>1, <1>2, <1>4, <2>1, <2>2 DEF With, Coherent
  <2>3. CASE b \notin DOMAIN cached
    <3>1. LineOf(b) \notin dirty
      BY <1>1, <1>2, <2>1, <2>3
    <3> QED BY <1>4, <1>5, <2>1, <2>3, <3>1 DEF With, Coherent, TypeOK
  <2> QED BY <2>2, <2>3
<1>7. With(a) \in [{b \in Addr : LineOf(b) \in G} -> Value]
  BY <1>4, <1>5, <1>6 DEF With
<1>8. G \in SUBSET Lines
  BY Words
<1> QED BY <1>1, <1>6, <1>7, <1>8

LEMMA InitHolds == Init => IInv
<1> SUFFICES ASSUME Init PROVE IInv
  OBVIOUS
<1>1. cached \in [{a \in Addr : LineOf(a) \in {}} -> Value] /\ DOMAIN cached = {}
  BY DEF Init
<1>2. TypeOK
  <2>1. \E H \in SUBSET Lines : /\ cached \in [{a \in Addr : LineOf(a) \in H} -> Value]
                               /\ dirty \subseteq H
    BY <1>1 DEF Init
  <2> QED BY <2>1 DEF Init, TypeOK
<1>3. Coherent /\ ReferenceFollows /\ Fenced
  BY <1>1 DEF Init, Coherent, ReferenceFollows, Fenced
<1>4. Requested
  BY DEF Init, Requested, Idle
<1> QED BY <1>2, <1>3, <1>4 DEF IInv
LEMMA StepHolds ==
  ASSUME IInv, [Next]_vars
  PROVE  IInv'
<1> USE DEF IInv
<1>0. CASE UNCHANGED vars
  BY <1>0 DEF vars, machine, TypeOK, Coherent, ReferenceFollows, Fenced, Requested
<1>1. ASSUME NEW a \in Addr, Load(a) PROVE IInv'
  <2>1. TypeOK'
    BY <1>1, FillCoherent DEF Load, TypeOK
  <2>2. Coherent'
    BY <1>1, FillCoherent DEF Load, Coherent
  <2> QED BY <1>1, <2>1, <2>2 DEF Load, ReferenceFollows, Fenced, Requested
<1>2. ASSUME NEW a \in Addr, NEW v \in Value, Store(a, v) PROVE IInv'
  <2>1. PICK H \in SUBSET Lines : /\ With(a) \in [{b \in Addr : LineOf(b) \in H} -> Value]
                                /\ dirty \subseteq H /\ LineOf(a) \in H
    BY FillCoherent
  <2>2. cached' \in [{b \in Addr : LineOf(b) \in H} -> Value] /\ dirty' \subseteq H
    BY <1>2, <2>1 DEF Store
  <2>3. TypeOK'
    BY <1>2, <2>2 DEF Store, TypeOK
  <2>4. \A b \in Addr : b \in DOMAIN cached' => cached'[b] = view'[b]
    BY <1>2, <2>1, <2>2, FillCoherent DEF Store, TypeOK
  <2>5. \A b \in Addr : LineOf(b) \notin dirty' => b # a /\ mem'[b] = view'[b]
    BY <1>2 DEF Store, Coherent, TypeOK
  <2> QED BY <1>2, <2>3, <2>4, <2>5 DEF Store, Coherent, ReferenceFollows, Fenced, Requested
<1>3. ASSUME NEW l \in Lines, Evict(l) PROVE IInv'
  <2>1. PICK H \in SUBSET Lines : /\ cached \in [{a \in Addr : LineOf(a) \in H} -> Value]
                                /\ dirty \subseteq H
    BY DEF TypeOK
  <2>2. {x \in DOMAIN cached : LineOf(x) # l} = {a \in Addr : LineOf(a) \in H \ {l}}
    BY <2>1
  <2>3. cached' \in [{a \in Addr : LineOf(a) \in H \ {l}} -> Value]
    BY <1>3, <2>1, <2>2 DEF Evict
  <2>4. /\ mem' \in [Addr -> Value]
        /\ \A a \in Addr : LineOf(a) \notin dirty' => mem'[a] = view[a]
    <3>1. dirty \cap {l} \in SUBSET dirty /\ dirty' = dirty \ (dirty \cap {l})
      BY <1>3 DEF Evict
    <3> QED BY <1>3, <3>1, WriteBackCoherent DEF Evict
  <2>5. TypeOK'
    <3>1. dirty' \subseteq H \ {l} /\ H \ {l} \in SUBSET Lines
      BY <1>3, <2>1 DEF Evict
    <3> QED BY <1>3, <2>3, <2>4, <3>1 DEF Evict, TypeOK
  <2>6. \A a \in DOMAIN cached' : a \in Addr /\ cached'[a] = view[a]
    BY <1>3, <2>1, <2>2 DEF Evict, Coherent
  <2>7. Coherent'
    BY <1>3, <2>4, <2>6 DEF Evict, Coherent
  <2>8. Fenced'
    <3>1. pc = "read command" => Held = {}
      <4>1. DOMAIN <<>> = {}
        OBVIOUS
      <4> QED BY <4>1 DEF Fenced, Held
    <3>2. pc # "read command" /\ UNCHANGED pc
      BY <1>3, <3>1 DEF Evict
    <3>3. dirty = {} => dirty' = {}
      BY <1>3 DEF Evict
    <3> QED BY <3>2, <3>3 DEF Fenced
  <2> QED BY <1>3, <2>5, <2>7, <2>8 DEF Evict, ReferenceFollows, Requested
<1>4. \A a \in Addr, n \in 1..MaxLen : Draw(a, n) => IInv'
  BY DEF Draw, machine, TypeOK, Coherent, ReferenceFollows, Fenced, Requested
<1>5. ASSUME NEW cmd \in {"read", "write"}, NEW d \in DiskAddr, NEW a \in Addr, NEW n \in 1..MaxLen,
             a + n <= MemWords, SetPorts(cmd, d, a, n)
      PROVE  IInv'
  <2>1. ctl' = [disk |-> d, mem |-> a, size |-> n] /\ n \in Nat
    BY <1>5, DmaAssumption DEF SetPorts
  <2>2. \A i \in 0..n - 1 : a + i \in Addr
    BY <1>5, DmaAssumption DEF Addr
  <2>3. Requested'
    BY <2>1, <2>2 DEF Requested
  <2> QED BY <1>5, <2>3 DEF SetPorts, machine, TypeOK, Coherent, ReferenceFollows, Fenced
<1>6. ASSUME FenceForRead PROVE IInv'
  <2>1. /\ mem' \in [Addr -> Value] /\ \A a \in Addr : mem'[a] = view[a]
    BY <1>6, WriteBackCoherent DEF FenceForRead, Fence
  <2>2. cached' \in [{a \in Addr : LineOf(a) \in {}} -> Value] /\ DOMAIN cached' = {} /\ dirty' = {}
    <3>1. <<>> \in [{a \in Addr : LineOf(a) \in {}} -> Value] /\ DOMAIN <<>> = {}
      OBVIOUS
    <3> QED BY <1>6, <3>1 DEF FenceForRead, Fence
  <2>3. TypeOK'
    <3>1. \E H \in SUBSET Lines : /\ cached' \in [{a \in Addr : LineOf(a) \in H} -> Value]
                                 /\ dirty' \subseteq H
      BY <2>2
    <3> QED BY <1>6, <2>1, <3>1 DEF FenceForRead, Fence, TypeOK
  <2>4. Coherent'
    BY <1>6, <2>1, <2>2 DEF FenceForRead, Fence, Coherent
  <2> QED BY <1>6, <2>3, <2>4 DEF FenceForRead, Fence, ReferenceFollows, Fenced, Requested
<1>7. ASSUME FenceForWrite PROVE IInv'
  <2>1. /\ mem' \in [Addr -> Value] /\ \A a \in Addr : mem'[a] = view[a]
    BY <1>7, WriteBackCoherent DEF FenceForWrite, FenceI
  <2>2. TypeOK'
    BY <1>7, <2>1 DEF FenceForWrite, FenceI, TypeOK
  <2>3. Coherent'
    BY <1>7, <2>1 DEF FenceForWrite, FenceI, Coherent
  <2> QED BY <1>7, <2>2, <2>3 DEF FenceForWrite, FenceI, ReferenceFollows, Fenced, Requested
<1>8. ASSUME ReadCommand PROVE IInv'
  <2>1. cached' = <<>> /\ dirty' = {}
    BY <1>8 DEF ReadCommand, Fenced
  <2>2. \A a \in Addr : mem[a] = view[a]
    BY <1>8 DEF ReadCommand, Fenced, Coherent
  <2>3. mem' = view' /\ mem' \in [Addr -> Value]
    BY <1>8, <2>2 DEF ReadCommand, Delivered, TypeOK
  <2>4. cached' \in [{a \in Addr : LineOf(a) \in {}} -> Value] /\ DOMAIN cached' = {}
    BY <2>1
  <2>5. TypeOK'
    <3>1. \E H \in SUBSET Lines : /\ cached' \in [{a \in Addr : LineOf(a) \in H} -> Value]
                                 /\ dirty' \subseteq H
      BY <2>1, <2>4
    <3> QED BY <1>8, <2>3, <3>1 DEF ReadCommand, TypeOK
  <2>6. Coherent' /\ ReferenceFollows'
    BY <1>8, <2>1, <2>3, <2>4 DEF ReadCommand, Coherent, ReferenceFollows
  <2>7. Fenced' /\ Requested'
    BY <1>8 DEF ReadCommand, Fenced, Requested, Idle
  <2> QED BY <2>5, <2>6, <2>7
<1>9. ASSUME WriteCommand PROVE IInv'
  <2>1. Fenced' /\ Requested'
    BY <1>9 DEF WriteCommand, Fenced, Requested, Idle
  <2> QED BY <1>9, <2>1 DEF WriteCommand, machine, TypeOK, Coherent, ReferenceFollows
<1> QED BY <1>0, <1>1, <1>2, <1>3, <1>4, <1>5, <1>6, <1>7, <1>8, <1>9 DEF Next

\* A write command takes the words of a memory that lags behind nothing.
LEMMA CommandSendsCurrent ==
  ASSUME IInv, WriteCommand
  PROVE  \A i \in 0..ctl.size - 1 : taken'[i] = view[ctl.mem + i]
<1>1. \A i \in 0..ctl.size - 1 : ctl.mem + i \in Addr
  BY DEF IInv, Requested, WriteCommand
<1>2. \A a \in Addr : mem[a] = view[a]
  BY DEF IInv, Fenced, Coherent, WriteCommand
<1> QED BY <1>1, <1>2 DEF WriteCommand, Take

\* The drivers and the cache keep their types.
THEOREM TypeCorrect == Spec => []TypeOK
<1>1. Init => IInv
  BY InitHolds
<1>2. IInv /\ [Next]_vars => IInv'
  BY StepHolds
<1>3. IInv => TypeOK
  BY DEF IInv
<1> QED BY <1>1, <1>2, <1>3, PTL DEF Spec

\* No transfer leaves a stale word behind, in the cache or in memory (disk.c:11).
THEOREM DmaCoherent == Spec => []Coherent
<1>1. Init => IInv
  BY InitHolds
<1>2. IInv /\ [Next]_vars => IInv'
  BY StepHolds
<1>3. IInv => Coherent
  BY DEF IInv
<1> QED BY <1>1, <1>2, <1>3, PTL DEF Spec

\* The copy of memory handed to the reference never undoes a store (sim disk.c:26).
THEOREM ReferenceKept == Spec => []ReferenceFollows
<1>1. Init => IInv
  BY InitHolds
<1>2. IInv /\ [Next]_vars => IInv'
  BY StepHolds
<1>3. IInv => ReferenceFollows
  BY DEF IInv
<1> QED BY <1>1, <1>2, <1>3, PTL DEF Spec

\* A write command hands the disk what the program stored (base disk.c:24).
THEOREM WritesCurrent == Spec => SendsCurrent
<1>1. Init => IInv
  BY InitHolds
<1>2. IInv /\ [Next]_vars => IInv'
  BY StepHolds
<1>3. IInv => [WriteCommand => \A i \in 0..ctl.size - 1 : taken'[i] = view[ctl.mem + i]]_vars
  BY CommandSendsCurrent
<1> QED BY <1>1, <1>2, <1>3, PTL DEF Spec, SendsCurrent

-----------------------------------------------------------------------------
(* Quotients and remainders.                                               *)

LEMMA Division ==
  ASSUME NEW b \in Nat \ {0}, NEW a \in Nat
  PROVE  /\ a \div b \in Nat /\ a % b \in 0..b - 1
         /\ a = b * (a \div b) + (a % b)
OBVIOUS

LEMMA Larger ==
  ASSUME NEW b \in Nat \ {0}, NEW x \in Int, NEW y \in Int, x < y
  PROVE  b * x + b <= b * y
<1>1. PICK d \in Nat : y = x + 1 + d
  <2>1. y - x - 1 \in Nat /\ y = x + 1 + (y - x - 1)
    OBVIOUS
  <2> QED BY <2>1
<1>2. b * y = b * x + b + b * d
  BY <1>1
<1>3. b * d >= 0
  OBVIOUS
<1> QED BY <1>2, <1>3

LEMMA Quotient ==
  ASSUME NEW b \in Nat \ {0}, NEW q \in Nat, NEW r \in 0..b - 1
  PROVE  (b * q + r) \div b = q /\ (b * q + r) % b = r
<1> DEFINE a == b * q + r
<1>1. a \in Nat
  OBVIOUS
<1>2. /\ a \div b \in Nat /\ a % b \in 0..b - 1
      /\ a = b * (a \div b) + (a % b)
  BY <1>1, Division
<1>3. ~(q < a \div b)
  <2>1. q < a \div b => b * q + b <= b * (a \div b)
    BY <1>2, Larger
  <2> QED BY <1>2, <2>1
<1>4. ~(a \div b < q)
  <2>1. a \div b < q => b * (a \div b) + b <= b * q
    BY <1>2, Larger
  <2> QED BY <1>2, <2>1
<1>5. a \div b = q
  BY <1>2, <1>3, <1>4
<1> QED BY <1>2, <1>5

LEMMA Small ==
  ASSUME NEW b \in Nat \ {0}, NEW r \in 0..b - 1
  PROVE  r \div b = 0 /\ r % b = r
<1>1. b * 0 + r = r
  OBVIOUS
<1> QED BY <1>1, Quotient

LEMMA Monotone ==
  ASSUME NEW b \in Nat \ {0}, NEW x \in Nat, NEW y \in Nat, x <= y
  PROVE  x \div b <= y \div b
<1>1. /\ x \div b \in Nat /\ x % b \in 0..b - 1 /\ x = b * (x \div b) + (x % b)
      /\ y \div b \in Nat /\ y % b \in 0..b - 1 /\ y = b * (y \div b) + (y % b)
  BY Division
<1>2. y \div b < x \div b => b * (y \div b) + b <= b * (x \div b)
  BY <1>1, Larger
<1> QED BY <1>1, <1>2

-----------------------------------------------------------------------------
(* The clock.                                                              *)

Calling == high # -1 \/ low # -1

\* Each word was the device's at some time of the call, and no ticks were given
\* out that lie behind the beginning of the call.
ClockInv ==
  /\ now \in Nat /\ start \in Nat /\ start <= now
  /\ ticks \in Int
  /\ high # -1 => \E t \in start..now : high = t \div ClockWord
  /\ low # -1 => \E t \in start..now : low = t % ClockWord
  /\ now < ClockWord => ticks <= (IF Calling THEN start ELSE now) \div Milli

LEMMA InitClockInv == C!Init => ClockInv
<1> SUFFICES ASSUME C!Init PROVE ClockInv
  OBVIOUS
<1>1. 0 \div Milli \in Nat
  BY Division, DevicesAssumption DEF C!ClockAssumption
<1> QED BY <1>1 DEF C!Init, ClockInv, Calling

\* Below the first overflow the ticks are the milliseconds of the time.
LEMMA TicksOf ==
  ASSUME NEW t \in Nat, t < ClockWord
  PROVE  C!GetTicks(t) = t \div Milli
<1> USE DevicesAssumption DEF C!ClockAssumption
<1> DEFINE q == Second \div Milli
           a == t \div Second
           b == t % Second
           c == b \div Milli
           d == b % Milli
<1>1. q \in Nat /\ Second = Milli * q
  BY Division
<1>2. a \in Nat /\ b \in Nat /\ t = Second * a + b
  BY Division
<1>3. c \in Nat /\ d \in 0..Milli - 1 /\ b = Milli * c + d
  BY <1>2, Division
<1> HIDE DEF q, a, b, c, d
<1>4. q * a \in Nat /\ a * q = q * a
  BY <1>1, <1>2
<1>5. t = Milli * (q * a + c) + d
  <2>1. Second * a = Milli * (q * a)
    BY <1>1, <1>2
  <2>2. Milli * (q * a + c) = Milli * (q * a) + Milli * c
    BY <1>3, <1>4
  <2>3. Second * a \in Nat /\ Milli * c \in Nat /\ Milli * (q * a) \in Nat
    BY <1>1, <1>2, <1>3, <1>4
  <2> QED BY <1>2, <1>3, <2>1, <2>2, <2>3
<1>6. q * a + c \in Nat
  BY <1>3, <1>4
<1>7. t \div Milli = q * a + c
  BY <1>3, <1>5, <1>6, Quotient
<1>8. t \div Milli <= t
  <2>1. /\ t \div Milli \in Nat /\ t % Milli \in Nat /\ t = Milli * (t \div Milli) + (t % Milli)
    BY Division
  <2>2. Milli * (t \div Milli) >= t \div Milli
    <3> DEFINE u == t \div Milli
    <3>1. u \in Nat
      BY <2>1
    <3> HIDE DEF u
    <3>2. Milli * u = u + (Milli - 1) * u /\ (Milli - 1) * u >= 0
      BY <3>1
    <3>3. Milli * u >= u
      BY <3>1, <3>2
    <3> QED BY <3>3 DEF u
  <2> QED BY <2>1, <2>2
<1>9. t % ClockWord = t
  BY Small
<1>10. (t \div Milli) % ClockWord = t \div Milli
  <2>1. t \div Milli \in 0..ClockWord - 1
    BY <1>6, <1>7, <1>8
  <2> QED BY <2>1, Small
<1>11. C!GetTicks(t) = (a * q + c) % ClockWord
  BY <1>9, Zenon DEF C!GetTicks, a, b, c, q
<1> QED BY <1>4, <1>7, <1>10, <1>11

\* What a call that returns has put together.
LEMMA UptimeOf ==
  ASSUME NEW s \in start..now, NEW t \in start..now, start \in Nat, now \in Nat,
         high = s \div ClockWord, low = t % ClockWord
  PROVE  /\ C!Uptime \in Nat
         /\ C!Uptime + (t \div ClockWord - s \div ClockWord) * ClockWord = t
         /\ t \div ClockWord - s \div ClockWord
              \in -(now \div ClockWord - start \div ClockWord)..(now \div ClockWord - start \div ClockWord)
<1> USE DevicesAssumption DEF C!ClockAssumption
<1> DEFINE W == ClockWord
           x == s \div W
           y == t \div W
<1>1. s \in Nat /\ t \in Nat /\ start <= s /\ s <= now /\ start <= t /\ t <= now
  OBVIOUS
<1>2. /\ x \in Nat /\ y \in Nat /\ t % W \in 0..W - 1 /\ t = W * y + (t % W)
      /\ now \div W \in Nat /\ start \div W \in Nat
  BY <1>1, Division
<1>3. start \div W <= x /\ x <= now \div W /\ start \div W <= y /\ y <= now \div W
  BY <1>1, Monotone
<1> HIDE DEF x, y
<1>4. C!Uptime = x * W + (t % W)
  BY DEF C!Uptime, x
<1>5. (y - x) * W = W * y - x * W /\ x * W \in Nat /\ W * y \in Nat
  BY <1>2
<1>6. C!Uptime \in Nat /\ C!Uptime + (y - x) * W = t
  BY <1>2, <1>4, <1>5
<1>7. y - x \in -(now \div W - start \div W)..(now \div W - start \div W)
  BY <1>2, <1>3
<1> QED BY <1>6, <1>7 DEF x, y

\* The ticks a call gives out before the first overflow.
LEMMA FirstTicks ==
  ASSUME ClockInv, C!Return, now < ClockWord
  PROVE  \E t \in start..now : uptime' = t /\ ticks' = t \div Milli
<1> USE DevicesAssumption DEF C!ClockAssumption
<1>1. PICK s \in start..now, t \in start..now :
        high = s \div ClockWord /\ low = t % ClockWord
  BY DEF ClockInv, C!Return
<1>2. s \in Nat /\ t \in Nat /\ start \in Nat /\ now \in Nat
  BY DEF ClockInv
<1>3. s \div ClockWord = 0 /\ t % ClockWord = t
  <2>1. s \in 0..ClockWord - 1 /\ t \in 0..ClockWord - 1
    BY <1>2
  <2> QED BY <2>1, Small
<1>4. C!Uptime = t
  BY <1>1, <1>2, <1>3 DEF C!Uptime
<1> QED BY <1>2, <1>4, TicksOf DEF C!Return

LEMMA StepClockInv == ClockInv /\ [C!Next]_clock => ClockInv'
<1> USE DevicesAssumption DEF C!ClockAssumption
<1> SUFFICES ASSUME ClockInv, [C!Next]_clock PROVE ClockInv'
  OBVIOUS
<1>0. now \in Nat /\ start \in Nat /\ start <= now /\ ticks \in Int
  BY DEF ClockInv
<1>1. CASE UNCHANGED clock
  BY <1>1 DEF ClockInv, clock, Calling
<1>2. CASE C!Tick
  <2>1. now' = now + 1 /\ UNCHANGED <<high, low, start, ticks>> /\ start..now \subseteq start..now'
    BY <1>0, <1>2 DEF C!Tick
  <2>2. now' < ClockWord => ticks <= (IF Calling THEN start ELSE now') \div Milli
    <3>1. now \div Milli <= now' \div Milli /\ now \div Milli \in Nat /\ now' \div Milli \in Nat
      BY <1>0, <2>1, Monotone, Division
    <3> QED BY <1>0, <2>1, <3>1 DEF ClockInv
  <2>3. Calling' <=> Calling
    BY <2>1 DEF Calling
  <2>4. high' # -1 => \E t \in start'..now' : high' = t \div ClockWord
    BY <2>1 DEF ClockInv
  <2>5. low' # -1 => \E t \in start'..now' : low' = t % ClockWord
    BY <2>1 DEF ClockInv
  <2> QED BY <1>0, <2>1, <2>2, <2>3, <2>4, <2>5 DEF ClockInv
<1>3. CASE C!LoadHigh
  <2>1. /\ start' = IF Calling THEN start ELSE now
        /\ high' = now \div ClockWord /\ UNCHANGED <<now, low, ticks>>
    BY <1>3 DEF C!LoadHigh, C!Handler, C!Begin, Calling
  <2>2. start' \in Nat /\ start' <= now
    BY <1>0, <2>1
  <2>3. now \div ClockWord \in Nat
    BY <1>0, Division
  <2>4. \E t \in start'..now' : high' = t \div ClockWord
    BY <1>0, <2>1, <2>2
  <2>5. low' # -1 => \E t \in start'..now' : low' = t % ClockWord
    BY <2>1 DEF ClockInv, Calling
  <2>6. now' < ClockWord => ticks' <= start' \div Milli
    BY <2>1 DEF ClockInv
  <2>7. Calling'
    BY <2>1, <2>3 DEF Calling
  <2> QED BY <1>0, <2>1, <2>2, <2>4, <2>5, <2>6, <2>7 DEF ClockInv
<1>4. CASE C!LoadLow
  <2>1. /\ start' = IF Calling THEN start ELSE now
        /\ low' = now % ClockWord /\ UNCHANGED <<now, high, ticks>>
    BY <1>4 DEF C!LoadLow, C!Handler, C!Begin, Calling
  <2>2. start' \in Nat /\ start' <= now
    BY <1>0, <2>1
  <2>3. now % ClockWord \in Nat
    BY <1>0, Division
  <2>4. \E t \in start'..now' : low' = t % ClockWord
    BY <1>0, <2>1, <2>2
  <2>5. high' # -1 => \E t \in start'..now' : high' = t \div ClockWord
    BY <2>1 DEF ClockInv, Calling
  <2>6. now' < ClockWord => ticks' <= start' \div Milli
    BY <2>1 DEF ClockInv
  <2>7. Calling'
    BY <2>1, <2>3 DEF Calling
  <2> QED BY <1>0, <2>1, <2>2, <2>4, <2>5, <2>6, <2>7 DEF ClockInv
<1>5. CASE C!Return
  <2>1. high' = -1 /\ low' = -1 /\ ticks' = C!GetTicks(uptime') /\ uptime' = C!Uptime
        /\ UNCHANGED <<now, start>>
    BY <1>5 DEF C!Return
  <2>2. ticks' \in Int
    <3>1. \E s \in start..now, t \in start..now :
            high = s \div ClockWord /\ low = t % ClockWord
      BY <1>5 DEF ClockInv, C!Return
    <3>2. C!Uptime \in Nat
      BY <1>0, <3>1, UptimeOf
    <3> DEFINE time == C!Uptime % ClockWord
               u == (time \div Second) * (Second \div Milli) + (time % Second) \div Milli
    <3>3. time \in Nat
      BY <3>2, Division
    <3> HIDE DEF time
    <3>4. time \div Second \in Nat /\ time % Second \in Nat /\ Second \div Milli \in Nat
      BY <3>3, Division
    <3>5. (time % Second) \div Milli \in Nat
      BY <3>4, Division
    <3>6. u \in Nat
      BY <3>4, <3>5
    <3> HIDE DEF u
    <3>7. u % ClockWord \in Nat
      BY <3>6, Division
    <3>8. C!GetTicks(C!Uptime) = u % ClockWord
      BY Zenon DEF C!GetTicks, time, u
    <3> QED BY <2>1, <3>7, <3>8
  <2>3. now < ClockWord => ticks' <= now \div Milli
    <3> SUFFICES ASSUME now < ClockWord PROVE ticks' <= now \div Milli
      OBVIOUS
    <3>1. PICK t \in start..now : ticks' = t \div Milli
      BY <1>5, FirstTicks
    <3> QED BY <1>0, <3>1, Monotone
  <2> QED BY <1>0, <2>1, <2>2, <2>3 DEF ClockInv, Calling
<1> QED BY <1>1, <1>2, <1>3, <1>4, <1>5 DEF C!Next

LEMMA ClockRight == ClockInv /\ [C!Next]_clock => [C!Returned /\ C!FollowsUntilCarry]_clock
<1> USE DevicesAssumption DEF C!ClockAssumption
<1> SUFFICES ASSUME ClockInv, C!Next PROVE C!Returned /\ C!FollowsUntilCarry
  BY DEF clock
<1>0. now \in Nat /\ start \in Nat /\ start <= now /\ ticks \in Int
  BY DEF ClockInv
<1>1. CASE ~C!returns
  BY <1>1 DEF C!Returned, C!FollowsUntilCarry
<1>2. CASE C!returns
  <2>1. C!Return
    BY <1>2 DEF C!returns, C!Next, C!Tick, C!LoadHigh, C!LoadLow
  <2>2. C!Returned
    <3>1. PICK s \in start..now, t \in start..now :
            high = s \div ClockWord /\ low = t % ClockWord
      BY <2>1 DEF ClockInv, C!Return
    <3> DEFINE k == t \div ClockWord - s \div ClockWord
               carries == now \div ClockWord - start \div ClockWord
    <3>2. C!Uptime + k * ClockWord = t /\ k \in -carries..carries
      BY <1>0, <3>1, UptimeOf
    <3>3. uptime' = C!Uptime /\ start <= t /\ t <= now
      BY <1>0, <2>1 DEF C!Return
    <3> HIDE DEF k
    <3>4. C!Between(uptime' + k * ClockWord, start, now)
      BY <3>2, <3>3 DEF C!Between
    <3> QED BY <3>2, <3>4 DEF C!Returned
  <2>3. C!FollowsUntilCarry
    <3> SUFFICES ASSUME now < ClockWord
                 PROVE  ticks <= ticks' /\ C!Between(ticks', start \div Milli, now \div Milli)
      BY DEF C!FollowsUntilCarry
    <3>1. PICK t \in start..now : ticks' = t \div Milli
      BY <2>1, FirstTicks
    <3>2. t \in Nat /\ start <= t /\ t <= now
      BY <1>0
    <3>3. start \div Milli <= t \div Milli /\ t \div Milli <= now \div Milli
          /\ start \div Milli \in Nat /\ t \div Milli \in Nat
      BY <1>0, <3>2, Monotone, Division
    <3>4. ticks <= start \div Milli
      BY <2>1 DEF ClockInv, Calling, C!Return
    <3> QED BY <1>0, <3>1, <3>3, <3>4 DEF C!Between
  <2> QED BY <2>2, <2>3
<1> QED BY <1>1, <1>2

-----------------------------------------------------------------------------
(* The map.                                                                *)

Multiple(n) == \E x \in Nat : n = WORD * x

DeviceNames == {M!Names[i] : i \in DOMAIN M!Names} \cup {"diskrw"}

Region == [name : DeviceNames, low : Nat, high : Nat, place : Nat]

\* Whole words outside of physical memory, with a place in the device space.
Sound(e) ==
  /\ e.low <= e.high
  /\ Multiple(e.low) /\ Multiple(e.high + 1)
  /\ \A a \in e.low..e.high : ~M!in_pmem(a)
  /\ e.place + (e.high - e.low) < IO_SPACE_MAX

Before(e, p) == e.place + (e.high - e.low) < p

Apart(e, f) == e.high < f.low \/ f.high < e.low

\* Regions of the table share neither addresses nor places below p.
Table(t, p) ==
  /\ t \in Seq(Region)
  /\ \A i \in 1..Len(t) : Sound(t[i]) /\ Before(t[i], p)
  /\ \A i, j \in 1..Len(t) : i < j => Apart(t[i], t[j]) /\ Before(t[i], t[j].place)

\* The place of address b in region e.
cell(e, b) == e.place + (b - e.low)

\* Every byte of the history is at the place of its address.
HeldAt(t, contents, log) ==
  /\ DOMAIN contents = 0..IO_SPACE_MAX - 1
  /\ \A b \in DOMAIN log : \E i \in 1..Len(t) :
       b \in t[i].low..t[i].high /\ contents[cell(t[i], b)] = log[b]

\* What is read of e at a is what the history has there.
ReadsHeld(c, e, a, len) ==
  \A k \in 1..len : a + k - 1 \in DOMAIN c.stored =>
    M!host_read(c, e, a, len)[k] = c.stored[a + k - 1]

MapInv ==
  /\ p_space \in Nat /\ Table(maps, p_space)
  /\ HeldAt(maps, space, stored)
  /\ state = "init" => got = <<>>
  /\ M!ReadsStored

LEMMA Firsts ==
  ASSUME NEW e, NEW f
  PROVE  SubSeq(<<e, f>>, 1, 1 - 1) = <<>> /\ SubSeq(<<e, f>>, 1, 2 - 1) = <<e>>
<1>1. SubSeq(<<e, f>>, 1, 0) = <<>>
  OBVIOUS
<1>2. SubSeq(<<e, f>>, 1, 1) = <<e>>
  <2> DEFINE s == <<e, f>>
             u == SubSeq(s, 1, 1)
  <2>1. s \in Seq({e, f}) /\ s[1] = e /\ Len(s) = 2
    OBVIOUS
  <2> HIDE DEF s
  <2>2. u \in Seq({e, f}) /\ Len(u) = 1 /\ u[1] = e
    BY <2>1
  <2> HIDE DEF u
  <2>3. u = <<e>>
    BY <2>2
  <2> QED BY <2>3 DEF u, s
<1> QED BY <1>1, <1>2

LEMMA IsMultiple ==
  ASSUME NEW n \in Nat, n % WORD = 0
  PROVE  Multiple(n)
<1>1. n \div WORD \in Nat /\ n = WORD * (n \div WORD) + (n % WORD)
  BY Division, DevicesAssumption DEF M!MmioAssumption
<1>2. n = WORD * (n \div WORD)
  BY <1>1, DevicesAssumption DEF M!MmioAssumption
<1> QED BY <1>1, <1>2 DEF Multiple

LEMMA SumMultiple ==
  ASSUME NEW m \in Nat, NEW n \in Nat, Multiple(m), Multiple(n)
  PROVE  Multiple(m + n) /\ (m <= n => Multiple(n - m))
<1> WORD \in Nat \ {0}
  BY DevicesAssumption DEF M!MmioAssumption
<1>1. PICK x \in Nat : m = WORD * x
  BY DEF Multiple
<1>2. PICK y \in Nat : n = WORD * y
  BY DEF Multiple
<1>3. m + n = WORD * (x + y)
  BY <1>1, <1>2
<1>4. n - m = WORD * (y - x)
  BY <1>1, <1>2
<1>5. m <= n => x <= y
  <2>1. y < x => WORD * y + WORD <= WORD * x
    BY Larger
  <2> QED BY <1>1, <1>2, <2>1
<1>6. Multiple(m + n)
  <2>1. x + y \in Nat
    OBVIOUS
  <2> QED BY <1>3, <2>1 DEF Multiple
<1>7. ASSUME m <= n PROVE Multiple(n - m)
  <2>1. y - x \in Nat
    BY <1>5, <1>7
  <2> QED BY <1>4, <2>1 DEF Multiple
<1> QED BY <1>6, <1>7

\* A device gets pages enough for its registers.
LEMMA PagesCover ==
  ASSUME NEW n \in Nat
  PROVE  M!Pages(n) \in Nat /\ n <= M!Pages(n)
<1> DEFINE P == PAGE_SIZE
           u == n + P - 1
           q == u \div P
<1>1. P \in Nat \ {0} /\ u \in Nat
  BY DevicesAssumption DEF M!MmioAssumption
<1>2. q \in Nat /\ u % P \in 0..P - 1 /\ u = P * q + (u % P)
  BY <1>1, Division
<1>3. M!Pages(n) = q * P
  BY DEF M!Pages
<1> HIDE DEF q
<1>4. q * P = P * q /\ q * P \in Nat
  BY <1>1, <1>2
<1> QED BY <1>1, <1>2, <1>3, <1>4

\* What add_mmio_map lets into the table keeps it a table.
LEMMA TableAppend ==
  ASSUME NEW t, NEW p \in Nat, Table(t, p), NEW r \in Nat,
         NEW e \in Region, e.low <= e.high, Multiple(e.low), Multiple(e.high + 1),
         e.high - e.low < MSIZE, p <= e.place, Before(e, r), r <= IO_SPACE_MAX,
         M!Fits(t, e)
  PROVE  Table(Append(t, e), r)
<1> USE DevicesAssumption DEF M!MmioAssumption
<1>1. \A a \in e.low..e.high : ~M!in_pmem(a)
  BY DEF M!Fits, M!in_pmem, Region
<1>2. Sound(e)
  BY <1>1 DEF Sound, Before, Region
<1>3. \A i \in 1..Len(t) : Apart(t[i], e)
  <2> TAKE i \in 1..Len(t)
  <2>1. t[i] \in Region /\ i \in DOMAIN t
    BY DEF Table
  <2>2. ~M!Overlaps(t[i], e.low, e.high)
    BY <2>1 DEF M!Fits
  <2> QED BY <2>1, <2>2 DEF M!Overlaps, Apart, Region
<1> DEFINE s == Append(t, e)
           m == Len(t)
<1>4. /\ t \in Seq(Region) /\ m \in Nat /\ s \in Seq(Region) /\ Len(s) = m + 1
      /\ \A i \in 1..m : s[i] = t[i] /\ t[i] \in Region
      /\ s[m + 1] = e
  BY DEF Table
<1> HIDE DEF s, m
<1>5. ASSUME NEW i \in 1..m + 1 PROVE Sound(s[i]) /\ Before(s[i], r)
  <2>1. CASE i = m + 1
    BY <1>2, <1>4, <2>1
  <2>2. CASE i # m + 1
    <3>1. i \in 1..m
      BY <1>4, <2>2
    <3>2. Sound(t[i]) /\ Before(t[i], p) /\ t[i] \in Region
      BY <1>4, <3>1 DEF Table, m
    <3>3. Before(t[i], r)
      BY <3>2 DEF Before, Region
    <3> QED BY <1>4, <3>1, <3>2, <3>3
  <2> QED BY <2>1, <2>2
<1>6. ASSUME NEW i \in 1..m + 1, NEW j \in 1..m + 1, i < j
      PROVE  Apart(s[i], s[j]) /\ Before(s[i], s[j].place)
  <2>1. i \in 1..m
    BY <1>4, <1>6
  <2>2. CASE j = m + 1
    <3>1. Before(t[i], p) /\ t[i] \in Region /\ Apart(t[i], e)
      BY <1>3, <1>4, <2>1 DEF Table, m
    <3>2. Before(t[i], e.place)
      BY <3>1 DEF Before, Region
    <3> QED BY <1>4, <2>1, <2>2, <3>1, <3>2
  <2>3. CASE j # m + 1
    <3>1. j \in 1..m
      BY <1>4, <2>3
    <3>2. Apart(t[i], t[j]) /\ Before(t[i], t[j].place)
      BY <1>6, <2>1, <3>1 DEF Table, m
    <3> QED BY <1>4, <2>1, <3>1, <3>2
  <2> QED BY <2>2, <2>3
<1> QED BY <1>4, <1>5, <1>6 DEF Table, s

LEMMA TableGrows ==
  ASSUME NEW t, NEW p \in Nat, Table(t, p), NEW r \in Nat, p <= r
  PROVE  Table(t, r)
<1>1. \A i \in 1..Len(t) : t[i] \in Region
  BY DEF Table
<1>2. \A i \in 1..Len(t) : Before(t[i], r)
  BY <1>1 DEF Table, Before, Region
<1> QED BY <1>2 DEF Table

\* The entries of a device that gets its pages.
LEMMA DeviceEntered ==
  ASSUME MapInv, NEW i \in DOMAIN M!Names, NEW addr \in Places, NEW len \in Lens,
         M!HasLen(M!Names[i], len), p_space + M!Pages(len) < IO_SPACE_MAX,
         \A n \in DOMAIN M!Entries(M!Names[i], addr, len) :
           M!Fits(maps \o SubSeq(M!Entries(M!Names[i], addr, len), 1, n - 1),
                  M!Entries(M!Names[i], addr, len)[n])
  PROVE  LET new == M!Entries(M!Names[i], addr, len) IN
         /\ Table(maps \o new, p_space + M!Pages(len))
         /\ Len(maps) + 1 \in 1..Len(maps \o new) /\ (maps \o new)[Len(maps) + 1] = new[1]
         /\ \A n \in 1..Len(maps) : n \in 1..Len(maps \o new) /\ (maps \o new)[n] = maps[n]
         /\ new[1] \in Region /\ new[1].name = M!Names[i]
         /\ M!Names[i] # "diskctl" => new[1].high - new[1].low = len - 1
<1> USE DevicesAssumption DEF M!MmioAssumption
<1> DEFINE name == M!Names[i]
           new == M!Entries(name, addr, len)
           r == p_space + M!Pages(len)
<1>0. /\ p_space \in Nat /\ Table(maps, p_space) /\ maps \in Seq(Region)
      /\ addr \in Nat /\ len \in 1..MSIZE
      /\ MBASE \in Nat /\ MSIZE \in Nat /\ WORD \in Nat \ {0}
  BY DEF MapInv, Table
<1>1. M!Pages(len) \in Nat /\ len <= M!Pages(len) /\ r \in Nat
  <2>1. len \in Nat
    BY <1>0
  <2>2. M!Pages(len) \in Nat /\ len <= M!Pages(len)
    BY <2>1, PagesCover
  <2> QED BY <1>0, <2>2
<1>2. Multiple(addr) /\ Multiple(len) /\ Multiple(WORD)
  <2>1. addr % WORD = 0 /\ len % WORD = 0
    OBVIOUS
  <2>2. WORD = WORD * 1
    OBVIOUS
  <2>3. Multiple(WORD)
    BY <2>2 DEF Multiple
  <2> QED BY <1>0, <2>1, <2>3, IsMultiple
<1>3. name \in DeviceNames /\ "diskrw" \in DeviceNames
  BY DEF DeviceNames
<1>4. name = "diskctl" => WORD < len
  BY DEF M!HasLen
<1> HIDE DEF r, name
<1>5. CASE name # "diskctl"
  <2> DEFINE e == M!Entry(name, addr, len, p_space)
  <2>1. new = <<e>>
    BY <1>5 DEF M!Entries
  <2>4. /\ e \in Region /\ e.low = addr /\ e.high = addr + len - 1 /\ e.place = p_space /\ e.name = name
    BY <1>0, <1>3 DEF M!Entry, Region
  <2> HIDE DEF e
  <2>2. maps \o SubSeq(new, 1, 1 - 1) = maps /\ 1 \in DOMAIN new /\ new[1] = e
        /\ maps \o new = Append(maps, e)
    BY <1>0, <2>1, <2>4
  <2>3. M!Fits(maps, e)
    BY <2>2 DEF name
  <2> HIDE DEF new
  <2>5. Multiple(e.low) /\ Multiple(e.high + 1)
    <3>1. e.high + 1 = addr + len
      BY <1>0, <2>4
    <3> QED BY <1>0, <1>2, <2>4, <3>1, SumMultiple
  <2>6. /\ e.low <= e.high /\ e.high - e.low < MSIZE /\ p_space <= e.place
        /\ Before(e, r) /\ r <= IO_SPACE_MAX
    BY <1>0, <1>1, <2>4 DEF Before, r
  <2>7. Table(Append(maps, e), r)
    BY <1>0, <1>1, <2>3, <2>4, <2>5, <2>6, TableAppend
  <2>8. /\ Len(maps) + 1 \in 1..Len(Append(maps, e)) /\ Append(maps, e)[Len(maps) + 1] = e
        /\ \A n \in 1..Len(maps) : n \in 1..Len(Append(maps, e)) /\ Append(maps, e)[n] = maps[n]
    BY <1>0, <2>4
  <2>9. e.high - e.low = len - 1
    BY <1>0, <2>4
  <2> QED BY <2>2, <2>4, <2>7, <2>8, <2>9 DEF new, r, name
<1>6. CASE name = "diskctl"
  <2> DEFINE first == len - WORD
             e == M!Entry(name, addr, first, p_space)
             f == M!Entry("diskrw", addr + first, WORD, p_space + first)
             mid == p_space + first
  <2>0. first \in 1..len - 1 /\ WORD = len - first
    BY <1>0, <1>4, <1>6
  <2>1. new = <<e, f>>
    BY <1>6 DEF M!Entries
  <2> HIDE DEF new
  <2>4. /\ e \in Region /\ e.low = addr /\ e.high = addr + first - 1 /\ e.place = p_space /\ e.name = name
        /\ f \in Region /\ f.low = addr + first /\ f.high = addr + len - 1 /\ f.place = mid
    <3>1. addr \in Nat /\ first \in Nat /\ p_space \in Nat /\ len \in Nat /\ mid \in Nat
      BY <1>0, <2>0
    <3>2. addr + first - 1 \in Nat /\ addr + len - 1 \in Nat /\ addr + first + WORD - 1 = addr + len - 1
      BY <1>0, <2>0, <3>1
    <3> HIDE DEF first, mid
    <3>3. /\ e = [name |-> name, low |-> addr, high |-> addr + first - 1, place |-> p_space]
          /\ f = [name |-> "diskrw", low |-> addr + first, high |-> addr + len - 1, place |-> mid]
      BY <3>2 DEF M!Entry, mid
    <3> HIDE DEF e, f
    <3> QED BY <1>3, <3>1, <3>2, <3>3 DEF Region
  <2> HIDE DEF e, f
  <2>2. /\ maps \o SubSeq(new, 1, 1 - 1) = maps /\ 1 \in DOMAIN new /\ new[1] = e
        /\ maps \o SubSeq(new, 1, 2 - 1) = Append(maps, e) /\ 2 \in DOMAIN new /\ new[2] = f
        /\ maps \o new = Append(Append(maps, e), f)
    <3>1. SubSeq(new, 1, 1 - 1) = <<>> /\ SubSeq(new, 1, 2 - 1) = <<e>>
      BY <2>1, Firsts
    <3>2. maps \o <<>> = maps /\ maps \o <<e>> = Append(maps, e)
      BY <1>0, <2>4
    <3>3. maps \o <<e, f>> = Append(Append(maps, e), f)
      BY <1>0, <2>4
    <3>4. 1 \in DOMAIN new /\ new[1] = e /\ 2 \in DOMAIN new /\ new[2] = f
      BY <2>1
    <3> QED BY <2>1, <3>1, <3>2, <3>3, <3>4
  <2>3. M!Fits(maps, e) /\ M!Fits(Append(maps, e), f)
    BY <2>2 DEF new, name
  <2>5. Multiple(e.low) /\ Multiple(e.high + 1) /\ Multiple(f.low) /\ Multiple(f.high + 1)
    <3>1. e.high + 1 = addr + first /\ f.high + 1 = addr + len
      BY <1>0, <2>0, <2>4
    <3>2. Multiple(first)
      BY <1>0, <1>2, <2>0, SumMultiple
    <3> QED BY <1>0, <1>2, <2>0, <2>4, <3>1, <3>2, SumMultiple
  <2> HIDE DEF first
  <2>6. /\ e.low <= e.high /\ e.high - e.low < MSIZE /\ p_space <= e.place
        /\ Before(e, mid) /\ mid \in Nat /\ mid <= IO_SPACE_MAX
    BY <1>0, <1>1, <2>0, <2>4 DEF Before, r
  <2>7. Table(Append(maps, e), mid)
    BY <1>0, <1>1, <2>3, <2>4, <2>5, <2>6, TableAppend
  <2>8. /\ f.low <= f.high /\ f.high - f.low < MSIZE /\ mid <= f.place
        /\ Before(f, r) /\ r <= IO_SPACE_MAX
    BY <1>0, <1>1, <2>0, <2>4 DEF Before, r
  <2>9. Table(Append(Append(maps, e), f), r)
    BY <1>0, <1>1, <2>3, <2>4, <2>5, <2>6, <2>7, <2>8, TableAppend
  <2> DEFINE t == Append(Append(maps, e), f)
  <2>10. /\ Len(maps) + 1 \in 1..Len(t) /\ t[Len(maps) + 1] = e
         /\ \A n \in 1..Len(maps) : n \in 1..Len(t) /\ t[n] = maps[n]
    BY <1>0, <2>4
  <2> QED BY <1>6, <2>2, <2>4, <2>9, <2>10 DEF new, r, name
<1> QED BY <1>5, <1>6

\* An address is in at most one region, and an aligned access stays in it.
LEMMA OneRegion ==
  ASSUME NEW t, NEW p, Table(t, p), NEW i \in 1..Len(t), NEW j \in 1..Len(t),
         NEW b \in t[i].low..t[i].high, b \in t[j].low..t[j].high
  PROVE  i = j
<1>1. t[i] \in Region /\ t[j] \in Region /\ i \in Int /\ j \in Int
  BY DEF Table
<1>2. ~Apart(t[i], t[j]) /\ ~Apart(t[j], t[i])
  BY <1>1 DEF Apart, Region
<1>3. ~(i < j) /\ ~(j < i)
  BY <1>2 DEF Table
<1> QED BY <1>1, <1>3

LEMMA StaysInside ==
  ASSUME NEW e \in Region, Sound(e), NEW a \in e.low..e.high, NEW len \in {1, WORD}, a % len = 0
  PROVE  a + len - 1 <= e.high
<1> WORD \in Nat \ {0}
  BY DevicesAssumption DEF M!MmioAssumption
<1>1. a \in Nat /\ e.high \in Nat /\ a <= e.high
  BY DEF Region
<1>2. CASE len = 1
  BY <1>1, <1>2
<1>3. CASE len = WORD
  <2>1. PICK x \in Nat : a = WORD * x
    BY <1>1, <1>3, IsMultiple DEF Multiple
  <2>2. PICK y \in Nat : e.high + 1 = WORD * y
    BY DEF Sound, Multiple
  <2>3. x < y
    <3>1. ~(y < x)
      <4>1. y < x => WORD * y + WORD <= WORD * x
        BY Larger
      <4> QED BY <1>1, <2>1, <2>2, <4>1
    <3>2. y # x
      BY <1>1, <2>1, <2>2
    <3> QED BY <3>1, <3>2
  <2>4. WORD * x + WORD <= WORD * y
    BY <2>3, Larger
  <2> QED BY <1>1, <1>3, <2>1, <2>2, <2>4
<1> QED BY <1>2, <1>3

\* Two addresses of the table have two places.
LEMMA OnePlace ==
  ASSUME NEW t, NEW p, Table(t, p), NEW i \in 1..Len(t), NEW j \in 1..Len(t),
         NEW b \in t[i].low..t[i].high, NEW c \in t[j].low..t[j].high,
         cell(t[i], b) = cell(t[j], c)
  PROVE  b = c
<1>1. t[i] \in Region /\ t[j] \in Region /\ i \in Int /\ j \in Int
  BY DEF Table
<1>2. ASSUME i < j PROVE FALSE
  <2>1. Before(t[i], t[j].place)
    BY <1>2 DEF Table
  <2> QED BY <1>1, <2>1, SMTT(30) DEF cell, Before, Region
<1>3. ASSUME j < i PROVE FALSE
  <2>1. Before(t[j], t[i].place)
    BY <1>3 DEF Table
  <2> QED BY <1>1, <2>1, SMTT(30) DEF cell, Before, Region
<1>4. i = j
  BY <1>1, <1>2, <1>3
<1> QED BY <1>1, <1>4 DEF cell, Region

LEMMA CellInSpace ==
  ASSUME NEW e \in Region, Sound(e), NEW b \in e.low..e.high
  PROVE  cell(e, b) \in 0..IO_SPACE_MAX - 1
BY DevicesAssumption DEF cell, Sound, Region, M!MmioAssumption

\* What the code of an access works with.
LEMMA AccessOf ==
  ASSUME MapInv, NEW a \in Nat, NEW len \in {1, WORD}, M!Aligned(a, len), M!Inside(a) # {}
  PROVE  \E i \in 1..Len(maps) :
           /\ M!find_mapid_by_addr(a) = i
           /\ maps[i] \in Region /\ Sound(maps[i])
           /\ a \in maps[i].low..maps[i].high /\ a + len - 1 <= maps[i].high
<1>1. Table(maps, p_space) /\ DOMAIN maps = 1..Len(maps)
  BY DEF MapInv, Table
<1>2. PICK i \in M!Inside(a) : TRUE
  OBVIOUS
<1>3. i \in 1..Len(maps) /\ a \in maps[i].low..maps[i].high
  BY <1>1, <1>2 DEF M!Inside
<1>4. M!Inside(a) = {i}
  <2> SUFFICES ASSUME NEW j \in M!Inside(a) PROVE j = i
    BY <1>2
  <2>1. j \in 1..Len(maps) /\ a \in maps[j].low..maps[j].high
    BY <1>1 DEF M!Inside
  <2> QED BY <1>1, <1>3, <2>1, OneRegion
<1>5. M!find_mapid_by_addr(a) = i
  <2>1. i <= i
    BY <1>3
  <2> QED BY <1>4, <2>1 DEF M!find_mapid_by_addr
<1>6. maps[i] \in Region /\ Sound(maps[i])
  BY <1>1, <1>3 DEF Table
<1>7. a + len - 1 <= maps[i].high
  BY <1>3, <1>6, StaysInside DEF M!Aligned
<1> QED BY <1>3, <1>5, <1>6, <1>7

LEMMA AccessInside ==
  ASSUME NEW e \in Region, NEW a \in e.low..e.high, NEW len \in {1, WORD}, a + len - 1 <= e.high
  PROVE  \A k \in 1..len : a + k - 1 \in e.low..e.high
<1>1. e.low \in Nat /\ e.high \in Nat /\ len \in Nat
  BY DevicesAssumption DEF Region, M!MmioAssumption
<1> QED BY <1>1

\* What is stored into one region is found at its addresses, and nothing else
\* of the history is disturbed.
LEMMA StoreKeeps ==
  ASSUME NEW t, NEW p, Table(t, p), NEW c, HeldAt(t, c.space, c.stored), NEW j \in 1..Len(t),
         NEW values, DOMAIN values \subseteq 0..t[j].high - t[j].low
  PROVE  HeldAt(t, M!After(c, t[j], values).space, M!After(c, t[j], values).stored)
<1> DEFINE e == t[j]
           contents == M!After(c, e, values).space
           log == M!After(c, e, values).stored
           cells == DOMAIN c.space
           addrs == DOMAIN c.stored \cup {e.low + k : k \in DOMAIN values}
<1>1. /\ contents = [x \in cells |-> IF x - e.place \in DOMAIN values THEN values[x - e.place] ELSE c.space[x]]
      /\ log = [b \in addrs |-> IF b - e.low \in DOMAIN values THEN values[b - e.low] ELSE c.stored[b]]
  BY DEF M!After
<1>2. e \in Region /\ Sound(e)
  BY DEF Table
<1>3. \A k \in DOMAIN values : k \in 0..e.high - e.low
  OBVIOUS
<1>4. cells = 0..IO_SPACE_MAX - 1
  BY DEF HeldAt
<1> HIDE DEF e, contents, log
<1>5. ASSUME NEW b \in addrs
      PROVE  \E i \in 1..Len(t) : b \in t[i].low..t[i].high /\ contents[cell(t[i], b)] = log[b]
  <2>1. CASE b - e.low \in DOMAIN values
    <3>1. b \in Int
      <4>1. CASE b \in DOMAIN c.stored
        BY <4>1 DEF HeldAt
      <4>2. CASE b \notin DOMAIN c.stored
        BY <1>2, <1>3, <4>2 DEF Region
      <4> QED BY <4>1, <4>2
    <3>2. b - e.low \in 0..e.high - e.low
      BY <1>3, <2>1
    <3>3. b \in e.low..e.high
      BY <1>2, <3>1, <3>2 DEF Region
    <3>4. cell(e, b) \in cells
      BY <1>2, <1>4, <3>3, CellInSpace
    <3>5. cell(e, b) - e.place = b - e.low
      BY <1>2, <3>1 DEF cell, Region
    <3>6. contents[cell(e, b)] = log[b]
      BY <1>1, <2>1, <3>4, <3>5
    <3> QED BY <3>3, <3>6 DEF e
  <2>2. CASE b - e.low \notin DOMAIN values
    <3>1. b \in DOMAIN c.stored
      <4>1. ASSUME NEW k \in DOMAIN values, b = e.low + k PROVE FALSE
        BY <1>2, <1>3, <2>2, <4>1 DEF Region
      <4> QED BY <4>1
    <3>2. PICK i \in 1..Len(t) : b \in t[i].low..t[i].high /\ c.space[cell(t[i], b)] = c.stored[b]
      BY <3>1 DEF HeldAt
    <3>3. t[i] \in Region /\ Sound(t[i])
      BY DEF Table
    <3> DEFINE x == cell(t[i], b)
    <3>4. x \in cells
      BY <1>4, <3>2, <3>3, CellInSpace
    <3>5. x - e.place \notin DOMAIN values
      <4>1. ASSUME x - e.place \in DOMAIN values PROVE FALSE
        <5> DEFINE d == e.low + (x - e.place)
        <5>1. x \in Int /\ x - e.place \in 0..e.high - e.low
          BY <1>3, <1>4, <3>4, <4>1
        <5> HIDE DEF x
        <5>2. d \in e.low..e.high /\ cell(e, d) = x /\ d - e.low = x - e.place
          <6>1. e.low \in Nat /\ e.high \in Nat /\ e.place \in Nat
            BY <1>2 DEF Region
          <6>2. cell(e, d) = e.place + (d - e.low)
            BY DEF cell
          <6> QED BY <5>1, <6>1, <6>2, SMTT(30)
        <5>3. b = d
          BY <3>2, <5>2, OnePlace DEF e, x
        <5> QED BY <2>2, <4>1, <5>2, <5>3
      <4> QED BY <4>1
    <3>6. contents[x] = log[b]
      BY <1>1, <2>2, <3>2, <3>4, <3>5
    <3> QED BY <3>2, <3>6
  <2> QED BY <2>1, <2>2
<1>6. DOMAIN log = addrs /\ DOMAIN contents = 0..IO_SPACE_MAX - 1
  BY <1>1, <1>4
<1> QED BY <1>5, <1>6 DEF HeldAt, contents, log, e

\* An access stays in its region, which holds the history of its addresses.
LEMMA ReadBytes ==
  ASSUME NEW t, NEW p, Table(t, p), NEW c, HeldAt(t, c.space, c.stored), NEW i \in 1..Len(t),
         NEW a \in t[i].low..t[i].high, NEW len \in {1, WORD}, a + len - 1 <= t[i].high
  PROVE  ReadsHeld(c, t[i], a, len)
<1> SUFFICES ASSUME NEW k \in 1..len, a + k - 1 \in DOMAIN c.stored
             PROVE  M!host_read(c, t[i], a, len)[k] = c.stored[a + k - 1]
  BY DEF ReadsHeld
<1> DEFINE b == a + k - 1
<1>1. t[i] \in Region /\ b \in t[i].low..t[i].high
  <2>1. t[i] \in Region
    BY DEF Table
  <2> QED BY <2>1, AccessInside
<1>2. PICK j \in 1..Len(t) : b \in t[j].low..t[j].high /\ c.space[cell(t[j], b)] = c.stored[b]
  BY DEF HeldAt
<1>3. i = j
  BY <1>1, <1>2, OneRegion
<1>4. t[i].place + (a - t[i].low) + k - 1 = cell(t[i], b)
  <2>1. len \in Nat
    BY DevicesAssumption DEF M!MmioAssumption
  <2> QED BY <1>1, <2>1 DEF cell, Region
<1> QED BY <1>2, <1>3, <1>4 DEF M!host_read

LEMMA WrittenHeld ==
  ASSUME NEW t, NEW p, Table(t, p), NEW c, HeldAt(t, c.space, c.stored), NEW i \in 1..Len(t),
         NEW a \in t[i].low..t[i].high, NEW len \in {1, WORD}, a + len - 1 <= t[i].high,
         NEW data \in [1..len -> Byte], Len(data) = len
  PROVE  HeldAt(t, M!host_write(c, t[i], a, data).space, M!host_write(c, t[i], a, data).stored)
<1> DEFINE offset == a - t[i].low
           values == [k \in offset..offset + Len(data) - 1 |-> data[k - offset + 1]]
<1>1. t[i] \in Region /\ len \in Nat
  BY DevicesAssumption DEF Table, M!MmioAssumption
<1>2. DOMAIN values \subseteq 0..t[i].high - t[i].low
  BY <1>1 DEF Region
<1>3. M!host_write(c, t[i], a, data) = M!After(c, t[i], values)
  BY DEF M!host_write
<1> HIDE DEF values
<1> QED BY <1>2, <1>3, StoreKeeps

\* So does what a handler stores.
LEMMA CalledHeld ==
  ASSUME NEW c, Table(maps, p_space), HeldAt(maps, c.space, c.stored), NEW i \in 1..Len(maps),
         NEW is_write \in BOOLEAN, NEW d \in M!Called(c, maps[i], is_write)
  PROVE  HeldAt(maps, d.space, d.stored)
<1>1. ASSUME NEW j \in 1..Len(maps), NEW v, DOMAIN v = M!Registers(maps[j]), d = M!After(c, maps[j], v)
      PROVE  HeldAt(maps, d.space, d.stored)
  <2>1. DOMAIN v \subseteq 0..maps[j].high - maps[j].low
    BY <1>1 DEF M!Registers
  <2> QED BY <1>1, <2>1, StoreKeeps
<1>2. \A e : DOMAIN M!Zeros(e) = M!Registers(e) /\ \A v \in M!Any(e) : DOMAIN v = M!Registers(e)
  BY DEF M!Zeros, M!Any
<1>3. CASE ~is_write /\ maps[i].name \in {"keyboard", "rtc"}
  <2>1. \E v \in M!Any(maps[i]) : d = M!After(c, maps[i], v)
    BY <1>3 DEF M!Called
  <2> QED BY <1>1, <1>2, <2>1
<1>4. CASE is_write /\ maps[i].name = "diskrw"
  <2>1. d = M!After(c, maps[i], M!Zeros(maps[i]))
    BY <1>4 DEF M!Called
  <2> QED BY <1>1, <1>2, <2>1
<1>5. CASE is_write /\ maps[i].name = "ffb_draw"
  <2>1. \E j \in DOMAIN maps : \E v \in M!Any(maps[j]) : d = M!After(c, maps[j], v)
    BY <1>5 DEF M!Called
  <2>2. DOMAIN maps = 1..Len(maps)
    BY DEF Table
  <2> QED BY <1>1, <1>2, <2>1, <2>2
<1>6. CASE /\ ~(~is_write /\ maps[i].name \in {"keyboard", "rtc"})
           /\ ~(is_write /\ maps[i].name = "diskrw")
           /\ ~(is_write /\ maps[i].name = "ffb_draw")
  <2>1. M!Called(c, maps[i], is_write) = {c}
    BY <1>6, ZenonT(30) DEF M!Called
  <2> QED BY <2>1
<1> QED BY <1>3, <1>4, <1>5, <1>6

LEMMA ReadStep ==
  ASSUME MapInv, NEW a \in Nat, NEW len \in {1, WORD}, M!mmio_read(a, len)
  PROVE  MapInv'
<1> DEFINE e == maps[M!find_mapid_by_addr(a)]
<1>1. /\ M!Aligned(a, len) /\ M!Inside(a) # {} /\ state = "running"
      /\ UNCHANGED <<maps, p_space>>
  BY DEF M!mmio_read, M!Aligned
<1>2. PICK i \in 1..Len(maps) :
           /\ M!find_mapid_by_addr(a) = i
           /\ maps[i] \in Region /\ Sound(maps[i])
           /\ a \in maps[i].low..maps[i].high /\ a + len - 1 <= maps[i].high
  BY <1>1, AccessOf
<1>3. Table(maps, p_space) /\ HeldAt(maps, space, stored) /\ M!Contents.space = space /\ M!Contents.stored = stored
  BY DEF MapInv, M!Contents
<1>4. CASE state' = "panic" /\ UNCHANGED <<space, stored, got>>
  BY <1>1, <1>4 DEF MapInv, M!ReadsStored
<1>5. ASSUME UNCHANGED state, NEW c \in M!Called(M!Contents, maps[i], FALSE),
             M!Become(c), got' = [at |-> a, bytes |-> M!host_read(c, maps[i], a, len)]
      PROVE  MapInv'
  <2>1. HeldAt(maps, c.space, c.stored)
    BY <1>3, CalledHeld
  <2>2. space' = c.space /\ stored' = c.stored
    BY <1>5 DEF M!Become
  <2> DEFINE bytes == M!host_read(c, maps[i], a, len)
  <2>3. DOMAIN bytes = 1..len
    BY DEF M!host_read
  <2>4. \A k \in 1..len : a + k - 1 \in DOMAIN c.stored => bytes[k] = c.stored[a + k - 1]
    <3>1. /\ Table(maps, p_space) /\ i \in 1..Len(maps)
          /\ a \in maps[i].low..maps[i].high /\ a + len - 1 <= maps[i].high
      BY <1>2, <1>3
    <3>2. ReadsHeld(c, maps[i], a, len)
      BY <2>1, <3>1, ReadBytes
    <3> QED BY <3>2 DEF ReadsHeld, bytes
  <2> HIDE DEF bytes
  <2>5. got'.at = a /\ got'.bytes = bytes
    BY <1>5 DEF bytes
  <2>6. M!ReadsStored'
    BY <2>2, <2>3, <2>4, <2>5 DEF M!ReadsStored
  <2> QED BY <1>1, <1>3, <1>5, <2>1, <2>2, <2>6 DEF MapInv
<1>6. \/ state' = "panic" /\ UNCHANGED <<space, stored, got>>
      \/ /\ UNCHANGED state
         /\ \E c \in M!Called(M!Contents, maps[i], FALSE) :
              M!Become(c) /\ got' = [at |-> a, bytes |-> M!host_read(c, maps[i], a, len)]
  BY <1>2 DEF M!mmio_read
<1> QED BY <1>4, <1>5, <1>6

LEMMA WriteStep ==
  ASSUME MapInv, NEW a \in Nat, NEW len \in {1, WORD}, NEW data \in [1..len -> Byte],
         M!mmio_write(a, data)
  PROVE  MapInv'
<1>0. Len(data) = len
  <2>1. WORD \in Nat \ {0}
    BY DevicesAssumption DEF M!MmioAssumption
  <2>2. data \in Seq(Byte)
    BY <2>1
  <2>3. 1..Len(data) = 1..len /\ Len(data) \in Nat /\ len \in Nat \ {0}
    BY <2>1, <2>2
  <2> QED BY <2>3
<1>1. /\ M!Aligned(a, len) /\ M!Inside(a) # {} /\ state = "running"
      /\ UNCHANGED <<maps, p_space>> /\ got' = <<>>
  BY <1>0 DEF M!mmio_write, M!Aligned
<1>2. PICK i \in 1..Len(maps) :
           /\ M!find_mapid_by_addr(a) = i
           /\ maps[i] \in Region /\ Sound(maps[i])
           /\ a \in maps[i].low..maps[i].high /\ a + len - 1 <= maps[i].high
  BY <1>1, AccessOf
<1>3. Table(maps, p_space) /\ HeldAt(maps, M!Contents.space, M!Contents.stored)
  BY DEF MapInv, M!Contents
<1> DEFINE written == M!host_write(M!Contents, maps[i], a, data)
<1>4. HeldAt(maps, written.space, written.stored)
  BY <1>0, <1>2, <1>3, WrittenHeld
<1>5. \/ state' = "panic" /\ M!Become(written)
      \/ UNCHANGED state /\ \E c \in M!Called(written, maps[i], TRUE) : M!Become(c)
  BY <1>2 DEF M!mmio_write
<1> HIDE DEF written
<1>6. HeldAt(maps, space', stored') /\ state' # "init"
  <2>1. CASE state' = "panic" /\ M!Become(written)
    BY <1>4, <2>1 DEF M!Become
  <2>2. ASSUME UNCHANGED state, NEW c \in M!Called(written, maps[i], TRUE), M!Become(c)
        PROVE  HeldAt(maps, space', stored') /\ state' # "init"
    <3>1. HeldAt(maps, c.space, c.stored)
      BY <1>3, <1>4, CalledHeld
    <3> QED BY <1>1, <2>2, <3>1 DEF M!Become
  <2> QED BY <1>5, <2>1, <2>2
<1>7. M!ReadsStored'
  BY <1>1 DEF M!ReadsStored
<1> QED BY <1>1, <1>3, <1>6, <1>7 DEF MapInv

LEMMA SyncStep == MapInv /\ M!vga_update_screen => MapInv'
<1> SUFFICES ASSUME MapInv, M!vga_update_screen PROVE MapInv'
  OBVIOUS
<1>1. state = "running" /\ got' = <<>> /\ UNCHANGED <<state, maps, p_space>>
  BY DEF M!vga_update_screen
<1>2. Table(maps, p_space) /\ HeldAt(maps, M!Contents.space, M!Contents.stored) /\ DOMAIN maps = 1..Len(maps)
  BY DEF MapInv, M!Contents, Table
<1>3. PICK i \in DOMAIN maps : M!Become(M!After(M!Contents, maps[i], [k \in WORD..maps[i].high - maps[i].low |-> 0]))
  BY DEF M!vga_update_screen
<1> DEFINE values == [k \in WORD..maps[i].high - maps[i].low |-> 0]
<1>4. DOMAIN values \subseteq 0..maps[i].high - maps[i].low
  <2>1. WORD \in Nat /\ maps[i] \in Region
    BY <1>2, DevicesAssumption DEF Table, M!MmioAssumption
  <2> QED BY <2>1 DEF Region
<1> HIDE DEF values
<1>5. HeldAt(maps, M!After(M!Contents, maps[i], values).space, M!After(M!Contents, maps[i], values).stored)
  BY <1>2, <1>4, StoreKeeps
<1>6. HeldAt(maps, space', stored')
  BY <1>3, <1>5 DEF M!Become, values
<1>7. M!ReadsStored'
  BY <1>1 DEF M!ReadsStored
<1> QED BY <1>1, <1>2, <1>6, <1>7 DEF MapInv

LEMMA InitMapInv == M!Init => MapInv
<1> SUFFICES ASSUME M!Init PROVE MapInv
  OBVIOUS
<1>1. /\ maps = <<>> /\ p_space = 0 /\ got = <<>> /\ stored = <<>>
      /\ space = [c \in 0..IO_SPACE_MAX - 1 |-> Garbage]
  BY DEF M!Init
<1>2. Table(<<>>, 0)
  BY DEF Table
<1>3. M!ReadsStored /\ HeldAt(maps, space, stored)
  BY <1>1 DEF M!ReadsStored, HeldAt
<1> QED BY <1>1, <1>2, <1>3 DEF MapInv

LEMMA DeviceStep ==
  ASSUME MapInv, NEW i \in DOMAIN M!Names, NEW addr \in Places, NEW len \in Lens,
         M!init_device(i, addr, len)
  PROVE  MapInv'
<1> DEFINE name == M!Names[i]
           new == M!Entries(name, addr, len)
           allocated == p_space + M!Pages(len)
           fits == \A n \in DOMAIN new : M!Fits(maps \o SubSeq(new, 1, n - 1), new[n])
<1>1. /\ state = "init" /\ M!HasLen(name, len) /\ p_space' = allocated /\ UNCHANGED got
      /\ IF allocated < IO_SPACE_MAX /\ fits
         THEN /\ maps' = maps \o new /\ UNCHANGED state
              /\ \E values \in M!Fresh(new[1]) : M!Become(M!After(M!Contents, new[1], values))
         ELSE state' = "panic" /\ UNCHANGED <<maps, space, stored>>
  BY Zenon DEF M!init_device
<1>2. allocated \in Nat /\ p_space \in Nat /\ p_space <= allocated
  <2>1. len \in Nat
    BY DevicesAssumption DEF M!MmioAssumption
  <2>2. M!Pages(len) \in Nat /\ p_space \in Nat
    BY <2>1, PagesCover DEF MapInv
  <2> QED BY <2>2
<1>3. Table(maps, p_space) /\ HeldAt(maps, M!Contents.space, M!Contents.stored)
  BY DEF MapInv, M!Contents
<1>4. got = <<>> /\ M!ReadsStored'
  BY <1>1 DEF MapInv, M!ReadsStored
<1>5. CASE ~(allocated < IO_SPACE_MAX /\ fits)
  <2>1. Table(maps, allocated)
    BY <1>2, <1>3, TableGrows
  <2> QED BY <1>1, <1>2, <1>4, <1>5, <2>1 DEF MapInv
<1>6. CASE allocated < IO_SPACE_MAX /\ fits
  <2> DEFINE t == maps \o new
             m == Len(maps) + 1
  <2>1. /\ Table(t, allocated) /\ m \in 1..Len(t) /\ t[m] = new[1]
        /\ \A n \in 1..Len(maps) : n \in 1..Len(t) /\ t[n] = maps[n]
        /\ new[1] \in Region /\ new[1].name = name /\ (name # "diskctl" => new[1].high - new[1].low = len - 1)
    BY <1>1, <1>6, DeviceEntered
  <2>2. PICK values \in M!Fresh(new[1]) : M!Become(M!After(M!Contents, new[1], values))
    BY <1>1, <1>6
  <2>3. maps' = t /\ state' = state
    BY <1>1, <1>6
  <2> HIDE DEF t, m, new
  <2>4. DOMAIN values \subseteq 0..new[1].high - new[1].low
    <3>1. CASE name \in {"vmem", "keyboard"}
      BY <2>1, <3>1 DEF M!Fresh, M!Zeros, M!Registers
    <3>2. CASE name = "vgactl"
      <4>1. WORD \in Nat /\ len = 2 * WORD /\ DOMAIN values = 0..WORD - 1
        BY <1>1, <2>1, <3>2, DevicesAssumption DEF M!Fresh, M!HasLen, M!MmioAssumption
      <4> QED BY <2>1, <3>2, <4>1
    <3>3. CASE name \notin {"vmem", "keyboard", "vgactl"}
      <4>1. values = <<>>
        BY <2>1, <3>3 DEF M!Fresh
      <4> QED BY <4>1
    <3> QED BY <3>1, <3>2, <3>3
  <2>5. HeldAt(t, M!Contents.space, M!Contents.stored)
    BY <1>3, <2>1 DEF HeldAt
  <2>6. HeldAt(t, M!After(M!Contents, t[m], values).space, M!After(M!Contents, t[m], values).stored)
    BY <2>1, <2>4, <2>5, StoreKeeps
  <2>7. HeldAt(t, space', stored')
    BY <2>1, <2>2, <2>6 DEF M!Become
  <2> QED BY <1>1, <1>2, <1>4, <2>1, <2>3, <2>7 DEF MapInv
<1> QED BY <1>5, <1>6

LEMMA StepMapInv == MapInv /\ [M!Next]_map => MapInv'
<1> SUFFICES ASSUME MapInv, [M!Next]_map PROVE MapInv'
  OBVIOUS
<1>1. ASSUME NEW i \in DOMAIN M!Names, NEW addr \in Places, NEW len \in Lens, M!init_device(i, addr, len)
      PROVE  MapInv'
  BY <1>1, DeviceStep
<1>2. CASE M!Start
  BY <1>2 DEF M!Start, MapInv, M!ReadsStored
<1>3. CASE M!vga_update_screen
  BY <1>3, SyncStep
<1>4. ASSUME NEW word \in Places, NEW lane \in 0..WORD - 1, NEW len \in {1, WORD},
             \/ M!mmio_read(word + lane, len)
             \/ M!check_bound(word + lane, len)
             \/ \E data \in [1..len -> Byte] : M!mmio_write(word + lane, data)
      PROVE  MapInv'
  <2>1. word + lane \in Nat
    BY DevicesAssumption DEF M!MmioAssumption
  <2>2. CASE M!mmio_read(word + lane, len)
    BY <2>1, <2>2, ReadStep
  <2>3. CASE M!check_bound(word + lane, len)
    BY <2>3 DEF M!check_bound, MapInv, M!ReadsStored
  <2>4. CASE \E data \in [1..len -> Byte] : M!mmio_write(word + lane, data)
    BY <2>1, <2>4, WriteStep
  <2> QED BY <1>4, <2>2, <2>3, <2>4
<1>5. CASE UNCHANGED map
  BY <1>5 DEF map, MapInv, M!ReadsStored
<1> QED BY <1>1, <1>2, <1>3, <1>4, <1>5 DEF M!Next

LEMMA MapApart == MapInv => M!RegionsApart /\ M!ReadsStored
<1> SUFFICES ASSUME MapInv PROVE M!RegionsApart
  BY DEF MapInv
<1>1. Table(maps, p_space) /\ DOMAIN maps = 1..Len(maps)
  BY DEF MapInv, Table
<1>2. \A i \in 1..Len(maps) : maps[i] \in Region /\ Sound(maps[i])
  BY <1>1 DEF Table
<1>3. \A i, j \in 1..Len(maps) :
        i # j => maps[i].high < maps[j].low \/ maps[j].high < maps[i].low
  <2> TAKE i, j \in 1..Len(maps)
  <2>1. i < j \/ j < i \/ i = j
    OBVIOUS
  <2> QED BY <1>1, <2>1 DEF Table, Apart
<1>4. \A i \in 1..Len(maps) : \A a \in maps[i].low..maps[i].high : ~M!in_pmem(a)
  BY <1>2 DEF Sound
<1> QED BY <1>1, <1>3, <1>4 DEF M!RegionsApart

-----------------------------------------------------------------------------
\* Each part of a behaviour of the devices keeps its own invariant.
LEMMA EachPart == [DevicesNext]_<<vars, clock, map, part>> => [C!Next]_clock /\ [M!Next]_map
BY DEF DevicesNext, map, clock

\* A call of __timer_uptime returns a time of the call but for the overflows
\* between its two loads, and until the first of them the ticks never go back
\* (rtc.c:8, timer.c).
THEOREM TimesReturned == DevicesSpec => TimesRight
<1>1. DevicesInit => ClockInv
  BY InitClockInv DEF DevicesInit
<1>2. ClockInv /\ [DevicesNext]_<<vars, clock, map, part>> => ClockInv'
  BY StepClockInv, EachPart
<1>3. ClockInv /\ [DevicesNext]_<<vars, clock, map, part>>
        => [C!Returned /\ C!FollowsUntilCarry]_clock
  BY ClockRight, EachPart
<1> QED BY <1>1, <1>2, <1>3, PTL DEF DevicesSpec, TimesRight

\* No address belongs to two devices or to a device and physical memory, and a
\* read returns the byte last stored at each of its addresses, by the program or
\* by the handler of the device that owns it (mmio.c, map.c and the handlers).
THEOREM MapRight == DevicesSpec => []DevicesApart
<1>1. DevicesInit => MapInv
  BY InitMapInv DEF DevicesInit
<1>2. MapInv /\ [DevicesNext]_<<vars, clock, map, part>> => MapInv'
  BY StepMapInv, EachPart
<1>3. MapInv => DevicesApart
  BY MapApart DEF DevicesApart
<1> QED BY <1>1, <1>2, <1>3, PTL DEF DevicesSpec
=============================================================================
