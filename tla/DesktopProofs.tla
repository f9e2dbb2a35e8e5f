---------------------------- MODULE DesktopProofs ----------------------------
(***************************************************************************)
(* The desktop, for every keyboard, screen, canvas, grid and session: the  *)
(* keyboard device is a queue, the canvas a picture, and the terminal shows*)
(* the line that it runs.                                                  *)
(***************************************************************************)
EXTENDS Desktop, Sequences, TLAPS

-----------------------------------------------------------------------------
(* The keyboard: the ring and what the program takes of it.                *)

\* Where the i-th pending code is.
Pos(i) == IF key_f + i - 1 < QueueLen THEN key_f + i - 1 ELSE key_f + i - 1 - QueueLen

\* The ring holds what was sent and not taken.
Stored ==
  ~dead => /\ Len(sent) = Len(taken) + Held
           /\ \A i \in 1..Held : key_queue[Pos(i)] = sent[Len(taken) + i]

Prefix == Len(taken) <= Len(sent) /\ \A i \in 1..Len(taken) : taken[i] = sent[i]

IInv == TypeOK /\ Stored /\ Prefix

LEMMA ModIdentity == ASSUME NEW M \in Nat \ {0}, NEW x \in 0..M - 1 PROVE x % M = x
  OBVIOUS
LEMMA ModOver == ASSUME NEW M \in Nat \ {0}, NEW x \in M..2 * M - 1 PROVE x % M = x - M
  OBVIOUS

LEMMA AdvanceIs ==
  ASSUME NEW i \in Slot
  PROVE  Advance(i) = (IF i = QueueLen - 1 THEN 0 ELSE i + 1) /\ Advance(i) \in Slot
<1> USE KeyAssumption DEF Slot
<1>0. QueueLen \in Nat \ {0}
  OBVIOUS
<1>1. CASE i = QueueLen - 1
  <2>1. i + 1 \in QueueLen..2 * QueueLen - 1
    BY <1>1
  <2>2. (i + 1) % QueueLen = (i + 1) - QueueLen
    BY <1>0, <2>1, ModOver
  <2> QED BY <1>1, <2>2 DEF Advance
<1>2. CASE i # QueueLen - 1
  <2>1. i + 1 \in 0..QueueLen - 1
    BY <1>2
  <2>2. (i + 1) % QueueLen = i + 1
    BY <1>0, <2>1, ModIdentity
  <2> QED BY <1>2, <2>1, <2>2 DEF Advance
<1> QED BY <1>1, <1>2

LEMMA PosIs ==
  ASSUME TypeOK, NEW i \in 1..QueueLen PROVE (key_f + i - 1) % QueueLen = Pos(i) /\ Pos(i) \in Slot
<1> USE KeyAssumption DEF Slot
<1> DEFINE x == key_f + i - 1
<1>0. QueueLen \in Nat \ {0} /\ x \in 0..2 * QueueLen - 1 /\ x \in Int
  BY DEF TypeOK
<1> HIDE DEF x
<1>1. CASE x < QueueLen
  <2>1. x % QueueLen = x
    BY <1>0, <1>1, ModIdentity
  <2> QED BY <1>0, <1>1, <2>1 DEF Pos, x
<1>2. CASE x >= QueueLen
  <2>1. x % QueueLen = x - QueueLen
    BY <1>0, <1>2, ModOver
  <2>2. x - QueueLen \in 0..QueueLen - 1
    BY <1>0, <1>2
  <2>3. Pos(i) = x - QueueLen
    <3>1. key_f \in Int /\ i \in Int /\ ~(key_f + i - 1 < QueueLen)
      BY <1>0, <1>2 DEF TypeOK, x
    <3> QED BY <3>1 DEF Pos, x
  <2>4. x % QueueLen = Pos(i) /\ Pos(i) \in Slot
    BY <2>1, <2>2, <2>3
  <2> QED BY <2>4 DEF x
<1> QED BY <1>0, <1>1, <1>2

LEMMA HeldRange == TypeOK => Held \in 0..QueueLen - 1 /\ (Held = 0 <=> Empty)
  BY KeyAssumption DEF TypeOK, Held, Slot, Empty

-----------------------------------------------------------------------------
(* The ring, operation by operation.                                       *)

LEMMA SendRing ==
  ASSUME TypeOK, NEW k \in Key, NEW down \in BOOLEAN, send_key(k, down)
  PROVE  LET code == k + (IF down THEN KEYDOWN_MASK ELSE 0) IN
         /\ code \in Code /\ sent' = Append(sent, code)
         /\ key_queue' \in [Slot -> Code \cup {0}] /\ key_r' \in Slot /\ key_f' = key_f
         /\ dead' = (Held = QueueLen - 1)
         /\ ~dead' => /\ Held' = Held + 1
                      /\ key_queue'[Pos(Held + 1)] = code
                      /\ \A i \in 1..Held : key_queue'[Pos(i)] = key_queue[Pos(i)]
<1> USE KeyAssumption DEF Slot
<1> DEFINE code == k + (IF down THEN KEYDOWN_MASK ELSE 0)
<1>1. code \in Code
  BY DEF Code, Key, KEYDOWN_MASK
<1>2. /\ key_queue \in [Slot -> Code \cup {0}] /\ key_f \in Slot /\ key_r \in Slot
      /\ Held \in 0..QueueLen - 1
  BY HeldRange DEF TypeOK
<1>3. /\ sent' = Append(sent, code) /\ key_f' = key_f
      /\ key_queue' = [key_queue EXCEPT ![key_r] = code]
      /\ key_r' = Advance(key_r) /\ dead' = (key_r' = key_f)
  BY DEF send_key, Overflows
<1>4. key_r' = (IF key_r = QueueLen - 1 THEN 0 ELSE key_r + 1) /\ key_r' \in Slot
  BY <1>2, <1>3, AdvanceIs
<1>5. (key_r' = key_f) = (Held = QueueLen - 1)
  BY <1>2, <1>4 DEF Held
<1>6. Held < QueueLen - 1 => Held' = Held + 1
  BY <1>2, <1>3, <1>4 DEF Held
<1>7. Pos(Held + 1) = key_r
  BY <1>2 DEF Pos, Held
<1>8. ASSUME NEW i \in 1..Held PROVE Pos(i) \in Slot /\ Pos(i) # key_r
  BY <1>2 DEF Pos, Held
<1> HIDE DEF code
<1>9. key_queue' \in [Slot -> Code \cup {0}]
  BY <1>1, <1>2, <1>3
<1>10. key_queue'[key_r] = code /\ \A i \in 1..Held : key_queue'[Pos(i)] = key_queue[Pos(i)]
  BY <1>2, <1>3, <1>8
<1>11. ~dead' => /\ Held' = Held + 1
                 /\ key_queue'[Pos(Held + 1)] = code
                 /\ \A i \in 1..Held : key_queue'[Pos(i)] = key_queue[Pos(i)]
  <2> SUFFICES ASSUME ~dead' PROVE Held' = Held + 1 /\ key_queue'[Pos(Held + 1)] = code
    BY <1>10
  <2>0. Held # QueueLen - 1
    BY <1>3, <1>5
  <2>1. Held < QueueLen - 1
    BY <1>2, <2>0
  <2> QED BY <1>6, <1>7, <1>10, <2>1
<1>12. dead' = (Held = QueueLen - 1)
  BY <1>3, <1>5
<1> QED BY <1>1, <1>3, <1>4, <1>9, <1>11, <1>12 DEF code

LEMMA TakeRing ==
  ASSUME TypeOK, key_dequeue, ~Empty
  PROVE  /\ key_f' \in Slot /\ Held > 0 /\ Held' = Held - 1
         /\ taken' = Append(taken, key_queue[Pos(1)]) /\ Oldest = key_queue[Pos(1)]
         /\ UNCHANGED <<key_queue, key_r>>
         /\ \A i \in 1..Held - 1 : Pos(i)' = Pos(i + 1)
<1> USE KeyAssumption DEF Slot
<1>1. key_f \in Slot /\ key_r \in Slot /\ Held \in 0..QueueLen - 1 /\ Held # 0
  BY HeldRange DEF TypeOK
<1>2. key_f' = Advance(key_f) /\ taken' = Append(taken, Oldest) /\ UNCHANGED <<key_queue, key_r>>
  BY DEF key_dequeue
<1>3. key_f' = (IF key_f = QueueLen - 1 THEN 0 ELSE key_f + 1) /\ key_f' \in Slot
  BY <1>1, <1>2, AdvanceIs
<1>4. Pos(1) = key_f
  BY <1>1 DEF Pos
<1>5. Held' = Held - 1
  BY <1>1, <1>2, <1>3 DEF Held, Empty
<1>6. ASSUME NEW i \in 1..Held - 1 PROVE Pos(i)' = Pos(i + 1)
  BY <1>1, <1>3 DEF Pos
<1> QED BY <1>1, <1>2, <1>3, <1>4, <1>5, <1>6 DEF Oldest

-----------------------------------------------------------------------------
(* The invariant.                                                          *)

LEMMA SentType == ASSUME NEW s \in Seq(Code), NEW c \in Code
                  PROVE  /\ Append(s, c) \in Seq(Code) /\ Len(Append(s, c)) = Len(s) + 1
                         /\ Append(s, c)[Len(s) + 1] = c
                         /\ \A i \in 1..Len(s) : Append(s, c)[i] = s[i]
  OBVIOUS

LEMMA ReturnType ==
  ASSUME NEW s, Return(s), Parsed(s) \in [ok : BOOLEAN, down : BOOLEAN, key : Key \cup {KEY_NONE}]
  PROVE  /\ text' \in Seq(Code) /\ reading' \in BOOLEAN
         /\ event' \in [ok : BOOLEAN, down : BOOLEAN, key : Key \cup {KEY_NONE}]
<1>1. <<>> \in Seq(Code)
  OBVIOUS
<1>2. text' = <<>> /\ reading' = FALSE /\ event' = Parsed(s)
  BY DEF Return
<1>3. reading' \in BOOLEAN
  BY <1>2
<1> QED BY <1>1, <1>2, <1>3

LEMMA CodeParts == ASSUME NEW c \in Code PROVE Keycode(c) \in Key /\ Keydown(c) \in BOOLEAN
<1>0. \A k \in Key : k \in Int /\ 0 < k /\ k < 32768
  BY KeyAssumption DEF Key, KEYDOWN_MASK
<1>1. CASE c \in Key
  <2>1. c % 32768 = c
    BY <1>0, <1>1
  <2> QED BY <1>1, <2>1 DEF Keycode, Keydown, KEYDOWN_MASK
<1>2. CASE c \notin Key
  <2>1. PICK k \in Key : c = k + 32768
    BY <1>2 DEF Code, KEYDOWN_MASK
  <2>2. (k + 32768) % 32768 = k
    BY <1>0
  <2> QED BY <2>1, <2>2 DEF Keycode, Keydown, KEYDOWN_MASK
<1> QED BY <1>1, <1>2

\* A code in the ring that has been sent is a code of a key.
LEMMA OldestIsCode ==
  ASSUME IInv, ~dead, ~Empty PROVE Oldest \in Code /\ Oldest = sent[Len(taken) + 1]
<1>1. Held \in 1..QueueLen - 1
  BY HeldRange, KeyAssumption DEF IInv
<1>2. Pos(1) = key_f
  BY KeyAssumption DEF Pos, IInv, TypeOK, Slot
<1>3. key_queue[Pos(1)] = sent[Len(taken) + 1] /\ Len(taken) + 1 \in 1..Len(sent)
  BY <1>1 DEF IInv, Stored, TypeOK
<1> QED BY <1>2, <1>3 DEF Oldest, IInv, TypeOK

LEMMA InitIInv == Init => IInv
<1> SUFFICES ASSUME Init PROVE IInv
  OBVIOUS
<1>1. 0 \in Slot /\ key_f = 0 /\ key_r = 0 /\ key_queue \in [Slot -> Code \cup {0}]
  BY KeyAssumption DEF Init, Slot
<1>2. sent = <<>> /\ taken = <<>> /\ <<>> \in Seq(Code) /\ Len(<<>>) = 0
  BY DEF Init
<1>3. event \in [ok : BOOLEAN, down : BOOLEAN, key : Key \cup {KEY_NONE}]
  BY DEF Init, None
<1>4. dead \in BOOLEAN /\ reading \in BOOLEAN
  BY DEF Init
<1>5. {sent, taken, text} \subseteq Seq(Code) /\ begun \in Nat
  BY DEF Init
<1>6. TypeOK
  BY <1>1, <1>3, <1>4, <1>5 DEF TypeOK
<1>7. Held = 0
  BY <1>1 DEF Held
<1> QED BY <1>2, <1>6, <1>7 DEF IInv, Stored, Prefix

LEMMA StepIInv == IInv /\ [Next]_vars => IInv'
<1> SUFFICES ASSUME IInv, [Next]_vars PROVE IInv'
  OBVIOUS
<1>0. TypeOK /\ Stored /\ Prefix
  BY DEF IInv
<1>1. ASSUME NEW k \in Key, NEW down \in BOOLEAN, send_key(k, down) PROVE IInv'
  <2> DEFINE code == k + (IF down THEN KEYDOWN_MASK ELSE 0)
  <2> HIDE DEF code
  <2>0. ~dead /\ UNCHANGED <<key_f, reading, text, event, taken, begun>>
    BY <1>1 DEF send_key
  <2>1. /\ code \in Code /\ sent' = Append(sent, code)
        /\ key_queue' \in [Slot -> Code \cup {0}] /\ key_r' \in Slot
        /\ dead' = (Held = QueueLen - 1)
        /\ ~dead' => /\ Held' = Held + 1
                     /\ key_queue'[Pos(Held + 1)] = code
                     /\ \A i \in 1..Held : key_queue'[Pos(i)] = key_queue[Pos(i)]
    BY <1>0, <1>1, SendRing DEF code
  <2>2. /\ sent' \in Seq(Code) /\ Len(sent') = Len(sent) + 1 /\ sent'[Len(sent) + 1] = code
        /\ \A i \in 1..Len(sent) : sent'[i] = sent[i]
    BY <1>0, <2>1, SentType DEF TypeOK
  <2>3. TypeOK'
    BY <1>0, <2>0, <2>1, <2>2 DEF TypeOK, Slot, Code, Key
  <2>4. Stored'
    <3> SUFFICES ASSUME ~dead'
                 PROVE  /\ Len(sent') = Len(taken) + Held'
                        /\ \A i \in 1..Held' : key_queue'[Pos(i)] = sent'[Len(taken) + i]
      BY <2>0 DEF Stored, Pos
    <3>1. Held \in Nat /\ Len(sent) = Len(taken) + Held /\ Len(taken) \in Nat
      BY <1>0, <2>0, HeldRange, KeyAssumption DEF Stored, TypeOK
    <3>2. ASSUME NEW i \in 1..Held' PROVE key_queue'[Pos(i)] = sent'[Len(taken) + i]
      <4>1. CASE i = Held + 1
        BY <2>1, <2>2, <3>1, <4>1
      <4>2. CASE i # Held + 1
        <5>1. i \in 1..Held /\ Len(taken) + i \in 1..Len(sent)
          BY <2>1, <3>1, <4>2
        <5> QED BY <1>0, <2>0, <2>1, <2>2, <5>1 DEF Stored
      <4> QED BY <4>1, <4>2
    <3>3. Len(sent') = Len(taken) + Held'
      BY <2>1, <2>2, <3>1
    <3>4. \A i \in 1..Held' : key_queue'[Pos(i)] = sent'[Len(taken) + i]
      BY ONLY <3>2
    <3> QED BY ONLY <3>3, <3>4
  <2>5. Prefix'
    <3>1. Len(taken) \in Nat /\ Len(sent) \in Nat /\ taken' = taken
      BY <1>0, <2>0 DEF TypeOK
    <3> QED BY <1>0, <2>2, <3>1 DEF Prefix
  <2> QED BY <2>3, <2>4, <2>5 DEF IInv
<1>2. CASE PollEvent
  <2>1. UNCHANGED <<ring, dead, sent, taken, event>> /\ reading' = TRUE /\ text' = <<>>
    BY <1>2 DEF PollEvent
  <2>2. begun' \in Nat
    BY <1>0, <1>2 DEF PollEvent, TypeOK
  <2> QED BY <1>0, <2>1, <2>2 DEF ring, IInv, TypeOK, Stored, Prefix, Pos, Held
<1>3. CASE Read
  <2>0. ~dead /\ key_dequeue /\ UNCHANGED <<dead, sent, begun>>
    BY <1>3 DEF Read
  <2>1. CASE Empty
    <3>1. UNCHANGED <<ring, taken>>
      BY <2>0, <2>1 DEF key_dequeue
    <3>2. Return(text)
      BY <1>3, <2>1 DEF Read
    <3>3. ASSUME text # <<>> PROVE text[1] \in Code
      BY <1>0, <3>3 DEF TypeOK
    <3>4. Parsed(text) \in [ok : BOOLEAN, down : BOOLEAN, key : Key \cup {KEY_NONE}]
      BY <3>3, CodeParts DEF Parsed, None
    <3>6. /\ text' \in Seq(Code) /\ reading' \in BOOLEAN
          /\ event' \in [ok : BOOLEAN, down : BOOLEAN, key : Key \cup {KEY_NONE}]
      BY <3>2, <3>4, ReturnType
    <3>7. TypeOK'
      BY <1>0, <2>0, <3>1, <3>6 DEF ring, TypeOK
    <3> QED BY <1>0, <2>0, <3>1, <3>7 DEF ring, IInv, Stored, Prefix, Pos, Held
  <2>2. CASE ~Empty
    <3>1. /\ key_f' \in Slot /\ Held > 0 /\ Held' = Held - 1
          /\ taken' = Append(taken, Oldest)
          /\ UNCHANGED <<key_queue, key_r>>
          /\ \A i \in 1..Held - 1 : Pos(i)' = Pos(i + 1)
      BY <1>0, <2>0, <2>2, TakeRing
    <3>2. Oldest \in Code /\ Oldest = sent[Len(taken) + 1]
      BY <2>0, <2>2, OldestIsCode
    <3>3. /\ taken' \in Seq(Code) /\ Len(taken') = Len(taken) + 1 /\ taken'[Len(taken) + 1] = Oldest
          /\ \A i \in 1..Len(taken) : taken'[i] = taken[i]
      BY <1>0, <3>1, <3>2, SentType DEF TypeOK
    <3> DEFINE got == Append(text, Oldest)
    <3>4. got \in Seq(Code) /\ got # <<>> /\ got[1] \in Code
      <4>1. text \in Seq(Code)
        BY <1>0 DEF TypeOK
      <4>2. got \in Seq(Code) /\ Len(got) = Len(text) + 1
        BY <3>2, <4>1
      <4>3. 1 \in 1..Len(got)
        BY <4>1, <4>2
      <4> QED BY <4>2, <4>3
    <3>5. \/ Return(got)
          \/ text' = got /\ UNCHANGED <<reading, event>>
      BY <1>3, <2>2 DEF Read
    <3> HIDE DEF got
    <3>6. Parsed(got) \in [ok : BOOLEAN, down : BOOLEAN, key : Key \cup {KEY_NONE}]
      BY <3>4, CodeParts DEF Parsed, None
    <3>7. /\ text' \in Seq(Code) /\ reading' \in BOOLEAN
          /\ event' \in [ok : BOOLEAN, down : BOOLEAN, key : Key \cup {KEY_NONE}]
      <4>1. CASE Return(got)
        BY <3>6, <4>1, ReturnType
      <4>2. CASE text' = got /\ UNCHANGED <<reading, event>>
        BY <1>0, <3>4, <4>2 DEF TypeOK
      <4> QED BY <3>5, <4>1, <4>2
    <3>8. TypeOK'
      BY <1>0, <2>0, <3>1, <3>3, <3>7 DEF TypeOK
    <3>9. Len(sent) = Len(taken) + Held /\ Held \in Nat /\ Len(taken) \in Nat
      BY <1>0, <2>0, HeldRange, KeyAssumption DEF Stored, TypeOK
    <3>10. ASSUME NEW i \in 1..Held - 1 PROVE key_queue'[Pos(i)'] = sent[Len(taken) + 1 + i]
      <4>1. i + 1 \in 1..Held /\ Len(taken) + (i + 1) = Len(taken) + 1 + i
        BY <3>9
      <4> QED BY <1>0, <2>0, <3>1, <4>1 DEF Stored
    <3>11. Stored'
      <4>1. Len(sent') = Len(taken') + Held'
        BY <2>0, <3>1, <3>3, <3>9
      <4>2. ASSUME NEW i \in 1..Held' PROVE key_queue'[Pos(i)'] = sent'[Len(taken') + i]
        BY <2>0, <3>1, <3>3, <3>10, <4>2
      <4> QED BY <4>1, <4>2 DEF Stored, Pos
    <3>12. Prefix'
      BY <1>0, <2>0, <3>1, <3>2, <3>3, <3>9 DEF Prefix
    <3> QED BY <3>8, <3>11, <3>12 DEF IInv
  <2> QED BY <2>1, <2>2
<1>4. CASE UNCHANGED vars
  BY <1>0, <1>4 DEF vars, ring, IInv, TypeOK, Stored, Prefix, Pos, Held
<1> QED BY <1>1, <1>2, <1>3, <1>4 DEF Next, Host, Program

-----------------------------------------------------------------------------
(* One fread.                                                              *)

\* What fread has got so far begins with the oldest event that was not taken
\* when it began.
Begun ==
  reading => /\ begun + Len(text) = Len(taken)
             /\ text # <<>> => text[1] = sent[begun + 1]

LEMMA StepBegun == IInv /\ Begun /\ [Next]_vars => Begun'
<1> SUFFICES ASSUME IInv, Begun, [Next]_vars PROVE Begun'
  OBVIOUS
<1>0. /\ {sent, taken, text} \subseteq Seq(Code) /\ begun \in Nat
      /\ Len(taken) \in Nat /\ Len(sent) \in Nat /\ Len(text) \in Nat /\ Len(taken) <= Len(sent)
  BY DEF IInv, TypeOK, Prefix
<1>1. ASSUME NEW k \in Key, NEW down \in BOOLEAN, send_key(k, down) PROVE Begun'
  <2>1. UNCHANGED <<reading, text, taken, begun>>
    BY <1>1 DEF send_key
  <2>2. PICK code : sent' = Append(sent, code)
    BY <1>1 DEF send_key
  <2>3. \A i \in 1..Len(sent) : sent'[i] = sent[i]
    BY <1>0, <2>2
  <2>4. reading /\ text # <<>> => begun + 1 \in 1..Len(sent)
    BY <1>0 DEF Begun
  <2> QED BY <2>1, <2>3, <2>4 DEF Begun
<1>2. CASE PollEvent
  <2>1. text' = <<>> /\ begun' = Len(taken) /\ taken' = taken
    BY <1>2 DEF PollEvent
  <2> QED BY <1>0, <2>1 DEF Begun
<1>3. CASE Read
  <2>1. ~dead /\ reading /\ key_dequeue /\ UNCHANGED <<dead, sent, begun>>
    BY <1>3 DEF Read
  <2>2. CASE ~reading'
    BY <2>2 DEF Begun
  <2>3. CASE reading'
    <3>1. ~Empty /\ text' = Append(text, Oldest)
      BY <1>3, <2>3 DEF Read, Return
    <3>2. Oldest \in Code /\ Oldest = sent[Len(taken) + 1]
      BY <2>1, <3>1, OldestIsCode
    <3>3. taken' = Append(taken, Oldest)
      BY <2>1, <3>1 DEF key_dequeue
    <3>4. Len(taken') = Len(taken) + 1 /\ Len(text') = Len(text) + 1
      BY <1>0, <3>1, <3>2, <3>3
    <3>5. text'[1] = sent[begun + 1]
      <4>1. CASE text = <<>>
        BY <1>0, <2>1, <3>1, <3>2, <4>1 DEF Begun
      <4>2. CASE text # <<>>
        BY <1>0, <2>1, <3>1, <3>2, <4>2 DEF Begun
      <4> QED BY <4>1, <4>2
    <3> QED BY <1>0, <2>1, <3>4, <3>5 DEF Begun
  <2> QED BY <2>2, <2>3
<1>4. CASE UNCHANGED vars
  BY <1>4 DEF vars, Begun
<1> QED BY <1>1, <1>2, <1>3, <1>4 DEF Next, Host, Program

\* The event of a poll is the first that was not taken when it began.
LEMMA ReadReports ==
  ASSUME IInv, Begun, Read, ~reading', event'.ok
  PROVE  begun < Len(sent) /\ EventOf(sent[begun + 1])'
<1> DEFINE got == IF Empty THEN text ELSE Append(text, Oldest)
<1>0. /\ {sent, taken, text} \subseteq Seq(Code) /\ begun \in Nat
      /\ Len(taken) \in Nat /\ Len(sent) \in Nat /\ Len(text) \in Nat /\ Len(taken) <= Len(sent)
  BY DEF IInv, TypeOK, Prefix
<1>1. ~dead /\ reading /\ UNCHANGED <<sent, begun>> /\ Return(got)
  BY DEF Read
<1>2. event' = Parsed(got) /\ Parsed(got).ok
  BY <1>1 DEF Return
<1>3. got # <<>> /\ event' = [ok |-> TRUE, down |-> Keydown(got[1]), key |-> Keycode(got[1])]
  BY <1>2 DEF Parsed, None
<1>4. got[1] = sent[begun + 1] /\ begun < Len(sent)
  <2>1. CASE text = <<>>
    <3>1. ~Empty /\ got = <<Oldest>> /\ begun = Len(taken)
      BY <1>0, <1>1, <1>3, <2>1 DEF Begun
    <3>2. Oldest = sent[Len(taken) + 1]
      BY <1>1, <3>1, OldestIsCode
    <3>3. Len(sent) = Len(taken) + Held /\ Held \in Nat /\ Held # 0
      BY <1>1, <3>1, HeldRange, KeyAssumption DEF IInv, Stored
    <3> QED BY <1>0, <3>1, <3>2, <3>3
  <2>2. CASE text # <<>>
    <3>1. text[1] = sent[begun + 1] /\ begun + Len(text) = Len(taken) /\ Len(text) > 0
      BY <1>0, <1>1, <2>2 DEF Begun
    <3>2. got[1] = text[1]
      BY <1>0, <2>2
    <3> QED BY <1>0, <3>1, <3>2
  <2> QED BY <2>1, <2>2
<1> QED BY <1>1, <1>3, <1>4 DEF EventOf

-----------------------------------------------------------------------------
(* The queue.                                                              *)

LEMMA InitFifo == Init => Fifo!Init
<1> SUFFICES ASSUME Init PROVE Fifo!Init
  OBVIOUS
<1>1. Held = 0 /\ dead = FALSE
  BY DEF Init, Held
<1>2. Pending = [i \in 1..0 |-> key_queue[(key_f + i - 1) % QueueLen]]
  BY <1>1 DEF Pending
<1>3. Pending = <<>>
  BY <1>2
<1> QED BY <1>1, <1>3 DEF Fifo!Init

\* The pending codes, by their places.
PendingAt == Pending = [i \in 1..Held |-> key_queue[Pos(i)]] /\ Held \in 0..QueueLen - 1

LEMMA PendingIs == TypeOK /\ ~dead => PendingAt
<1> SUFFICES ASSUME TypeOK, ~dead PROVE PendingAt
  OBVIOUS
<1>1. Held \in 0..QueueLen - 1
  BY HeldRange
<1>2. \A i \in 1..Held : (key_f + i - 1) % QueueLen = Pos(i)
  BY <1>1, PosIs, KeyAssumption
<1> QED BY <1>1, <1>2 DEF Pending, PendingAt

LEMMA PendingIsNext == TypeOK' /\ ~dead' => PendingAt'
  BY PendingIs, PTL

\* The pending codes are codes of keys.
LEMMA PendingType ==
  ASSUME IInv, ~dead PROVE Pending \in Seq(Code) /\ Len(Pending) = Held
<1>1. Pending = [i \in 1..Held |-> key_queue[Pos(i)]] /\ Held \in Nat
  BY PendingIs, KeyAssumption DEF IInv, PendingAt
<1>2. ASSUME NEW i \in 1..Held PROVE key_queue[Pos(i)] \in Code
  <2>1. Len(taken) + i \in 1..Len(sent)
    BY <1>1 DEF IInv, Stored, TypeOK
  <2> QED BY <2>1 DEF IInv, Stored, TypeOK
<1> QED BY <1>1, <1>2

LEMMA StepFifo == IInv /\ [Next]_vars => [Fifo!Next]_(Fifo!vars)
<1> SUFFICES ASSUME IInv, [Next]_vars PROVE [Fifo!Next]_(Fifo!vars)
  OBVIOUS
<1>0. TypeOK /\ IInv' /\ TypeOK'
  BY StepIInv DEF IInv
<1>1. ASSUME NEW k \in Key, NEW down \in BOOLEAN, send_key(k, down)
      PROVE  [Fifo!Next]_(Fifo!vars)
  <2> DEFINE code == k + (IF down THEN KEYDOWN_MASK ELSE 0)
  <2> HIDE DEF code
  <2>0. ~dead
    BY <1>1 DEF send_key
  <2>1. /\ code \in Code /\ key_f' = key_f
        /\ dead' = (Held = QueueLen - 1)
        /\ ~dead' => /\ Held' = Held + 1
                     /\ key_queue'[Pos(Held + 1)] = code
                     /\ \A i \in 1..Held : key_queue'[Pos(i)] = key_queue[Pos(i)]
    BY <1>0, <1>1, SendRing DEF code
  <2>2. /\ Pending = [i \in 1..Held |-> key_queue[Pos(i)]] /\ Held \in 0..QueueLen - 1
        /\ Pending \in Seq(Code) /\ Len(Pending) = Held
    BY <1>0, <2>0, PendingIs, PendingType DEF PendingAt
  <2>3. CASE dead'
    <3>1. Held = QueueLen - 1
      BY <2>1, <2>3
    <3>2. Pending' = <<>>
      BY <2>3 DEF Pending
    <3>3. dead' = TRUE
      BY <1>0, <2>3 DEF TypeOK
    <3> QED BY <2>0, <2>2, <3>1, <3>2, <3>3 DEF Fifo!Next, Fifo!Overflow
  <2>4. CASE ~dead'
    <3>1. Pending' = [i \in 1..Held + 1 |-> key_queue'[Pos(i)']]
      BY <1>0, <2>1, <2>4, PendingIsNext DEF PendingAt
    <3>2. \A i : Pos(i)' = Pos(i)
      BY <2>1 DEF Pos
    <3>3. Held < QueueLen - 1
      <4>1. Held # QueueLen - 1
        BY <2>1, <2>4
      <4> QED BY <2>2, <4>1, KeyAssumption
    <3>4. Pending' = Append(Pending, code)
      BY <2>1, <2>2, <2>4, <3>1, <3>2
    <3>5. dead' = dead
      BY <1>0, <2>0, <2>4 DEF TypeOK
    <3> QED BY <2>0, <2>1, <2>2, <3>3, <3>4, <3>5 DEF Fifo!Next, Fifo!Accept
  <2> QED BY <2>3, <2>4
<1>2. CASE PollEvent \/ UNCHANGED vars
  <2>1. key_queue' = key_queue /\ key_f' = key_f /\ key_r' = key_r /\ dead' = dead
    BY <1>2 DEF PollEvent, vars, ring
  <2>2. Held' = Held
    BY <2>1 DEF Held
  <2>3. Pending' = Pending
    BY <2>1, <2>2 DEF Pending
  <2> QED BY <2>1, <2>3 DEF Fifo!vars
<1>3. CASE Read
  <2>0. ~dead /\ key_dequeue /\ dead' = dead
    BY <1>3 DEF Read
  <2>1. CASE Empty
    BY <2>0, <2>1 DEF key_dequeue, ring, Fifo!vars, Pending, Held
  <2>2. CASE ~Empty
    <3>1. /\ Held > 0 /\ Held' = Held - 1 /\ key_queue' = key_queue
          /\ \A i \in 1..Held - 1 : Pos(i)' = Pos(i + 1)
      BY <1>0, <2>0, <2>2, TakeRing
    <3>2. /\ Pending = [i \in 1..Held |-> key_queue[Pos(i)]] /\ Held \in Nat
          /\ Pending \in Seq(Code) /\ Len(Pending) = Held
      BY <1>0, <2>0, PendingIs, PendingType, KeyAssumption DEF PendingAt
    <3>3. Pending' = [i \in 1..Held - 1 |-> key_queue'[Pos(i)']]
      BY <1>0, <2>0, <3>1, PendingIsNext DEF PendingAt
    <3>4. Pending' = Tail(Pending) /\ Pending # <<>>
      BY <3>1, <3>2, <3>3
    <3> QED BY <2>0, <3>4 DEF Fifo!Next, Fifo!Take
  <2> QED BY <2>1, <2>2
<1> QED BY <1>1, <1>2, <1>3 DEF Next, Host, Program

-----------------------------------------------------------------------------
\* The ring and the program's buffers keep their types.
THEOREM TypeCorrect == Spec => []TypeOK
<1>1. IInv => TypeOK
  BY DEF IInv
<1> QED BY <1>1, InitIInv, StepIInv, PTL DEF Spec

\* The keyboard device is a queue of QueueLen - 1 codes that stops the
\* simulator when it overflows (keyboard.c:37-50).
THEOREM RefinesFifo == Spec => IsFifo
<1>1. Init => Fifo!Init
  BY InitFifo
<1>2. IInv /\ [Next]_vars => [Fifo!Next]_(Fifo!vars)
  BY StepFifo
<1> QED BY <1>1, <1>2, InitIInv, StepIInv, PTL DEF Spec, IsFifo, Fifo!Spec

\* The program gets the keys in the order in which the host sent them.
THEOREM KeysInOrder == Spec => []InOrder
<1>1. IInv => InOrder
  <2> SUFFICES ASSUME IInv PROVE InOrder
    OBVIOUS
  <2>1. sent \in Seq(Code) /\ taken \in Seq(Code) /\ Len(taken) <= Len(sent)
        /\ \A i \in 1..Len(taken) : taken[i] = sent[i]
    BY DEF IInv, TypeOK, Prefix
  <2>2. taken = SubSeq(sent, 1, Len(taken))
    BY <2>1
  <2> QED BY <2>1, <2>2 DEF InOrder
<1> QED BY <1>1, InitIInv, StepIInv, PTL DEF Spec

(* Rows of an array.                                                       *)

LEMMA Below ==
  ASSUME NEW W \in Nat, NEW x \in Int, NEW y \in Int, x < y
  PROVE  x * W + W <= y * W
<1>1. PICK d \in Nat : y = x + 1 + d
  <2>1. y - x - 1 \in Nat /\ y = x + 1 + (y - x - 1)
    OBVIOUS
  <2> QED BY <2>1
<1>2. y * W = x * W + W + d * W
  BY <1>1
<1>3. d * W \in Nat
  BY <1>1
<1>4. x * W \in Int
  OBVIOUS
<1> HIDE <1>1
<1> QED BY <1>2, <1>3, <1>4

\* The place a column and a row stand for is in the array, and theirs alone.
LEMMA IndexRange ==
  ASSUME NEW W \in Nat, NEW H \in Nat, NEW a \in 0..W - 1, NEW b \in 0..H - 1
  PROVE  b * W + a \in 0..W * H - 1 /\ b * W \in Nat /\ b * W + W <= H * W
<1>1. b * W + W <= H * W /\ H * W = W * H
  BY Below
<1>2. b * W \in Nat
  OBVIOUS
<1>3. W * H \in Int
  OBVIOUS
<1> QED BY <1>1, <1>2, <1>3

LEMMA IndexUnique ==
  ASSUME NEW W \in Nat, NEW a \in 0..W - 1, NEW c \in 0..W - 1, NEW b \in Int, NEW d \in Int,
         b * W + a = d * W + c
  PROVE  a = c /\ b = d
<1>0. b * W \in Int /\ d * W \in Int
  OBVIOUS
<1>1. CASE b < d
  <2>1. b * W + W <= d * W
    BY <1>1, Below
  <2> QED BY <1>0, <2>1
<1>2. CASE d < b
  <2>1. d * W + W <= b * W
    BY <1>2, Below
  <2> QED BY <1>0, <2>1
<1>3. CASE b = d
  BY <1>0, <1>3
<1> QED BY <1>1, <1>2, <1>3

LEMMA Division ==
  ASSUME NEW b \in Nat \ {0}, NEW a \in Nat
  PROVE  /\ a \div b \in Nat /\ a % b \in 0..b - 1
         /\ a = b * (a \div b) + (a % b)
OBVIOUS

LEMMA IndexOf ==
  ASSUME NEW W \in Nat \ {0}, NEW a \in 0..W - 1, NEW b \in Nat
  PROVE  (b * W + a) % W = a /\ (b * W + a) \div W = b
<1> DEFINE i == b * W + a
<1>1. i \in Nat
  <2>1. b * W \in Nat
    OBVIOUS
  <2> QED BY <2>1
<1> HIDE DEF i
<1>2. i \div W \in Nat /\ i % W \in 0..W - 1 /\ i = W * (i \div W) + (i % W)
  BY <1>1, Division
<1> DEFINE q == i \div W
<1> DEFINE r == i % W
<1>3. q \in Nat /\ r \in 0..W - 1 /\ i = W * q + r
  BY <1>2
<1> HIDE DEF q, r
<1>4. W * q = q * W
  BY <1>3
<1>5. q * W + r = b * W + a
  BY <1>3, <1>4 DEF i
<1>6. r = a /\ q = b
  BY <1>3, <1>5, IndexUnique
<1> QED BY <1>6 DEF q, r, i

\* The event that a poll returns is the oldest that no earlier poll has taken,
\* pressed or released as the host said, for every keyboard, ring and buffer:
\* the ring, the fread that collects and the parser keep it in front of all that
\* the host sends meanwhile (keyboard.c:37-50, event.c:17-35).
THEOREM FirstIsReported == Spec => FirstReported
<1>1. Init => Begun
  BY DEF Init, Begun
<1>2. IInv /\ Begun /\ [Next]_vars
        => [Read /\ ~reading' /\ event'.ok =>
             begun < Len(sent) /\ EventOf(sent[begun + 1])']_vars
  BY ReadReports
<1> QED BY <1>1, <1>2, InitIInv, StepIInv, StepBegun, PTL DEF Spec, FirstReported

-----------------------------------------------------------------------------
(* Surfaces.                                                               *)

IsSurface(s, size) ==
  /\ s.w \in 1..size.w /\ s.h \in 1..size.h
  /\ s.pixels \in [C!Array(s) -> Color] /\ s.memory \in [C!Array(s) -> Color]
  /\ s = [w |-> s.w, h |-> s.h, pixels |-> s.pixels, memory |-> s.memory]

\* What the fields of Canvas hold.
CanvasInv ==
  /\ screen \in Screens /\ pc \in {"none", "app", "row", "sync"}
  /\ vmem \in [C!Array(screen) -> Color]
  /\ IF pc = "none" THEN surface = C!Nothing ELSE IsSurface(surface, screen)
  /\ drawn = C!Nothing \/ (pc \in {"row", "sync"} /\ IsSurface(drawn, surface))
  /\ pc \in {"row", "sync"} => row \in 0..C!source.h - 1

LEMMA ScreenSize ==
  ASSUME NEW z \in Screens PROVE z.w \in Nat \ {0} /\ z.h \in Nat \ {0} /\ z = [w |-> z.w, h |-> z.h]
<1>1. z \in [w : Nat \ {0}, h : Nat \ {0}]
  BY DesktopAssumption DEF C!CanvasAssumption
<1> QED BY <1>1

LEMMA ImageIs ==
  ASSUME NEW s \in Images
  PROVE  s.w \in Nat \ {0} /\ s.h \in Nat \ {0} /\ s.pixels \in [C!Array(s) -> Color]
  BY DesktopAssumption DEF C!CanvasAssumption

\* A surface made of a size that fits.
LEMMA SurfaceIs ==
  ASSUME NEW size, NEW on, size.w \in 1..on.w, size.h \in 1..on.h,
         NEW pixels \in [C!Array(size) -> Color], NEW memory \in [C!Array(size) -> Color]
  PROVE  LET s == C!Surface(size, pixels, memory) IN
         IsSurface(s, on) /\ s.w = size.w /\ s.h = size.h /\ s.pixels = pixels /\ s.memory = memory
<1> DEFINE s == C!Surface(size, pixels, memory)
<1>1. s = [w |-> size.w, h |-> size.h, pixels |-> pixels, memory |-> memory]
  BY DEF C!Surface
<1>2. s.w = size.w /\ s.h = size.h /\ s.pixels = pixels /\ s.memory = memory
  BY <1>1
<1> HIDE DEF s
<1>3. C!Array(s) = C!Array(size)
  BY <1>2 DEF C!Array
<1>4. IsSurface(s, on)
  BY <1>1, <1>2, <1>3 DEF IsSurface
<1> QED BY <1>2, <1>4 DEF s

LEMMA NothingIs ==
  /\ C!Pictured(C!Nothing) = <<>>
  /\ \A s, size : IsSurface(s, size) => s # C!Nothing /\ s.w # 0
<1>1. C!Nothing.w = 0
  BY DEF C!Nothing, C!Surface, C!Whole
<1> QED BY <1>1 DEF C!Pictured, IsSurface

\* The canvas an application opens.
LEMMA OpenedSize ==
  ASSUME NEW z \in Screens, NEW size \in CanvasSizes[z]
  PROVE  LET s == C!Opened(size, z) IN s.w \in 1..z.w /\ s.h \in 1..z.h /\ s = [w |-> s.w, h |-> s.h]
<1>1. CASE size = C!Whole
  BY <1>1, ScreenSize DEF C!Opened
<1>2. CASE size # C!Whole
  <2>1. size \in C!Size /\ size.w \in 1..z.w /\ size.h \in 1..z.h
    BY <1>2, DesktopAssumption DEF C!CanvasAssumption
  <2> QED BY <1>2, <2>1 DEF C!Opened, C!Size
<1> QED BY <1>1, <1>2

\* Painting keeps the size and the memory, a written line the size and the pixels.
LEMMA Repainted ==
  ASSUME NEW s, NEW size, IsSurface(s, size), NEW pixels \in [C!Array(s) -> Color]
  PROVE  LET t == [s EXCEPT !.pixels = pixels] IN
         IsSurface(t, size) /\ t.w = s.w /\ t.h = s.h /\ t.pixels = pixels /\ t.memory = s.memory
<1>1. s.memory \in [C!Array(s) -> Color] /\ s.w \in 1..size.w /\ s.h \in 1..size.h
  BY DEF IsSurface
<1>2. [s EXCEPT !.pixels = pixels] = C!Surface(s, pixels, s.memory)
  BY DEF IsSurface, C!Surface
<1> QED BY <1>1, <1>2, SurfaceIs

LEMMA Rewritten ==
  ASSUME NEW s, NEW size, IsSurface(s, size), NEW p \in C!Array(s)
  PROVE  LET t == [s EXCEPT !.memory = [@ EXCEPT ![p] = s.pixels[p]]] IN
         /\ IsSurface(t, size) /\ t.w = s.w /\ t.h = s.h /\ t.pixels = s.pixels
         /\ t.memory = [s.memory EXCEPT ![p] = s.pixels[p]]
<1> DEFINE new == [s.memory EXCEPT ![p] = s.pixels[p]]
<1>1. s.pixels \in [C!Array(s) -> Color] /\ s.w \in 1..size.w /\ s.h \in 1..size.h
  BY DEF IsSurface
<1>2. new \in [C!Array(s) -> Color]
  BY DEF IsSurface
<1>3. [s EXCEPT !.memory = [@ EXCEPT ![p] = s.pixels[p]]] = [s EXCEPT !.memory = new]
  OBVIOUS
<1> HIDE DEF new
<1>4. [s EXCEPT !.memory = new] = C!Surface(s, s.pixels, new)
  BY DEF IsSurface, C!Surface
<1>5. LET t == C!Surface(s, s.pixels, new) IN
      IsSurface(t, size) /\ t.w = s.w /\ t.h = s.h /\ t.pixels = s.pixels /\ t.memory = new
  BY <1>1, <1>2, SurfaceIs
<1> QED BY <1>3, <1>4, <1>5 DEF new

\* What DrawRow draws.
LEMMA SourceIs ==
  ASSUME CanvasInv, pc \in {"row", "sync"}
  PROVE  /\ IsSurface(surface, screen) /\ IsSurface(C!source, surface) /\ row \in 0..C!source.h - 1
         /\ screen.w \in Nat \ {0} /\ screen.h \in Nat \ {0}
         /\ surface.w \in 1..screen.w /\ surface.h \in 1..screen.h
         /\ C!source.w \in 1..surface.w /\ C!source.h \in 1..surface.h
         /\ C!source.memory \in [C!Array(C!source) -> Color]
<1>1. screen.w \in Nat \ {0} /\ screen.h \in Nat \ {0} /\ IsSurface(surface, screen)
  BY ScreenSize DEF CanvasInv
<1>2. surface.w \in 1..screen.w /\ surface.h \in 1..screen.h
  BY <1>1 DEF IsSurface
<1>3. IsSurface(surface, surface)
  BY <1>1, <1>2 DEF IsSurface
<1>4. IsSurface(C!source, surface) /\ row \in 0..C!source.h - 1
  BY <1>3 DEF CanvasInv, C!source
<1> QED BY <1>1, <1>2, <1>4 DEF IsSurface

\* The color of a pixel, by column and row.
LEMMA PlaceIs ==
  ASSUME NEW s, s.w \in Nat, s.h \in Nat, NEW array \in [C!Array(s) -> Color],
         NEW a \in 0..s.w - 1, NEW b \in 0..s.h - 1
  PROVE  b * s.w + a \in C!Array(s) /\ array[b * s.w + a] \in Color
<1>1. b * s.w + a \in 0..s.w * s.h - 1
  BY IndexRange
<1> QED BY <1>1 DEF C!Array

-----------------------------------------------------------------------------
(* The row that DrawRow draws.                                             *)

LEMMA Half == ASSUME NEW n \in Nat PROVE n \div 2 \in 0..n
  OBVIOUS

\* What is drawn is in the middle of the screen.
LEMMA Centred ==
  ASSUME CanvasInv, pc = "row"
  PROVE  /\ screen.w \in Nat \ {0} /\ screen.h \in Nat \ {0} /\ C!source.w \in Nat \ {0}
         /\ C!CanvasX \in 0..screen.w - C!source.w
         /\ C!CanvasY + row \in 0..screen.h - 1
<1>1. screen.w \in Nat \ {0} /\ screen.h \in Nat \ {0}
  BY SourceIs
<1>2. surface.w \in 1..screen.w /\ surface.h \in 1..screen.h
  BY SourceIs
<1>3. C!source.w \in 1..surface.w /\ C!source.h \in 1..surface.h /\ row \in 0..C!source.h - 1
  BY SourceIs
<1>4. screen.w - surface.w \in Nat /\ screen.h - surface.h \in Nat
  BY <1>1, <1>2
<1>5. C!CanvasX \in 0..screen.w - surface.w /\ C!CanvasY \in 0..screen.h - surface.h
  BY <1>4, Half DEF C!CanvasX, C!CanvasY
<1> QED BY <1>1, <1>2, <1>3, <1>5

\* The offset that NDL_DrawRect seeks is turned back into the same place, and
\* the whole row is written, as memory holds it.
LEMMA RowDrawn ==
  ASSUME CanvasInv, C!DrawRow
  PROVE  LET first == (C!CanvasY + row) * screen.w + C!CanvasX IN
         vmem' = [p \in C!Array(screen) |->
                    IF p \in first..first + C!source.w - 1
                    THEN C!source.memory[row * C!source.w + (p - first)] ELSE vmem[p]]
<1> DEFINE W == screen.w
           x == C!CanvasX
           y == C!CanvasY + row
           n == C!source.w
           held == C!source.memory
           first == y * W + x
           at == C!Sought(first * 4)
           len == IF at + n * 4 > C!FbSize THEN C!FbSize - at ELSE n * 4
           pixel == [i \in 0..n - 1 |-> held[row * n + i]]
<1>0. pc = "row"
  BY DEF C!DrawRow
<1>1. /\ W \in Nat \ {0} /\ screen.h \in Nat \ {0} /\ n \in Nat \ {0}
      /\ x \in 0..W - n /\ y \in 0..screen.h - 1
  BY <1>0, Centred
<1>2. C!Drawn((at \div 4) % W, (at \div 4) \div W, len \div 4, pixel)
  BY DEF C!DrawRow
<1> HIDE DEF W, x, y, n, held, pixel
<1>3. y * W \in Nat /\ y * W + W <= W * screen.h
  <2>1. 0 \in 0..W - 1
    BY <1>1
  <2> QED BY <1>1, <2>1, IndexRange
<1>4. W * screen.h \in Nat /\ C!FbSize = (W * screen.h) * 4
  BY <1>1 DEF C!FbSize, W
<1>5. first \in Nat /\ first + n <= W * screen.h
  BY <1>1, <1>3
<1> HIDE DEF first
<1>6. at = first * 4
  <2>1. first * 4 <= C!FbSize /\ first * 4 \in Int /\ C!FbSize \in Int
    BY <1>1, <1>4, <1>5
  <2>2. ~(first * 4 > C!FbSize)
    BY <2>1
  <2> QED BY <2>2 DEF C!Sought
<1>7. len = n * 4
  BY <1>1, <1>4, <1>5, <1>6
<1> HIDE DEF at, len
<1>8. at \div 4 = first /\ len \div 4 = n
  BY <1>1, <1>5, <1>6, <1>7
<1>9. (at \div 4) % W = x /\ (at \div 4) \div W = y
  <2>1. x \in 0..W - 1 /\ y \in Nat
    BY <1>1
  <2>2. first % W = x /\ first \div W = y
    BY <1>1, <2>1, IndexOf DEF first
  <2> QED BY <1>8, <2>2
<1>10. C!Drawn(x, y, n, pixel)
  BY <1>2, <1>8, <1>9
<1>11. (IF x + n > W THEN W - x ELSE n) = n /\ y < screen.h
  BY <1>1
<1>12. vmem' = [p \in C!Array(screen) |-> IF p \in first..first + n - 1 THEN pixel[p - first] ELSE vmem[p]]
  BY <1>10, <1>11 DEF C!Drawn, W, first
<1>13. ASSUME NEW p \in C!Array(screen), p \in first..first + n - 1
       PROVE  pixel[p - first] = held[row * n + (p - first)]
  <2>1. p - first \in 0..n - 1
    BY <1>1, <1>5, <1>13
  <2> QED BY <2>1 DEF pixel
<1>14. vmem' = [p \in C!Array(screen) |->
                  IF p \in first..first + n - 1 THEN held[row * n + (p - first)] ELSE vmem[p]]
  BY <1>12, <1>13
<1> QED BY <1>14 DEF first, x, y, n, held, W

-----------------------------------------------------------------------------
(* The fields of Canvas.                                                   *)

LEMMA InitCanvas == C!Init => CanvasInv
<1> SUFFICES ASSUME C!Init PROVE CanvasInv
  OBVIOUS
<1>1. \E c \in Color : TRUE
  BY DesktopAssumption DEF C!CanvasAssumption
<1>2. (CHOOSE c \in Color : TRUE) \in Color
  BY <1>1
<1>3. vmem \in [C!Array(screen) -> Color]
  BY <1>2 DEF C!Init
<1> QED BY <1>3 DEF C!Init, CanvasInv

\* The pixels of a surface after a blit, by place and by column and row.
BlitPixels(src, x, y) ==
  LET from == (0..src.h - 1) \X (0..src.w - 1)
      to(ij) == (y + ij[1]) * surface.w + x + ij[2]
  IN  [p \in C!Array(surface) |->
        IF \E ij \in from : to(ij) = p
        THEN LET ij == CHOOSE k \in from : to(k) = p IN src.pixels[ij[1] * src.w + ij[2]]
        ELSE surface.pixels[p]]

LEMMA Blitted ==
  ASSUME CanvasInv, pc = "app", NEW src \in Images, NEW x \in Nat, NEW y \in Nat,
         x + src.w <= surface.w, y + src.h <= surface.h
  PROVE  /\ BlitPixels(src, x, y) \in [C!Array(surface) -> Color]
         /\ \A a \in 0..surface.w - 1, b \in 0..surface.h - 1 :
              BlitPixels(src, x, y)[b * surface.w + a] =
                IF a - x \in 0..src.w - 1 /\ b - y \in 0..src.h - 1
                THEN src.pixels[(b - y) * src.w + (a - x)] ELSE surface.pixels[b * surface.w + a]
<1> DEFINE W == surface.w
           from == (0..src.h - 1) \X (0..src.w - 1)
           to(ij) == (y + ij[1]) * W + x + ij[2]
           of(ij) == src.pixels[ij[1] * src.w + ij[2]]
           at(p) == CHOOSE k \in from : to(k) = p
           px == BlitPixels(src, x, y)
<1>1. /\ IsSurface(surface, screen) /\ W \in Nat \ {0} /\ surface.h \in Nat \ {0}
  BY ScreenSize DEF CanvasInv, IsSurface
<1>2. src.w \in Nat \ {0} /\ src.h \in Nat \ {0} /\ src.pixels \in [C!Array(src) -> Color]
  BY ImageIs
<1>3. px = [p \in C!Array(surface) |-> IF \E ij \in from : to(ij) = p THEN of(at(p)) ELSE surface.pixels[p]]
  BY DEF BlitPixels
<1> HIDE DEF px
<1>4. ASSUME NEW k \in from PROVE k[1] \in 0..src.h - 1 /\ k[2] \in 0..src.w - 1 /\ k = <<k[1], k[2]>>
  OBVIOUS
<1>5. ASSUME NEW k \in from PROVE of(k) \in Color
  <2>1. k[1] \in 0..src.h - 1 /\ k[2] \in 0..src.w - 1
    BY <1>4
  <2> QED BY <1>2, <2>1, PlaceIs
<1> HIDE DEF of, to, from
<1>6. ASSUME NEW p, \E ij \in from : to(ij) = p PROVE at(p) \in from /\ to(at(p)) = p
  BY <1>6
<1> HIDE DEF at
<1>7. px \in [C!Array(surface) -> Color]
  <2>1. surface.pixels \in [C!Array(surface) -> Color]
    BY <1>1 DEF IsSurface
  <2> QED BY <1>3, <1>5, <1>6, <2>1
<1>8. ASSUME NEW a \in 0..W - 1, NEW b \in 0..surface.h - 1
      PROVE  px[b * W + a] = IF a - x \in 0..src.w - 1 /\ b - y \in 0..src.h - 1
                             THEN src.pixels[(b - y) * src.w + (a - x)] ELSE surface.pixels[b * W + a]
  <2> DEFINE p == b * W + a
  <2>1. p \in C!Array(surface)
    BY <1>1, IndexRange DEF C!Array
  <2>2. ASSUME NEW k \in from PROVE to(k) = p <=> k[1] = b - y /\ k[2] = a - x
    <3>1. k[1] \in 0..src.h - 1 /\ k[2] \in 0..src.w - 1
      BY <1>4
    <3>2. x + k[2] \in 0..W - 1 /\ y + k[1] \in Nat /\ b \in Nat
      BY <1>1, <1>2, <3>1
    <3>3. to(k) = (y + k[1]) * W + (x + k[2])
      <4>1. (y + k[1]) * W \in Nat
        BY <1>1, <3>2
      <4> QED BY <3>1, <4>1 DEF to
    <3>4. ASSUME to(k) = p PROVE x + k[2] = a /\ y + k[1] = b
      <4>1. (y + k[1]) * W + (x + k[2]) = b * W + a
        BY <3>3, <3>4
      <4>2. y + k[1] \in Int /\ b \in Int /\ W \in Nat
        BY <1>1, <3>2
      <4> DEFINE c == x + k[2]
                 d == y + k[1]
      <4>3. W \in Nat /\ c \in 0..W - 1 /\ a \in 0..W - 1 /\ b \in Int /\ d \in Int /\ d * W + c = b * W + a
        BY <3>2, <4>1, <4>2
      <4> HIDE DEF c, d, W, p
      <4>4. c = a /\ d = b
        BY <4>3, IndexUnique
      <4> QED BY <4>4 DEF c, d
    <3>5. x + k[2] = a /\ y + k[1] = b => to(k) = p
      BY <3>3
    <3> QED BY <3>1, <3>4, <3>5
  <2>3. CASE a - x \in 0..src.w - 1 /\ b - y \in 0..src.h - 1
    <3> DEFINE k == <<b - y, a - x>>
    <3>1. k \in from /\ k[1] = b - y /\ k[2] = a - x
      BY <2>3 DEF from
    <3>2. to(k) = p
      BY <2>2, <3>1
    <3>3. \E ij \in from : to(ij) = p
      BY <3>1, <3>2
    <3>4. at(p) \in from /\ to(at(p)) = p
      BY <1>6, <3>3
    <3>5. at(p)[1] = b - y /\ at(p)[2] = a - x
      BY <2>2, <3>4
    <3>6. px[p] = of(at(p))
      BY <1>3, <2>1, <3>3
    <3> QED BY <2>3, <3>5, <3>6 DEF of
  <2>4. CASE ~(a - x \in 0..src.w - 1 /\ b - y \in 0..src.h - 1)
    <3>1. ~\E ij \in from : to(ij) = p
      BY <1>4, <2>2, <2>4
    <3>2. px[p] = surface.pixels[p]
      BY <1>3, <2>1, <3>1
    <3> QED BY <2>4, <3>2
  <2> QED BY <2>3, <2>4
<1> QED BY <1>7, <1>8 DEF px

\* What the pixels become when something is painted, the memory when a line is
\* written back, and the frame buffer when a row is drawn.
LEMMA PaintedCanvas ==
  ASSUME CanvasInv, NEW pixels \in [C!Array(surface) -> Color], C!Painted(pixels)
  PROVE  /\ CanvasInv' /\ IsSurface(surface, screen) /\ IsSurface(surface', screen)
         /\ surface'.w = surface.w /\ surface'.h = surface.h
         /\ surface'.pixels = pixels /\ surface'.memory = surface.memory
<1>1. /\ pc = "app" /\ surface' = [surface EXCEPT !.pixels = pixels]
      /\ UNCHANGED <<screen, pc, drawn, row, offset, vmem, sync, unseen>>
  BY DEF C!Painted
<1>2. IsSurface(surface, screen) /\ drawn = C!Nothing
  BY <1>1 DEF CanvasInv
<1>3. /\ IsSurface(surface', screen)
      /\ surface'.w = surface.w /\ surface'.h = surface.h
      /\ surface'.pixels = pixels /\ surface'.memory = surface.memory
  BY <1>1, <1>2, Repainted
<1>4. CanvasInv'
  BY <1>1, <1>2, <1>3 DEF CanvasInv, IsSurface, C!Array
<1> QED BY <1>2, <1>3, <1>4

\* A line that is written back is one of the surface or one of the image.
LEMMA WrittenBack ==
  ASSUME CanvasInv, NEW p, C!WriteBack(p)
  PROVE  /\ UNCHANGED <<screen, pc, row, vmem>>
         /\ \/ /\ pc # "none" /\ IsSurface(surface, screen) /\ p \in C!Array(surface) /\ UNCHANGED drawn
               /\ surface' = [surface EXCEPT !.memory = [@ EXCEPT ![p] = surface.pixels[p]]]
            \/ /\ pc \in {"row", "sync"} /\ drawn # C!Nothing /\ IsSurface(drawn, surface)
               /\ p \in C!Array(drawn) /\ UNCHANGED surface
               /\ drawn' = [drawn EXCEPT !.memory = [@ EXCEPT ![p] = drawn.pixels[p]]]
<1>1. C!Array(C!Nothing) = {}
  BY DEF C!Nothing, C!Surface, C!Whole, C!Array
<1>2. UNCHANGED <<screen, pc, row, vmem>>
  BY DEF C!WriteBack
<1>3. CASE /\ p \in C!Array(surface) /\ UNCHANGED drawn
           /\ surface' = [surface EXCEPT !.memory = [@ EXCEPT ![p] = surface.pixels[p]]]
  <2>1. pc # "none" /\ IsSurface(surface, screen)
    BY <1>1, <1>3 DEF CanvasInv
  <2> QED BY <1>2, <1>3, <2>1
<1>4. CASE /\ p \in C!Array(drawn) /\ UNCHANGED surface
           /\ drawn' = [drawn EXCEPT !.memory = [@ EXCEPT ![p] = drawn.pixels[p]]]
  <2>1. drawn # C!Nothing
    BY <1>1, <1>4
  <2>2. pc \in {"row", "sync"} /\ IsSurface(drawn, surface)
    BY <2>1 DEF CanvasInv
  <2> QED BY <1>2, <1>4, <2>1, <2>2
<1> QED BY <1>3, <1>4 DEF C!WriteBack

LEMMA WrittenCanvas ==
  ASSUME CanvasInv, NEW p, C!WriteBack(p)
  PROVE  /\ CanvasInv' /\ C!source'.h = C!source.h
         /\ (drawn = C!Nothing <=> drawn' = C!Nothing)
<1>0. UNCHANGED <<screen, pc, row, vmem>>
  BY WrittenBack
<1>1. CASE /\ pc # "none" /\ IsSurface(surface, screen) /\ p \in C!Array(surface) /\ UNCHANGED drawn
           /\ surface' = [surface EXCEPT !.memory = [@ EXCEPT ![p] = surface.pixels[p]]]
  <2>1. IsSurface(surface', screen) /\ surface'.w = surface.w /\ surface'.h = surface.h
    BY <1>1, Rewritten
  <2>2. IsSurface(drawn, surface) => IsSurface(drawn', surface')
    BY <1>1, <2>1 DEF IsSurface
  <2>3. C!source'.h = C!source.h
    BY <1>1, <2>1 DEF C!source
  <2>4. IsSurface(surface, screen)' /\ (IsSurface(drawn, surface) => IsSurface(drawn, surface)')
    BY <1>0, <2>1, <2>2 DEF IsSurface, C!Array
  <2>5. (vmem \in [C!Array(screen) -> Color])' <=> (vmem \in [C!Array(screen) -> Color])
    BY <1>0 DEF C!Array
  <2>6. (drawn = C!Nothing)' <=> drawn = C!Nothing
    BY <1>1 DEF C!Nothing, C!Surface, C!Whole
  <2>7. CanvasInv'
    BY <1>0, <1>1, <2>3, <2>4, <2>5, <2>6 DEF CanvasInv
  <2> QED BY <1>1, <2>3, <2>7
<1>2. CASE /\ pc \in {"row", "sync"} /\ drawn # C!Nothing /\ IsSurface(drawn, surface)
           /\ p \in C!Array(drawn) /\ UNCHANGED surface
           /\ drawn' = [drawn EXCEPT !.memory = [@ EXCEPT ![p] = drawn.pixels[p]]]
  <2>1. IsSurface(drawn', surface) /\ drawn'.w = drawn.w /\ drawn'.h = drawn.h
    BY <1>2, Rewritten
  <2>2. drawn' # C!Nothing
    BY <2>1, NothingIs
  <2>3. C!source'.h = C!source.h
    BY <1>2, <2>1, <2>2 DEF C!source
  <2>4. (IsSurface(surface, screen) => IsSurface(surface, screen)') /\ IsSurface(drawn, surface)'
    BY <1>0, <1>2, <2>1 DEF IsSurface, C!Array
  <2>5. (vmem \in [C!Array(screen) -> Color])' <=> (vmem \in [C!Array(screen) -> Color])
    BY <1>0 DEF C!Array
  <2>7. CanvasInv'
    BY <1>0, <1>2, <2>3, <2>4, <2>5 DEF CanvasInv
  <2> QED BY <1>2, <2>2, <2>3, <2>7
<1> QED BY <1>1, <1>2, WrittenBack

LEMMA DrawnCanvas ==
  ASSUME CanvasInv, C!DrawRow PROVE CanvasInv'
<1> DEFINE n == C!source.w
           held == C!source.memory
           first == (C!CanvasY + row) * screen.w + C!CanvasX
           new == [p \in C!Array(screen) |->
                     IF p \in first..first + n - 1 THEN held[row * n + (p - first)] ELSE vmem[p]]
<1>0. pc = "row" /\ pc' = "sync" /\ UNCHANGED <<screen, surface, drawn, row>>
  BY DEF C!DrawRow, C!app
<1>1. vmem' = new
  BY RowDrawn
<1>2. /\ screen.w \in Nat \ {0} /\ n \in Nat \ {0} /\ C!CanvasX \in Nat /\ C!CanvasY + row \in Nat
  BY <1>0, Centred
<1>3. first \in Nat
  <2>1. (C!CanvasY + row) * screen.w \in Nat
    BY <1>2
  <2> QED BY <1>2, <2>1
<1> HIDE DEF first
<1>4. ASSUME NEW p \in C!Array(screen), p \in first..first + n - 1
      PROVE  held[row * n + (p - first)] \in Color
  <2>1. p - first \in 0..n - 1
    BY <1>2, <1>3, <1>4
  <2>2. C!source.h \in Nat /\ row \in 0..C!source.h - 1 /\ held \in [C!Array(C!source) -> Color]
    BY <1>0, SourceIs
  <2> QED BY <1>2, <2>1, <2>2, PlaceIs
<1>5. vmem \in [C!Array(screen) -> Color]
  BY DEF CanvasInv
<1>6. new \in [C!Array(screen) -> Color]
  BY <1>4, <1>5
<1> HIDE DEF new
<1>7. vmem' \in [C!Array(screen) -> Color]'
  BY <1>0, <1>1, <1>6 DEF C!Array
<1> QED BY <1>0, <1>7 DEF CanvasInv, IsSurface, C!Array, C!source, C!Nothing, C!Surface

\* An image that an application shows, whatever of it has been written back.
LEMMA ShownImage ==
  ASSUME CanvasInv, pc = "app", NEW s \in Images, NEW memory \in [C!Array(s) -> Color],
         s.w <= surface.w, s.h <= surface.h
  PROVE  LET t == C!Surface(s, s.pixels, memory) IN
         IsSurface(t, surface) /\ t.w = s.w /\ t.h = s.h /\ t.pixels = s.pixels /\ t.memory = memory
<1>1. IsSurface(surface, screen) /\ surface.w \in Nat /\ surface.h \in Nat
  BY ScreenSize DEF CanvasInv, IsSurface
<1>2. s.w \in 1..surface.w /\ s.h \in 1..surface.h /\ s.pixels \in [C!Array(s) -> Color]
  BY <1>1, ImageIs
<1> QED BY <1>2, SurfaceIs

LEMMA ShownCanvas ==
  ASSUME CanvasInv, NEW image, C!UpdateRect(image), image = C!Nothing \/ IsSurface(image, surface)
  PROVE  CanvasInv' /\ C!source'.h \in Nat \ {0}
<1>1. pc = "app" /\ pc' = "row" /\ drawn' = image /\ row' = 0 /\ UNCHANGED <<screen, surface, vmem>>
  BY DEF C!UpdateRect
<1>2. IsSurface(surface, screen)
  BY <1>1 DEF CanvasInv
<1>3. C!source' = IF image = C!Nothing THEN surface ELSE image
  BY <1>1 DEF C!source, C!Nothing, C!Surface, C!Whole
<1>4. C!source'.h \in Nat \ {0}
  BY <1>2, <1>3 DEF IsSurface
<1>5. row' \in 0..C!source'.h - 1
  BY <1>1, <1>4
<1>6. IsSurface(surface, screen)' /\ (IsSurface(image, surface) => IsSurface(drawn, surface)')
  BY <1>1, <1>2 DEF IsSurface, C!Array
<1>7. (drawn = C!Nothing)' <=> image = C!Nothing
  BY <1>1 DEF C!Nothing, C!Surface, C!Whole
<1>8. (vmem \in [C!Array(screen) -> Color])' <=> (vmem \in [C!Array(screen) -> Color])
  BY <1>1 DEF C!Array
<1>9. CanvasInv'
  BY <1>1, <1>5, <1>6, <1>7, <1>8 DEF CanvasInv
<1> QED BY <1>4, <1>9

LEMMA StepCanvas == CanvasInv /\ [C!Next]_(C!vars) => CanvasInv'
<1> SUFFICES ASSUME CanvasInv, [C!Next]_(C!vars) PROVE CanvasInv'
  OBVIOUS
<1>1. ASSUME NEW size \in CanvasSizes[screen], C!SetVideoMode(size) PROVE CanvasInv'
  <2> DEFINE canvas_ == C!Opened(size, screen)
  <2>1. /\ pc = "none" /\ pc' = "app" /\ UNCHANGED <<screen, drawn, row, vmem>>
        /\ \E pixels, memory \in [C!Array(canvas_) -> Color] : surface' = C!Surface(canvas_, pixels, memory)
    BY <1>1 DEF C!SetVideoMode
  <2>2. canvas_.w \in 1..screen.w /\ canvas_.h \in 1..screen.h
    BY <1>1, OpenedSize DEF CanvasInv
  <2> HIDE DEF canvas_
  <2>3. IsSurface(surface', screen)
    BY <2>1, <2>2, SurfaceIs
  <2> QED BY <2>1, <2>3 DEF CanvasInv, IsSurface, C!Array
<1>2. ASSUME NEW c \in Color, C!FillRect(c) PROVE CanvasInv'
  BY <1>2, PaintedCanvas DEF C!FillRect
<1>3. ASSUME NEW src \in Images, NEW x \in 0..screen.w - 1, NEW y \in 0..screen.h - 1,
             x + src.w <= surface.w, y + src.h <= surface.h, C!BlitSurface(src, x, y)
      PROVE  CanvasInv'
  <2>1. C!Painted(BlitPixels(src, x, y)) /\ pc = "app"
    BY <1>3 DEF C!BlitSurface, BlitPixels, C!Painted
  <2>2. BlitPixels(src, x, y) \in [C!Array(surface) -> Color]
    BY <1>3, <2>1, Blitted
  <2> QED BY <2>1, <2>2, PaintedCanvas
<1>4. CASE C!UpdateRect(C!Nothing)
  BY <1>4, ShownCanvas
<1>5. ASSUME NEW s \in Images, NEW memory \in [C!Array(s) -> Color], s.w <= surface.w, s.h <= surface.h,
             C!UpdateRect(C!Surface(s, s.pixels, memory))
      PROVE  CanvasInv'
  <2>1. pc = "app"
    BY <1>5 DEF C!UpdateRect
  <2>2. IsSurface(C!Surface(s, s.pixels, memory), surface)
    BY <1>5, <2>1, ShownImage
  <2> QED BY <1>5, <2>2, ShownCanvas
<1>6. CASE C!execve
  BY <1>6 DEF C!execve, CanvasInv, C!Array, C!Nothing, C!Surface, C!Whole
<1>7. CASE C!DrawRow
  BY <1>7, DrawnCanvas
<1>8. CASE C!Sync
  <2>1. pc = "sync" /\ UNCHANGED <<screen, surface, vmem>>
    BY <1>8 DEF C!Sync
  <2>2. \/ row + 1 < C!source.h /\ pc' = "row" /\ row' = row + 1 /\ UNCHANGED drawn
        \/ pc' = "app" /\ drawn' = C!Nothing
    BY <1>8 DEF C!Sync
  <2>3. IsSurface(surface, screen) /\ row \in 0..C!source.h - 1 /\ C!source.h \in Nat
    BY <2>1, SourceIs
  <2>4. CASE row + 1 < C!source.h /\ pc' = "row" /\ row' = row + 1 /\ UNCHANGED drawn
    <3>1. C!source' = C!source
      BY <2>1, <2>4 DEF C!source, C!Nothing, C!Surface, C!Whole
    <3>2. row' \in 0..C!source'.h - 1
      BY <2>3, <2>4, <3>1
    <3> QED BY <2>1, <2>3, <2>4, <3>2 DEF CanvasInv, IsSurface, C!Array, C!Nothing, C!Surface, C!Whole
  <2>5. CASE pc' = "app" /\ drawn' = C!Nothing
    BY <2>1, <2>3, <2>5 DEF CanvasInv, IsSurface, C!Array, C!Nothing, C!Surface, C!Whole
  <2> QED BY <2>2, <2>4, <2>5
<1>9. CASE C!vga_update_screen \/ UNCHANGED C!vars
  BY <1>9 DEF C!vga_update_screen, C!vars, C!app, CanvasInv, IsSurface, C!Array, C!source, C!Nothing, C!Surface, C!Whole
<1>10. ASSUME NEW p \in C!Array(screen), C!WriteBack(p) PROVE CanvasInv'
  BY <1>10, WrittenCanvas
<1> QED BY <1>1, <1>2, <1>3, <1>4, <1>5, <1>6, <1>7, <1>8, <1>9, <1>10 DEF C!Next

-----------------------------------------------------------------------------
(* Arrays as pictures.                                                     *)

Pic == C!Pictured(surface)
Display == [at |-> screen, color |-> C!Gridded(screen, vmem)]
Showing == IF C!RowsLeft = 0 THEN <<>> ELSE C!Pictured(drawn)

LEMMA PairIs ==
  ASSUME NEW m, NEW n, NEW p \in (0..m) \X (0..n)
  PROVE  p[1] \in 0..m /\ p[2] \in 0..n /\ p = <<p[1], p[2]>>
  OBVIOUS

LEMMA GriddedIs ==
  ASSUME NEW s, s.w \in Nat, s.h \in Nat, NEW array \in [C!Array(s) -> Color]
  PROVE  /\ C!Gridded(s, array) \in [(0..s.w - 1) \X (0..s.h - 1) -> Color]
         /\ \A a \in 0..s.w - 1, b \in 0..s.h - 1 :
              C!Gridded(s, array)[<<a, b>>] = array[b * s.w + a]
<1> DEFINE G == (0..s.w - 1) \X (0..s.h - 1)
           grid == C!Gridded(s, array)
<1>1. grid = [p \in G |-> array[p[2] * s.w + p[1]]]
  BY DEF C!Gridded
<1>2. ASSUME NEW p \in G PROVE array[p[2] * s.w + p[1]] \in Color
  <2>1. p[1] \in 0..s.w - 1 /\ p[2] \in 0..s.h - 1
    BY PairIs
  <2> QED BY <2>1, PlaceIs
<1>3. ASSUME NEW a \in 0..s.w - 1, NEW b \in 0..s.h - 1 PROVE grid[<<a, b>>] = array[b * s.w + a]
  <2>1. <<a, b>> \in G /\ <<a, b>>[1] = a /\ <<a, b>>[2] = b
    OBVIOUS
  <2> QED BY <1>1, <2>1
<1> HIDE DEF grid
<1>4. grid \in [G -> Color]
  BY <1>1, <1>2
<1> QED BY <1>3, <1>4 DEF grid

\* The picture of a surface.
LEMMA PicturedIs ==
  ASSUME NEW s, NEW size, IsSurface(s, size), size.w \in Nat, size.h \in Nat
  PROVE  LET p == C!Pictured(s)
             G == (0..s.w - 1) \X (0..s.h - 1) IN
         /\ p # <<>> /\ p = [at |-> p.at, color |-> p.color, stored |-> p.stored]
         /\ p.at = [w |-> s.w, h |-> s.h] /\ p.at.w = s.w /\ p.at.h = s.h /\ C!P!Grid(p.at) = G
         /\ p.color \in [G -> Color] /\ p.stored \in [G -> Color]
         /\ p.color = C!Gridded(s, s.pixels) /\ p.stored = C!Gridded(s, s.memory)
<1> DEFINE at == [w |-> s.w, h |-> s.h]
           color == C!Gridded(s, s.pixels)
           stored == C!Gridded(s, s.memory)
           p == C!Pictured(s)
           G == (0..s.w - 1) \X (0..s.h - 1)
<1>1. s.w \in Nat \ {0} /\ s.h \in Nat
      /\ s.pixels \in [C!Array(s) -> Color] /\ s.memory \in [C!Array(s) -> Color]
  BY DEF IsSurface
<1>2. at.w = s.w /\ at.h = s.h
  OBVIOUS
<1>3. p = [at |-> at, color |-> color, stored |-> stored]
  BY <1>1 DEF C!Pictured
<1>4. color \in [G -> Color] /\ stored \in [G -> Color]
  BY <1>1, GriddedIs
<1> HIDE DEF at, color, stored, p
<1>5. p # <<>> /\ p.at = at /\ p.color = color /\ p.stored = stored
  BY <1>3
<1>6. C!P!Grid(p.at) = G
  BY <1>2, <1>5 DEF C!P!Grid
<1> QED BY <1>2, <1>3, <1>4, <1>5, <1>6 DEF at, color, stored, p

LEMMA PicIs == Pic' = C!Pictured(surface')
  BY DEF Pic, C!Pictured, C!Gridded

\* The picture of an application's surface, and the display.
LEMMA SurfacePictured ==
  ASSUME CanvasInv, pc # "none"
  PROVE  /\ Pic # <<>> /\ Pic = [at |-> Pic.at, color |-> Pic.color, stored |-> Pic.stored]
         /\ Pic.at.w = surface.w /\ Pic.at.h = surface.h
         /\ C!P!Grid(Pic.at) = (0..surface.w - 1) \X (0..surface.h - 1)
         /\ \A a \in 0..surface.w - 1, b \in 0..surface.h - 1 : Pic.color[<<a, b>>] = surface.pixels[b * surface.w + a]
<1>1. IsSurface(surface, screen) /\ screen.w \in Nat /\ screen.h \in Nat
  BY ScreenSize DEF CanvasInv
<1>2. /\ Pic # <<>> /\ Pic = [at |-> Pic.at, color |-> Pic.color, stored |-> Pic.stored]
      /\ Pic.at.w = surface.w /\ Pic.at.h = surface.h
  BY <1>1, PicturedIs DEF Pic
<1>3. C!P!Grid(Pic.at) = (0..surface.w - 1) \X (0..surface.h - 1)
  BY <1>2 DEF C!P!Grid
<1>4. Pic.color = C!Gridded(surface, surface.pixels)
  BY <1>1, PicturedIs DEF Pic
<1>5. surface.w \in Nat /\ surface.h \in Nat /\ surface.pixels \in [C!Array(surface) -> Color]
  BY <1>1 DEF IsSurface
<1> QED BY <1>2, <1>3, <1>4, <1>5, GriddedIs

LEMMA DisplayIs ==
  ASSUME CanvasInv
  PROVE  /\ Display = [at |-> Display.at, color |-> Display.color] /\ Display.at = screen
         /\ C!P!Grid(Display.at) = (0..screen.w - 1) \X (0..screen.h - 1)
         /\ Display.color \in [(0..screen.w - 1) \X (0..screen.h - 1) -> Color]
         /\ Display.color = C!Gridded(screen, vmem)
         /\ \A a \in 0..screen.w - 1, b \in 0..screen.h - 1 :
              Display.color[<<a, b>>] = vmem[b * screen.w + a]
<1> DEFINE color == C!Gridded(screen, vmem)
<1>1. screen.w \in Nat /\ screen.h \in Nat /\ vmem \in [C!Array(screen) -> Color]
  BY ScreenSize DEF CanvasInv
<1>2. /\ color \in [(0..screen.w - 1) \X (0..screen.h - 1) -> Color]
      /\ \A a \in 0..screen.w - 1, b \in 0..screen.h - 1 : color[<<a, b>>] = vmem[b * screen.w + a]
  BY <1>1, GriddedIs
<1> HIDE DEF color
<1>3. Display = [at |-> screen, color |-> color]
  BY DEF Display, color
<1>4. Display.at = screen /\ Display.color = color
  BY <1>3
<1> QED BY <1>2, <1>3, <1>4 DEF C!P!Grid, color

LEMMA NoRows ==
  /\ pc \in {"none", "app"} => C!RowsLeft = 0
  /\ pc = "row" => C!RowsLeft = C!source.h - row
  /\ pc = "sync" => C!RowsLeft = C!source.h - row - 1
  BY DEF C!RowsLeft

\* What does not change.
LEMMA SamePic == ASSUME surface' = surface PROVE Pic' = Pic
  BY DEF Pic, C!Pictured, C!Gridded
LEMMA SameDisplay == ASSUME screen' = screen, vmem' = vmem PROVE Display' = Display
  BY DEF Display, C!Gridded
LEMMA SameShowing ==
  ASSUME drawn' = drawn, C!RowsLeft' = C!RowsLeft PROVE Showing' = Showing
  BY DEF Showing, C!Pictured, C!Gridded
LEMMA NothingShown ==
  ASSUME pc \in {"none", "app"}, pc' \in {"none", "app"}
  PROVE  C!RowsLeft = 0 /\ C!RowsLeft' = 0 /\ Showing' = Showing
<1>1. C!RowsLeft = 0
  BY NoRows
<1>2. C!RowsLeft' = 0
  BY DEF C!RowsLeft
<1> QED BY <1>1, <1>2 DEF Showing

-----------------------------------------------------------------------------
(* Steps of Canvas as steps of Picture.                                    *)

PictureStep == C!P!Next \/ UNCHANGED C!P!vars

LEMMA Stutters ==
  ASSUME Pic' = Pic, Display' = Display, Showing' = Showing, C!RowsLeft' = C!RowsLeft
  PROVE  PictureStep
  BY DEF PictureStep, C!P!vars, Pic, Display, Showing

\* Painting the array paints the picture.
LEMMA PaintsPicture ==
  ASSUME CanvasInv, NEW pixels \in [C!Array(surface) -> Color], C!Painted(pixels), NEW area, NEW color,
         \A a \in 0..surface.w - 1, b \in 0..surface.h - 1 :
           pixels[b * surface.w + a] = IF <<a, b>> \in area THEN color[<<a, b>>] ELSE Pic.color[<<a, b>>]
  PROVE  C!RowsLeft = 0 /\ Pic # <<>> /\ C!P!Paint(area, color)
<1> DEFINE G == (0..surface.w - 1) \X (0..surface.h - 1)
           new == [p \in G |-> IF p \in area THEN color[p] ELSE Pic.color[p]]
<1>0. /\ pc = "app" /\ pc' = pc
      /\ UNCHANGED <<screen, drawn, row, offset, vmem, sync, unseen>>
  BY DEF C!Painted
<1>1. /\ IsSurface(surface, screen) /\ IsSurface(surface', screen)
      /\ surface'.w = surface.w /\ surface'.h = surface.h
      /\ surface'.pixels = pixels /\ surface'.memory = surface.memory
  BY PaintedCanvas
<1>2. screen.w \in Nat /\ screen.h \in Nat
  BY ScreenSize DEF CanvasInv
<1>3. /\ Pic # <<>> /\ Pic = [at |-> Pic.at, color |-> Pic.color, stored |-> Pic.stored]
      /\ Pic.at = [w |-> surface.w, h |-> surface.h] /\ C!P!Grid(Pic.at) = G
      /\ Pic.stored = C!Gridded(surface, surface.memory)
  BY <1>1, <1>2, PicturedIs DEF Pic
<1>4. /\ Pic' = [at |-> Pic'.at, color |-> Pic'.color, stored |-> Pic'.stored]
      /\ Pic'.at = [w |-> surface'.w, h |-> surface'.h]
      /\ Pic'.color = C!Gridded(surface', surface'.pixels) /\ Pic'.stored = C!Gridded(surface', surface'.memory)
  BY <1>1, <1>2, PicturedIs, PicIs
<1>5. Pic'.color = [p \in G |-> pixels[p[2] * surface.w + p[1]]] /\ Pic'.stored = Pic.stored /\ Pic'.at = Pic.at
  BY <1>1, <1>3, <1>4 DEF C!Gridded
<1>6. ASSUME NEW p \in G PROVE pixels[p[2] * surface.w + p[1]] = new[p]
  <2>1. p[1] \in 0..surface.w - 1 /\ p[2] \in 0..surface.h - 1 /\ p = <<p[1], p[2]>>
    BY PairIs
  <2>2. pixels[p[2] * surface.w + p[1]] =
          IF <<p[1], p[2]>> \in area THEN color[<<p[1], p[2]>>] ELSE Pic.color[<<p[1], p[2]>>]
    BY <2>1
  <2> QED BY <2>1, <2>2
<1>7. Pic'.color = new
  BY <1>5, <1>6
<1> HIDE DEF new
<1>8. Pic' = [Pic EXCEPT !.color = new]
  BY <1>3, <1>4, <1>5, <1>7
<1>9. Display' = Display /\ Showing' = Showing /\ C!RowsLeft = 0 /\ C!RowsLeft' = 0
  BY <1>0, SameDisplay, NothingShown
<1>10. Pic' = [Pic EXCEPT !.color = [p \in C!P!Grid(Pic.at) |-> IF p \in area THEN color[p] ELSE Pic.color[p]]]
  BY <1>3, <1>8 DEF new
<1>11. C!P!Paint(area, color)
  BY <1>9, <1>10 DEF C!P!Paint, Pic, Display, Showing
<1> QED BY <1>3, <1>9, <1>11

\* SDL_FillRect
LEMMA FillStep ==
  ASSUME CanvasInv, NEW c \in Color, C!FillRect(c) PROVE PictureStep
<1> DEFINE pixels == [p \in C!Array(surface) |-> c]
           G == (0..surface.w - 1) \X (0..surface.h - 1)
           color == [p \in C!P!Grid(Pic.at) |-> c]
<1>0. pc = "app" /\ C!Painted(pixels)
  BY DEF C!FillRect, C!Painted
<1>1. pixels \in [C!Array(surface) -> Color] /\ surface.w \in Nat /\ surface.h \in Nat
  BY <1>0, ScreenSize DEF CanvasInv, IsSurface
<1>2. C!P!Grid(Pic.at) = G
  BY <1>0, SurfacePictured
<1>3. ASSUME NEW a \in 0..surface.w - 1, NEW b \in 0..surface.h - 1
      PROVE  pixels[b * surface.w + a] = IF <<a, b>> \in G THEN color[<<a, b>>] ELSE Pic.color[<<a, b>>]
  <2>1. b * surface.w + a \in C!Array(surface)
    BY <1>1, PlaceIs
  <2>2. <<a, b>> \in G
    OBVIOUS
  <2> QED BY <1>2, <2>1, <2>2
<1> HIDE DEF pixels, color, G
<1>4. C!RowsLeft = 0 /\ Pic # <<>> /\ C!P!Paint(G, color)
  BY <1>0, <1>1, <1>3, PaintsPicture
<1>5. C!P!Fill(c)
  BY <1>2, <1>4 DEF C!P!Fill, color, Pic
<1> QED BY <1>4, <1>5 DEF PictureStep, C!P!Next, Pic

\* SDL_BlitSurface
LEMMA BlitStep ==
  ASSUME CanvasInv, NEW src \in Images, NEW x \in 0..screen.w - 1, NEW y \in 0..screen.h - 1,
         x + src.w <= surface.w, y + src.h <= surface.h, C!BlitSurface(src, x, y)
  PROVE  PictureStep
<1> DEFINE pixels == BlitPixels(src, x, y)
           image == C!Painting(src)
           area == {<<x + p[1], y + p[2]>> : p \in C!P!Grid(image.at)}
           color == [p \in area |-> image.color[<<p[1] - x, p[2] - y>>]]
<1>0. pc = "app" /\ C!Painted(pixels)
  BY DEF C!BlitSurface, C!Painted, BlitPixels
<1>1. surface.w \in Nat /\ surface.h \in Nat
  BY <1>0, ScreenSize DEF CanvasInv, IsSurface
<1>2. src.w \in Nat \ {0} /\ src.h \in Nat \ {0} /\ src.pixels \in [C!Array(src) -> Color]
  BY ImageIs
<1>3. /\ pixels \in [C!Array(surface) -> Color]
      /\ \A a \in 0..surface.w - 1, b \in 0..surface.h - 1 :
           pixels[b * surface.w + a] =
             IF a - x \in 0..src.w - 1 /\ b - y \in 0..src.h - 1
             THEN src.pixels[(b - y) * src.w + (a - x)] ELSE surface.pixels[b * surface.w + a]
  BY <1>0, Blitted
<1>4. Pic.at.w = surface.w /\ Pic.at.h = surface.h
      /\ \A a \in 0..surface.w - 1, b \in 0..surface.h - 1 : Pic.color[<<a, b>>] = surface.pixels[b * surface.w + a]
  BY <1>0, SurfacePictured
<1>5. image.at = [w |-> src.w, h |-> src.h] /\ image.color = C!Gridded(src, src.pixels)
  BY DEF C!Painting
<1>6. /\ image.at.w = src.w /\ image.at.h = src.h
      /\ C!P!Grid(image.at) = (0..src.w - 1) \X (0..src.h - 1)
      /\ \A a \in 0..src.w - 1, b \in 0..src.h - 1 : image.color[<<a, b>>] = src.pixels[b * src.w + a]
  <2>1. image.at.w = src.w /\ image.at.h = src.h
    BY <1>5
  <2>2. C!P!Grid(image.at) = (0..src.w - 1) \X (0..src.h - 1)
    BY <2>1 DEF C!P!Grid
  <2>3. \A a \in 0..src.w - 1, b \in 0..src.h - 1 :
          C!Gridded(src, src.pixels)[<<a, b>>] = src.pixels[b * src.w + a]
    BY <1>2, GriddedIs
  <2> QED BY <1>5, <2>1, <2>2, <2>3
<1> HIDE DEF pixels, image
<1>7. ASSUME NEW a \in Int, NEW b \in Int
      PROVE  <<a, b>> \in area <=> a - x \in 0..src.w - 1 /\ b - y \in 0..src.h - 1
  <2>1. ASSUME <<a, b>> \in area PROVE a - x \in 0..src.w - 1 /\ b - y \in 0..src.h - 1
    <3>1. PICK p \in C!P!Grid(image.at) : <<a, b>> = <<x + p[1], y + p[2]>>
      BY <2>1
    <3>2. p[1] \in 0..src.w - 1 /\ p[2] \in 0..src.h - 1
      BY <1>6, <3>1, PairIs
    <3> QED BY <3>1, <3>2
  <2>2. ASSUME a - x \in 0..src.w - 1, b - y \in 0..src.h - 1 PROVE <<a, b>> \in area
    <3>1. a = x + (a - x) /\ b = y + (b - y)
      OBVIOUS
    <3>2. <<a - x, b - y>> \in C!P!Grid(image.at) /\ <<a - x, b - y>>[1] = a - x /\ <<a - x, b - y>>[2] = b - y
      BY <1>6, <2>2
    <3> QED BY <3>1, <3>2
  <2> QED BY <2>1, <2>2
<1> HIDE DEF area
<1>8. ASSUME NEW a \in 0..surface.w - 1, NEW b \in 0..surface.h - 1
      PROVE  pixels[b * surface.w + a] = IF <<a, b>> \in area THEN color[<<a, b>>] ELSE Pic.color[<<a, b>>]
  <2>1. <<a, b>> \in area <=> a - x \in 0..src.w - 1 /\ b - y \in 0..src.h - 1
    BY <1>7
  <2>2. CASE <<a, b>> \in area
    <3>1. color[<<a, b>>] = image.color[<<a - x, b - y>>]
      BY <2>2
    <3>2. color[<<a, b>>] = src.pixels[(b - y) * src.w + (a - x)]
      BY <1>6, <2>1, <2>2, <3>1
    <3> QED BY <1>3, <2>1, <2>2, <3>2
  <2>3. CASE <<a, b>> \notin area
    BY <1>3, <1>4, <2>1, <2>3
  <2> QED BY <2>2, <2>3
<1> HIDE DEF color
<1>9. C!RowsLeft = 0 /\ Pic # <<>> /\ C!P!Paint(area, color)
  BY <1>0, <1>3, <1>8, PaintsPicture
<1>10. C!P!Copy(image, x, y)
  BY <1>9 DEF C!P!Copy, area, color, Pic
<1>11. image \in {C!Painting(s) : s \in Images}
  BY DEF image
<1>12. x \in 0..Pic.at.w - image.at.w /\ y \in 0..Pic.at.h - image.at.h
  BY <1>1, <1>2, <1>4, <1>6
<1> QED BY <1>9, <1>10, <1>11, <1>12 DEF PictureStep, C!P!Next, Pic

\* SDL_SetVideoMode
LEMMA OpenStep ==
  ASSUME CanvasInv, NEW size \in CanvasSizes[screen], C!SetVideoMode(size) PROVE PictureStep
<1> DEFINE canvas_ == C!Opened(size, screen)
<1>0. pc = "none" /\ pc' = "app" /\ UNCHANGED <<screen, drawn, row, offset, vmem, sync, unseen>>
  BY DEF C!SetVideoMode
<1>1. PICK pixels \in [C!Array(canvas_) -> Color], memory \in [C!Array(canvas_) -> Color] :
        surface' = C!Surface(canvas_, pixels, memory)
  BY DEF C!SetVideoMode
<1>2. /\ canvas_.w \in 1..screen.w /\ canvas_.h \in 1..screen.h
      /\ canvas_ = [w |-> canvas_.w, h |-> canvas_.h] /\ screen \in Screens
      /\ screen.w \in Nat /\ screen.h \in Nat
  BY OpenedSize, ScreenSize DEF CanvasInv
<1>3. canvas_ \in Screens \cup ((UNION {CanvasSizes[z] : z \in Screens}) \ {C!Whole})
  <2>1. CASE size = C!Whole
    BY <1>2, <2>1 DEF C!Opened
  <2>2. CASE size # C!Whole
    <3>1. canvas_ = size
      BY <2>2 DEF C!Opened
    <3>2. size \in UNION {CanvasSizes[z] : z \in Screens}
      <4>1. screen \in Screens /\ size \in CanvasSizes[screen]
        BY <1>2
      <4> QED BY <4>1, Zenon
    <3> QED BY <2>2, <3>1, <3>2
  <2> QED BY <2>1, <2>2
<1> HIDE DEF canvas_
<1>4. IsSurface(surface', screen) /\ surface'.w = canvas_.w /\ surface'.h = canvas_.h
  BY <1>1, <1>2, SurfaceIs
<1>5. Pic = <<>>
  BY <1>0, NothingIs DEF CanvasInv, Pic
<1>6. /\ Pic' = [at |-> Pic'.at, color |-> Pic'.color, stored |-> Pic'.stored]
      /\ Pic'.at = [w |-> surface'.w, h |-> surface'.h]
      /\ Pic'.color \in [(0..surface'.w - 1) \X (0..surface'.h - 1) -> Color]
      /\ Pic'.stored \in [(0..surface'.w - 1) \X (0..surface'.h - 1) -> Color]
  BY <1>2, <1>4, PicturedIs, PicIs
<1>7. Pic' \in [at : {canvas_}, color : [C!P!Grid(canvas_) -> Color], stored : [C!P!Grid(canvas_) -> Color]]
  BY <1>2, <1>4, <1>6 DEF C!P!Grid
<1>8. canvas_.w <= Display.at.w /\ canvas_.h <= Display.at.h
  BY <1>2, DisplayIs
<1>9. Display' = Display /\ Showing' = Showing /\ C!RowsLeft = 0 /\ C!RowsLeft' = 0
  BY <1>0, SameDisplay, NothingShown
<1>10. C!P!Open(canvas_)
  BY <1>5, <1>7, <1>8, <1>9 DEF C!P!Open, Pic, Display, Showing
<1> QED BY <1>3, <1>9, <1>10 DEF PictureStep, C!P!Next

LEMMA LeaveStep ==
  ASSUME CanvasInv, C!execve PROVE PictureStep
<1>0. pc = "app" /\ pc' = "none" /\ surface' = C!Nothing
      /\ UNCHANGED <<screen, drawn, row, offset, vmem, sync, unseen>>
  BY DEF C!execve
<1>1. Pic # <<>>
  BY <1>0, SurfacePictured
<1>2. Pic' = <<>>
  BY <1>0, PicIs, NothingIs
<1>3. Display' = Display /\ Showing' = Showing /\ C!RowsLeft = 0 /\ C!RowsLeft' = 0
  BY <1>0, SameDisplay, NothingShown
<1>4. C!P!Leave
  BY <1>2, <1>3 DEF C!P!Leave, Pic, Display, Showing
<1> QED BY <1>1, <1>3, <1>4 DEF PictureStep, C!P!Next, Pic

\* SDL_UpdateRect, of the surface
LEMMA ShowStep ==
  ASSUME CanvasInv, C!UpdateRect(C!Nothing) PROVE PictureStep
<1>0. /\ pc = "app" /\ pc' = "row" /\ drawn' = C!Nothing /\ row' = 0
      /\ UNCHANGED <<screen, surface, vmem>>
  BY DEF C!UpdateRect
<1>1. C!source' = surface
  BY <1>0 DEF C!source, C!Nothing, C!Surface, C!Whole
<1>2. C!RowsLeft = 0 /\ C!source'.h \in Nat \ {0}
  BY <1>0, NoRows, ShownCanvas
<1>3. C!RowsLeft' = surface.h
  BY <1>0, <1>1, <1>2 DEF C!RowsLeft
<1>4. Showing' = <<>>
  <2>1. (C!Pictured(drawn))' = <<>>
    BY <1>0, NothingIs DEF C!Pictured, C!Gridded
  <2> QED BY <2>1 DEF Showing
<1>5. Pic' = Pic /\ Display' = Display
  BY <1>0, SamePic, SameDisplay
<1>6. Pic # <<>> /\ Pic.at.h = surface.h
  BY <1>0, SurfacePictured
<1>7. C!P!Show
  BY <1>3, <1>4, <1>5, <1>6 DEF C!P!Show, Pic, Display, Showing
<1> QED BY <1>2, <1>6, <1>7 DEF PictureStep, C!P!Next, Pic

\* and of an image
LEMMA ShowImageStep ==
  ASSUME CanvasInv, NEW s \in Images, NEW memory \in [C!Array(s) -> Color],
         s.w <= surface.w, s.h <= surface.h, C!UpdateRect(C!Surface(s, s.pixels, memory))
  PROVE  PictureStep
<1> DEFINE t == C!Surface(s, s.pixels, memory)
           image == C!Painting(s)
<1>0. /\ pc = "app" /\ pc' = "row" /\ drawn' = t /\ row' = 0
      /\ UNCHANGED <<screen, surface, vmem>>
  BY DEF C!UpdateRect
<1>1. /\ IsSurface(t, surface) /\ t.w = s.w /\ t.h = s.h /\ t.pixels = s.pixels /\ t.memory = memory
      /\ surface.w \in Nat /\ surface.h \in Nat
  <2>1. surface.w \in Nat /\ surface.h \in Nat
    BY <1>0, ScreenSize DEF CanvasInv, IsSurface
  <2> QED BY <1>0, <2>1, ShownImage
<1>2. C!UpdateRect(t)
  OBVIOUS
<1> HIDE DEF t
<1>3. t # C!Nothing
  BY <1>1, NothingIs
<1>4. C!source' = t
  BY <1>0, <1>3 DEF C!source, C!Nothing, C!Surface, C!Whole
<1>5. C!RowsLeft = 0 /\ C!source'.h \in Nat \ {0}
  BY <1>0, <1>1, <1>2, NoRows, ShownCanvas
<1>6. C!RowsLeft' = s.h /\ C!RowsLeft' # 0
  BY <1>0, <1>1, <1>4, <1>5 DEF C!RowsLeft
<1>7. Showing' = C!Pictured(t)
  <2>1. (C!Pictured(drawn))' = C!Pictured(t)
    BY <1>0 DEF C!Pictured, C!Gridded
  <2> QED BY <1>6, <2>1 DEF Showing
<1>8. Pic' = Pic /\ Display' = Display
  BY <1>0, SamePic, SameDisplay
<1>9. Pic # <<>>
  BY <1>0, SurfacePictured
<1>10. /\ image.at = [w |-> s.w, h |-> s.h] /\ image.color = C!Gridded(s, s.pixels) /\ image.at.h = s.h
       /\ C!P!Grid(image.at) = (0..s.w - 1) \X (0..s.h - 1)
  BY DEF C!Painting, C!P!Grid
<1>11. C!Gridded(t, t.pixels) = C!Gridded(s, s.pixels)
  BY <1>1 DEF C!Gridded
<1>12. /\ Showing' = [at |-> Showing'.at, color |-> Showing'.color, stored |-> Showing'.stored]
       /\ Showing'.at = [w |-> t.w, h |-> t.h] /\ Showing'.color = C!Gridded(t, t.pixels)
       /\ Showing'.stored \in [(0..t.w - 1) \X (0..t.h - 1) -> Color]
  BY <1>1, <1>7, PicturedIs
<1> HIDE DEF image
<1>13. Showing' \in [at : {image.at}, color : {image.color}, stored : [C!P!Grid(image.at) -> Color]]
  BY <1>1, <1>10, <1>11, <1>12
<1>14. C!P!ShowImage(image)
  BY <1>6, <1>8, <1>10, <1>13 DEF C!P!ShowImage, Pic, Display, Showing
<1>15. image \in {C!Painting(i) : i \in Images}
  BY DEF image
<1> QED BY <1>5, <1>9, <1>14, <1>15 DEF PictureStep, C!P!Next, Pic

\* Every place of an array is that of a column and a row.
LEMMA ColumnAndRow ==
  ASSUME NEW W \in Nat \ {0}, NEW H \in Nat, NEW p \in 0..W * H - 1
  PROVE  \E a \in 0..W - 1, b \in 0..H - 1 : p = b * W + a
<1> DEFINE b == p \div W
           a == p % W
<1>1. W * H \in Nat
  OBVIOUS
<1>2. p \in Nat /\ p < W * H
  BY <1>1
<1>3. b \in Nat /\ a \in 0..W - 1 /\ p = W * b + a
  BY <1>2, Division
<1> HIDE DEF a, b
<1>4. W * b = b * W /\ b * W \in Nat /\ W * H = H * W
  BY <1>3
<1>5. ~(H < b)
  <2>1. ASSUME H < b PROVE H * W + W <= b * W
    BY <1>3, <2>1, Below
  <2> QED BY <1>1, <1>2, <1>3, <1>4, <2>1
<1>6. b # H
  BY <1>1, <1>2, <1>3, <1>4
<1>7. b \in 0..H - 1
  BY <1>3, <1>5, <1>6
<1> QED BY <1>3, <1>4, <1>7

\* Writing back one pixel stores one.
LEMMA SettledIs ==
  ASSUME NEW s, NEW size, IsSurface(s, size), size.w \in Nat, size.h \in Nat, NEW p \in C!Array(s),
         NEW t, t = [s EXCEPT !.memory = [@ EXCEPT ![p] = s.pixels[p]]]
  PROVE  \E q \in C!P!Grid(C!Pictured(s).at) : C!Pictured(t) = C!P!Settled(C!Pictured(s), q)
<1> DEFINE W == s.w
           G == (0..s.w - 1) \X (0..s.h - 1)
           from == C!Pictured(s)
           to == C!Pictured(t)
<1>1. /\ IsSurface(t, size) /\ t.w = s.w /\ t.h = s.h /\ t.pixels = s.pixels
      /\ t.memory = [s.memory EXCEPT ![p] = s.pixels[p]]
  BY Rewritten
<1>2. W \in Nat \ {0} /\ s.h \in Nat /\ s.memory \in [C!Array(s) -> Color] /\ s.pixels \in [C!Array(s) -> Color]
  BY DEF IsSurface
<1>3. PICK a \in 0..W - 1, b \in 0..s.h - 1 : p = b * W + a
  BY <1>2, ColumnAndRow DEF C!Array
<1>4. /\ from = [at |-> from.at, color |-> from.color, stored |-> from.stored]
      /\ from.at = [w |-> s.w, h |-> s.h] /\ C!P!Grid(from.at) = G
      /\ from.color = C!Gridded(s, s.pixels) /\ from.stored = C!Gridded(s, s.memory)
      /\ from.stored \in [G -> Color]
  BY PicturedIs
<1>5. /\ to = [at |-> to.at, color |-> to.color, stored |-> to.stored]
      /\ to.at = [w |-> t.w, h |-> t.h]
      /\ to.color = C!Gridded(t, t.pixels) /\ to.stored = C!Gridded(t, t.memory)
  BY <1>1, PicturedIs
<1>6. /\ \A i \in 0..s.w - 1, j \in 0..s.h - 1 : C!Gridded(s, s.pixels)[<<i, j>>] = s.pixels[j * s.w + i]
      /\ \A i \in 0..s.w - 1, j \in 0..s.h - 1 : C!Gridded(s, s.memory)[<<i, j>>] = s.memory[j * s.w + i]
  BY <1>2, GriddedIs
<1>7. to.at = from.at /\ to.color = from.color /\ to.stored = [r \in G |-> t.memory[r[2] * W + r[1]]]
  BY <1>1, <1>4, <1>5 DEF C!Gridded
<1> HIDE DEF from, to
<1> DEFINE q == <<a, b>>
           new == [from.stored EXCEPT ![q] = from.color[q]]
<1>8. ASSUME NEW r \in G PROVE t.memory[r[2] * W + r[1]] = new[r]
  <2>1. r[1] \in 0..W - 1 /\ r[2] \in 0..s.h - 1 /\ r = <<r[1], r[2]>>
    BY PairIs
  <2> DEFINE i == r[1]
             j == r[2]
             k == j * W + i
  <2>2. k \in C!Array(s)
    BY <1>2, <2>1, PlaceIs
  <2>3. new[r] = IF r = q THEN from.color[q] ELSE from.stored[r]
    BY <1>4
  <2>4. k = p <=> r = q
    <3>1. ASSUME k = p PROVE i = a /\ j = b
      <4>1. i \in 0..W - 1 /\ j \in Int /\ b \in Int /\ j * W + i = b * W + a
        BY <1>3, <2>1, <3>1
      <4> HIDE DEF i, j, W
      <4> QED BY <1>2, <1>3, <4>1, IndexUnique
    <3> QED BY <1>3, <2>1, <3>1
  <2>5. CASE k = p
    <3>1. t.memory[k] = s.pixels[p]
      BY <1>1, <1>2, <2>2, <2>5
    <3>2. from.color[q] = s.pixels[p]
      BY <1>3, <1>4, <1>6
    <3> QED BY <2>3, <2>4, <2>5, <3>1, <3>2
  <2>6. CASE k # p
    <3>1. t.memory[k] = s.memory[k]
      BY <1>1, <1>2, <2>2, <2>6
    <3>2. from.stored[<<i, j>>] = s.memory[k]
      BY <1>4, <1>6, <2>1
    <3> QED BY <2>1, <2>3, <2>4, <2>6, <3>1, <3>2
  <2> QED BY <2>5, <2>6
<1>9. to.stored = new
  <2>1. new = [r \in G |-> new[r]]
    BY <1>4
  <2> HIDE DEF new
  <2> QED BY <1>7, <1>8, <2>1
<1>10. to = C!P!Settled(from, q)
  <2> HIDE DEF q
  <2>1. C!P!Settled(from, q) = [from EXCEPT !.stored = new]
    BY DEF C!P!Settled
  <2> HIDE DEF new
  <2> QED BY <1>4, <1>5, <1>7, <1>9, <2>1
<1>11. q \in C!P!Grid(from.at)
  BY <1>3, <1>4
<1> QED BY <1>10, <1>11 DEF from, to

\* The cache gives up a line.
LEMMA WriteBackStep ==
  ASSUME CanvasInv, NEW p, C!WriteBack(p) PROVE PictureStep
<1>0. /\ UNCHANGED <<screen, pc, row, vmem>> /\ C!source'.h = C!source.h
      /\ screen.w \in Nat /\ screen.h \in Nat
  BY WrittenBack, WrittenCanvas, ScreenSize DEF CanvasInv
<1>1. C!RowsLeft' = C!RowsLeft
  BY <1>0 DEF C!RowsLeft
<1>2. Display' = Display
  BY <1>0, SameDisplay
<1>3. CASE /\ pc # "none" /\ IsSurface(surface, screen) /\ p \in C!Array(surface) /\ UNCHANGED drawn
           /\ surface' = [surface EXCEPT !.memory = [@ EXCEPT ![p] = surface.pixels[p]]]
  <2>1. \E q \in C!P!Grid(Pic.at) : C!Pictured(surface') = C!P!Settled(Pic, q)
    BY <1>0, <1>3, SettledIs DEF Pic
  <2>2. \E q \in C!P!Grid(Pic.at) : Pic' = C!P!Settled(Pic, q)
    BY <2>1, PicIs
  <2>3. Pic # <<>> /\ Showing' = Showing
    BY <1>1, <1>3, SurfacePictured, SameShowing
  <2>4. C!P!Settle
    BY <1>1, <1>2, <2>2, <2>3 DEF C!P!Settle, Pic, Display, Showing
  <2> QED BY <2>4 DEF PictureStep, C!P!Next
<1>4. CASE /\ pc \in {"row", "sync"} /\ drawn # C!Nothing /\ IsSurface(drawn, surface)
           /\ p \in C!Array(drawn) /\ UNCHANGED surface
           /\ drawn' = [drawn EXCEPT !.memory = [@ EXCEPT ![p] = drawn.pixels[p]]]
  <2>1. Pic' = Pic
    BY <1>4, SamePic
  <2>2. surface.w \in Nat /\ surface.h \in Nat
    BY <1>4, SourceIs
  <2>3. CASE C!RowsLeft = 0
    <3>1. Showing' = Showing
      BY <1>1, <2>3 DEF Showing
    <3> QED BY <1>1, <1>2, <2>1, <3>1, Stutters
  <2>4. CASE C!RowsLeft # 0
    <3>1. Showing = C!Pictured(drawn) /\ Showing # <<>>
      BY <1>4, <2>2, <2>4, PicturedIs DEF Showing
    <3>2. Showing' = C!Pictured(drawn')
      BY <1>1, <2>4 DEF Showing, C!Pictured, C!Gridded
    <3>3. \E q \in C!P!Grid(C!Pictured(drawn).at) : C!Pictured(drawn') = C!P!Settled(C!Pictured(drawn), q)
      BY <1>4, <2>2, SettledIs
    <3>4. \E q \in C!P!Grid(Showing.at) : Showing' = C!P!Settled(Showing, q)
      BY <3>1, <3>2, <3>3
    <3>5. C!P!Settle
      BY <1>1, <1>2, <2>1, <3>1, <3>4 DEF C!P!Settle, Pic, Display, Showing
    <3> QED BY <3>5 DEF PictureStep, C!P!Next
  <2> QED BY <2>3, <2>4
<1> QED BY <1>3, <1>4, WrittenBack

\* NDL_DrawRect
LEMMA RowStep ==
  ASSUME CanvasInv, C!DrawRow PROVE PictureStep
<1> DEFINE W == screen.w
           x == C!CanvasX
           y == C!CanvasY + row
           n == C!source.w
           held == C!source.memory
           first == y * W + x
           G == (0..W - 1) \X (0..screen.h - 1)
           image == C!Pictured(C!source)
           area == {<<x + i, y>> : i \in 0..n - 1}
           new == [p \in G |-> IF p \in area THEN image.stored[<<p[1] - x, row>>] ELSE Display.color[p]]
<1>0. pc = "row" /\ pc' = "sync" /\ UNCHANGED <<screen, surface, drawn, row, sync>>
  BY DEF C!DrawRow, C!app
<1>1. /\ W \in Nat \ {0} /\ screen.h \in Nat \ {0} /\ n \in Nat \ {0}
      /\ x \in 0..W - n /\ y \in 0..screen.h - 1
  BY <1>0, Centred
<1>2. /\ IsSurface(C!source, surface) /\ row \in 0..C!source.h - 1
      /\ surface.w \in Nat /\ surface.h \in Nat /\ C!source.h \in Nat
  BY <1>0, SourceIs
<1>3. vmem' = [p \in C!Array(screen) |->
                 IF p \in first..first + n - 1 THEN held[row * n + (p - first)] ELSE vmem[p]]
  BY RowDrawn
<1>4. /\ image # <<>> /\ image.at.w = n /\ image.at.h = C!source.h
      /\ \A a \in 0..n - 1, b \in 0..C!source.h - 1 : image.stored[<<a, b>>] = held[b * n + a]
  <2>1. image # <<>> /\ image.at.w = n /\ image.at.h = C!source.h /\ image.stored = C!Gridded(C!source, held)
    BY <1>2, PicturedIs
  <2>2. n \in Nat /\ C!source.h \in Nat /\ held \in [C!Array(C!source) -> Color]
    BY <1>0, <1>1, <1>2, SourceIs
  <2>3. \A a \in 0..n - 1, b \in 0..C!source.h - 1 : C!Gridded(C!source, held)[<<a, b>>] = held[b * n + a]
    BY <2>2, GriddedIs
  <2> HIDE DEF image
  <2> QED BY <2>1, <2>3
<1>5. Pic.at.w = surface.w /\ Pic.at.h = surface.h /\ Pic' = Pic
  BY <1>0, SurfacePictured, SamePic
<1>6. /\ Display = [at |-> Display.at, color |-> Display.color]
      /\ Display.at = screen /\ Display.at.w = W /\ Display.at.h = screen.h
      /\ C!P!Grid(Display.at) = G
      /\ \A a \in 0..W - 1, b \in 0..screen.h - 1 : Display.color[<<a, b>>] = vmem[b * W + a]
  BY DisplayIs
<1>7. Display' = [at |-> screen, color |-> [p \in G |-> vmem'[p[2] * W + p[1]]]]
  BY <1>0 DEF Display, C!Gridded
<1> HIDE DEF first
<1>8. ASSUME NEW a \in 0..W - 1, NEW b \in 0..screen.h - 1
      PROVE  /\ <<a, b>> \in area <=> b = y /\ a - x \in 0..n - 1
             /\ b * W + a \in first..first + n - 1 <=> b = y /\ a - x \in 0..n - 1
  <2>1. ASSUME <<a, b>> \in area PROVE b = y /\ a - x \in 0..n - 1
    <3>1. PICK i \in 0..n - 1 : <<a, b>> = <<x + i, y>>
      BY <2>1
    <3> QED BY <1>1, <3>1
  <2>2. ASSUME b = y, a - x \in 0..n - 1 PROVE <<a, b>> \in area
    <3>1. a = x + (a - x)
      BY <1>1
    <3> QED BY <2>2, <3>1
  <2>3. ASSUME b * W + a \in first..first + n - 1 PROVE b = y /\ a - x \in 0..n - 1
    <3> DEFINE i == b * W + a - first
    <3>1. b * W \in Nat /\ y * W \in Nat
      BY <1>1
    <3>2. i \in 0..n - 1 /\ b * W + a = y * W + (x + i)
      BY <1>1, <2>3, <3>1 DEF first
    <3>3. x + i \in 0..W - 1
      BY <1>1, <3>2
    <3> DEFINE c == x + i
    <3> HIDE DEF i, y, W, x
    <3>4. W \in Nat /\ a \in 0..W - 1 /\ c \in 0..W - 1 /\ b \in Int /\ y \in Int /\ b * W + a = y * W + c
      BY <1>1, <3>2, <3>3
    <3> HIDE DEF c
    <3>5. a = c /\ b = y
      BY <3>4, IndexUnique
    <3>6. a - x = i
      BY <1>1, <3>2, <3>5 DEF c
    <3> QED BY <3>2, <3>5, <3>6
  <2>4. ASSUME b = y, a - x \in 0..n - 1 PROVE b * W + a \in first..first + n - 1
    <3>1. y * W \in Nat /\ b * W = y * W
      BY <1>1, <2>4
    <3> QED BY <1>1, <2>4, <3>1 DEF first
  <2> QED BY <2>1, <2>2, <2>3, <2>4
<1>9. ASSUME NEW p \in G PROVE vmem'[p[2] * W + p[1]] = new[p]
  <2>1. p[1] \in 0..W - 1 /\ p[2] \in 0..screen.h - 1 /\ p = <<p[1], p[2]>>
    BY PairIs
  <2> DEFINE k == p[2] * W + p[1]
  <2>2. k \in C!Array(screen)
    BY <1>1, <2>1, IndexRange DEF C!Array
  <2>3. vmem'[k] = IF k \in first..first + n - 1 THEN held[row * n + (k - first)] ELSE vmem[k]
    BY <1>3, <2>2
  <2>4. (p \in area <=> p[2] = y /\ p[1] - x \in 0..n - 1) /\ (k \in first..first + n - 1 <=> p \in area)
    BY <1>8, <2>1
  <2>5. CASE p \in area
    <3>1. k - first = p[1] - x
      <4>1. y * W \in Nat /\ k = y * W + p[1]
        BY <1>1, <2>4, <2>5
      <4> QED BY <1>1, <2>1, <4>1 DEF first
    <3>2. image.stored[<<p[1] - x, row>>] = held[row * n + (p[1] - x)]
      BY <1>2, <1>4, <2>4, <2>5
    <3> QED BY <2>3, <2>4, <2>5, <3>1, <3>2
  <2>6. CASE p \notin area
    BY <1>6, <2>1, <2>3, <2>4, <2>6
  <2> QED BY <2>5, <2>6
<1>10. [p \in G |-> vmem'[p[2] * W + p[1]]] = new
  BY <1>9
<1> HIDE DEF new
<1>11. Display' = [Display EXCEPT !.color = new]
  BY <1>6, <1>7, <1>10
<1>12. C!RowsLeft = C!source.h - row /\ C!RowsLeft' = C!source.h - row - 1
  <2>1. C!source' = C!source
    BY <1>0 DEF C!source, C!Nothing, C!Surface, C!Whole
  <2> QED BY <1>0, <2>1 DEF C!RowsLeft
<1>13. C!RowsLeft > 0 /\ C!RowsLeft' = C!RowsLeft - 1 /\ C!RowsLeft # 0
       /\ C!source.h - C!RowsLeft = row /\ (C!RowsLeft' = 0 <=> C!RowsLeft = 1)
  BY <1>2, <1>12
<1>14. Showing = C!Pictured(drawn) /\ Showing' = IF C!RowsLeft = 1 THEN <<>> ELSE Showing
  BY <1>0, <1>13 DEF Showing, C!Pictured, C!Gridded
<1> DEFINE shown == IF Showing = <<>> THEN Pic ELSE Showing
<1>15. shown = image
  <2>1. CASE drawn = C!Nothing
    BY <1>14, <2>1, NothingIs DEF C!source, Pic
  <2>2. CASE drawn # C!Nothing
    BY <1>4, <1>14, <2>2 DEF C!source
  <2> QED BY <2>1, <2>2
<1> HIDE DEF image
<1>16. /\ x = (Display.at.w - Pic.at.w) \div 2
       /\ y = (Display.at.h - Pic.at.h) \div 2 + (shown.at.h - C!RowsLeft)
       /\ row = shown.at.h - C!RowsLeft
  BY <1>4, <1>5, <1>6, <1>13, <1>15 DEF C!CanvasX, C!CanvasY
<1>17. C!P!ShowRow
  <2> DEFINE left == (Display.at.w - Pic.at.w) \div 2
             top == (Display.at.h - Pic.at.h) \div 2
             y_ == shown.at.h - C!RowsLeft
             area_ == {<<left + i, top + y_>> : i \in 0..shown.at.w - 1}
             new_ == [p \in C!P!Grid(Display.at) |->
                        IF p \in area_ THEN shown.stored[<<p[1] - left, y_>>] ELSE Display.color[p]]
  <2>1. left = x /\ top + y_ = y /\ y_ = row /\ shown.at.w = n
    BY <1>4, <1>15, <1>16
  <2> HIDE DEF left, top, y_, x, y
  <2>2. area_ = area
    BY <2>1 DEF area
  <2> HIDE DEF area_, area, shown
  <2>3. new_ = new
    BY <1>6, <1>15, <2>1, <2>2 DEF new
  <2>4. Display' = [Display EXCEPT !.color = new_]
    BY <1>11, <2>3
  <2> QED BY <1>5, <1>13, <1>14, <2>4 DEF C!P!ShowRow, new_, area_, left, top, y_, shown, Pic, Display, Showing
<1> QED BY <1>13, <1>17 DEF PictureStep, C!P!Next

-----------------------------------------------------------------------------
LEMMA InitPicture == C!Init => C!P!Init
<1> SUFFICES ASSUME C!Init PROVE C!P!Init
  OBVIOUS
<1>1. pc = "none" /\ surface = C!Nothing /\ CanvasInv
  BY InitCanvas DEF C!Init
<1>2. Pic = <<>>
  BY <1>1, NothingIs DEF Pic
<1>3. C!RowsLeft = 0
  BY <1>1, NoRows
<1>4. Showing = <<>>
  BY <1>3 DEF Showing
<1>5. Display.color \in [C!P!Grid(Display.at) -> Color]
  BY <1>1, DisplayIs
<1> QED BY <1>2, <1>3, <1>4, <1>5 DEF C!P!Init, Pic, Display, Showing

LEMMA StepPicture == CanvasInv /\ [C!Next]_(C!vars) => [C!P!Next]_(C!P!vars)
<1> SUFFICES ASSUME CanvasInv, [C!Next]_(C!vars) PROVE PictureStep
  BY DEF PictureStep
<1>1. ASSUME NEW size \in CanvasSizes[screen], C!SetVideoMode(size) PROVE PictureStep
  BY <1>1, OpenStep
<1>2. ASSUME NEW c \in Color, C!FillRect(c) PROVE PictureStep
  BY <1>2, FillStep
<1>3. ASSUME NEW src \in Images, NEW x \in 0..screen.w - 1, NEW y \in 0..screen.h - 1,
             x + src.w <= surface.w, y + src.h <= surface.h, C!BlitSurface(src, x, y)
      PROVE  PictureStep
  BY <1>3, BlitStep
<1>4. CASE C!UpdateRect(C!Nothing)
  BY <1>4, ShowStep
<1>5. ASSUME NEW s \in Images, NEW memory \in [C!Array(s) -> Color], s.w <= surface.w, s.h <= surface.h,
             C!UpdateRect(C!Surface(s, s.pixels, memory))
      PROVE  PictureStep
  BY <1>5, ShowImageStep
<1>6. CASE C!execve
  BY <1>6, LeaveStep
<1>7. CASE C!DrawRow
  BY <1>7, RowStep
<1>8. CASE C!Sync
  <2>1. pc = "sync" /\ UNCHANGED <<screen, surface, vmem>>
    BY <1>8 DEF C!Sync
  <2>2. row \in 0..C!source.h - 1 /\ C!source.h \in Int
    BY <2>1, SourceIs
  <2>3. C!RowsLeft = C!source.h - row - 1
    BY <2>1, NoRows
  <2>4. CASE row + 1 < C!source.h /\ pc' = "row" /\ row' = row + 1 /\ UNCHANGED drawn
    <3>1. C!source' = C!source
      BY <2>1, <2>4 DEF C!source, C!Nothing, C!Surface, C!Whole
    <3>2. C!RowsLeft' = C!RowsLeft
      BY <2>2, <2>3, <2>4, <3>1 DEF C!RowsLeft
    <3> QED BY <2>1, <2>4, <3>2, Stutters, SamePic, SameDisplay, SameShowing
  <2>5. CASE row + 1 = C!source.h /\ pc' = "app"
    <3>1. C!RowsLeft = 0
      BY <2>2, <2>3, <2>5
    <3>2. C!RowsLeft' = 0
      BY <2>5 DEF C!RowsLeft
    <3>3. Showing' = Showing
      BY <3>1, <3>2 DEF Showing
    <3> QED BY <2>1, <3>1, <3>2, <3>3, Stutters, SamePic, SameDisplay
  <2> QED BY <1>8, <2>4, <2>5 DEF C!Sync
<1>9. CASE C!vga_update_screen \/ UNCHANGED C!vars
  <2>1. UNCHANGED <<screen, pc, surface, drawn, row, vmem>>
    BY <1>9 DEF C!vga_update_screen, C!vars, C!app
  <2>2. C!RowsLeft' = C!RowsLeft
    BY <2>1 DEF C!RowsLeft, C!source, C!Nothing, C!Surface, C!Whole
  <2> QED BY <2>1, <2>2, Stutters, SamePic, SameDisplay, SameShowing
<1>10. ASSUME NEW p \in C!Array(screen), C!WriteBack(p) PROVE PictureStep
  BY <1>10, WriteBackStep
<1> QED BY <1>1, <1>2, <1>3, <1>4, <1>5, <1>6, <1>7, <1>8, <1>9, <1>10 DEF C!Next

-----------------------------------------------------------------------------
(* The window.                                                             *)

LEMMA InitWindow == C!Init => C!WindowCurrent
  BY DEF C!Init, C!WindowCurrent

LEMMA StepWindow == C!WindowCurrent /\ [C!Next]_(C!vars) => C!WindowCurrent'
<1> SUFFICES ASSUME C!WindowCurrent, [C!Next]_(C!vars) PROVE C!WindowCurrent'
  OBVIOUS
<1>1. CASE C!Sync \/ C!DrawRow
  BY <1>1 DEF C!Sync, C!DrawRow, C!WindowCurrent
<1>2. CASE C!vga_update_screen
  BY <1>2 DEF C!vga_update_screen, C!WindowCurrent
<1>3. CASE C!execve \/ UNCHANGED C!vars
  BY <1>3 DEF C!execve, C!vars, C!WindowCurrent
<1>4. ASSUME NEW size, C!SetVideoMode(size) PROVE C!WindowCurrent'
  BY <1>4 DEF C!SetVideoMode, C!WindowCurrent
<1>5. ASSUME NEW pixels, C!Painted(pixels) PROVE C!WindowCurrent'
  BY <1>5 DEF C!Painted, C!WindowCurrent
<1>6. ASSUME NEW s, C!UpdateRect(s) PROVE C!WindowCurrent'
  BY <1>6 DEF C!UpdateRect, C!WindowCurrent
<1>7. ASSUME NEW p, C!WriteBack(p) PROVE C!WindowCurrent'
  BY <1>7 DEF C!WriteBack, C!WindowCurrent
<1> QED BY <1>1, <1>2, <1>3, <1>4, <1>5, <1>6, <1>7 DEF C!Next, C!FillRect, C!BlitSurface

-----------------------------------------------------------------------------
(* The grid of the terminal, operation by operation.                       *)

LEMMA Sizes ==
  /\ w \in Nat \ {0} /\ h \in Nat \ {0}
  /\ w * (h - 1) \in Nat /\ w * h = w * (h - 1) + w
  /\ MaxInput \in 2..w * (h - 1) + 1
<1>1. w \in Nat \ {0} /\ h \in Nat \ {0} /\ MaxInput \in 2..w * (h - 1) + 1
  BY DesktopAssumption DEF T!TerminalAssumption
<1>2. h - 1 \in Nat
  BY <1>1
<1>3. w * (h - 1) \in Nat /\ w * h = w * (h - 1) + w
  BY <1>1, <1>2
<1> QED BY <1>1, <1>3

LEMMA AtIs ==
  ASSUME NEW x \in 0..w - 1, NEW y \in 0..h - 1
  PROVE  /\ T!At(x, y) \in T!Cell /\ T!At(x, y) = y * w + x /\ y * w \in Nat
<1>1. y * w + x \in 0..w * h - 1 /\ y * w \in Nat
  BY Sizes, IndexRange
<1> QED BY <1>1 DEF T!At, T!Cell

Cells == [T!Cell -> Char \cup {T!EMPTY}]
Marks == [T!Cell -> BOOLEAN]
Modes == {"raw", "cook"}

LEMMA GridIs ==
  ASSUME NEW t \in T!Grid
  PROVE  /\ t.buf \in Cells /\ t.dirty \in Marks /\ t.cursor \in T!Place /\ t.saved \in T!Place /\ t.mode \in Modes
         /\ t.cursor.x \in 0..w - 1 /\ t.cursor.y \in 0..h - 1
         /\ t = [buf |-> t.buf, dirty |-> t.dirty, cursor |-> t.cursor, saved |-> t.saved, mode |-> t.mode]
         /\ t.cursor = [x |-> t.cursor.x, y |-> t.cursor.y]
<1>1. /\ t.buf \in Cells /\ t.dirty \in Marks /\ t.cursor \in T!Place /\ t.saved \in T!Place /\ t.mode \in Modes
      /\ t = [buf |-> t.buf, dirty |-> t.dirty, cursor |-> t.cursor, saved |-> t.saved, mode |-> t.mode]
  BY DEF T!Grid, Cells, Marks, Modes
<1>2. /\ t.cursor.x \in 0..w - 1 /\ t.cursor.y \in 0..h - 1
      /\ t.cursor = [x |-> t.cursor.x, y |-> t.cursor.y]
  BY <1>1 DEF T!Place
<1> QED BY <1>1, <1>2

LEMMA GridOf ==
  ASSUME NEW b \in Cells, NEW d \in Marks, NEW c \in T!Place, NEW s \in T!Place, NEW m \in Modes
  PROVE  [buf |-> b, dirty |-> d, cursor |-> c, saved |-> s, mode |-> m] \in T!Grid
  BY DEF T!Grid, Cells, Marks, Modes

\* A cell that r has changed since t is marked, and so is what t had marked.
Marked(t, r) == \A i \in T!Cell : (r.buf[i] # t.buf[i] => r.dirty[i]) /\ (t.dirty[i] => r.dirty[i])

LEMMA putchIs ==
  ASSUME NEW t \in T!Grid, NEW i \in T!Cell, NEW ch \in Char \cup {T!EMPTY}
  PROVE  LET r == T!putch(t, i, ch) IN
         /\ r \in T!Grid /\ Marked(t, r)
         /\ r.buf = [t.buf EXCEPT ![i] = ch] /\ r.cursor = t.cursor /\ r.saved = t.saved /\ r.mode = t.mode
<1> DEFINE b == [t.buf EXCEPT ![i] = ch]
           d == [t.dirty EXCEPT ![i] = TRUE]
           r == T!putch(t, i, ch)
<1>1. b \in Cells /\ d \in Marks
  BY GridIs DEF Cells, Marks
<1>2. r = [[t EXCEPT !.buf = b] EXCEPT !.dirty = d]
  BY DEF T!putch, T!Grid
<1>3. \A j \in T!Cell : (b[j] # t.buf[j] => d[j]) /\ (t.dirty[j] => d[j])
  BY GridIs DEF Cells, Marks
<1> HIDE DEF b, d, r
<1>4. r = [buf |-> b, dirty |-> d, cursor |-> t.cursor, saved |-> t.saved, mode |-> t.mode]
  BY <1>2 DEF T!Grid
<1>5. r.buf = b /\ r.dirty = d /\ r.cursor = t.cursor /\ r.saved = t.saved /\ r.mode = t.mode
  BY <1>4
<1>6. r \in T!Grid
  BY <1>1, <1>4, GridIs, GridOf
<1>7. Marked(t, r)
  BY <1>3, <1>5 DEF Marked
<1> QED BY <1>5, <1>6, <1>7 DEF r, b

Scrolled(b) == [i \in T!Cell |-> IF i + w \in T!Cell THEN b[i + w] ELSE T!EMPTY]

LEMMA DownIs ==
  ASSUME NEW t \in T!Grid, NEW x \in 0..w - 1
  PROVE  LET r == T!Down(t, x) IN
         /\ r \in T!Grid /\ Marked(t, r) /\ r.saved = t.saved /\ r.mode = t.mode
         /\ r.cursor = [x |-> x, y |-> IF t.cursor.y = h - 1 THEN h - 1 ELSE t.cursor.y + 1]
         /\ r.buf = IF t.cursor.y = h - 1 THEN Scrolled(t.buf) ELSE t.buf
<1> DEFINE r == T!Down(t, x)
           all == [i \in T!Cell |-> TRUE]
<1>0. /\ h \in Nat \ {0} /\ t.cursor.y \in 0..h - 1
      /\ t = [buf |-> t.buf, dirty |-> t.dirty, cursor |-> t.cursor, saved |-> t.saved, mode |-> t.mode]
      /\ t.cursor = [x |-> t.cursor.x, y |-> t.cursor.y]
  BY GridIs, Sizes
<1>1. CASE t.cursor.y = h - 1
  <2> DEFINE c == [x |-> x, y |-> t.cursor.y]
  <2>1. r = [T!scroll_up(t) EXCEPT !.cursor.x = x]
    BY <1>0, <1>1 DEF T!Down
  <2> DEFINE b == Scrolled(t.buf)
             u == [buf |-> b, dirty |-> all, cursor |-> t.cursor, saved |-> t.saved, mode |-> t.mode]
  <2>2. T!scroll_up(t) = [[t EXCEPT !.buf = b] EXCEPT !.dirty = all]
    BY DEF T!scroll_up, Scrolled, T!Grid
  <2>3. T!scroll_up(t) = u
    <3> HIDE DEF b, all
    <3> QED BY <2>2 DEF T!Grid
  <2>4. r = [buf |-> b, dirty |-> all, cursor |-> c, saved |-> t.saved, mode |-> t.mode]
    <3>1. u.cursor = t.cursor
      OBVIOUS
    <3> HIDE DEF b, all
    <3> QED BY <1>0, <2>1, <2>3, <3>1
  <2>5. c \in T!Place /\ all \in Marks
    BY <1>0 DEF T!Place, Marks
  <2>6. Scrolled(t.buf) \in Cells
    BY GridIs DEF Cells, Scrolled
  <2>7. \A j \in T!Cell : all[j]
    OBVIOUS
  <2> HIDE DEF r, all, c
  <2>8. r.buf = Scrolled(t.buf) /\ r.dirty = all /\ r.cursor = c /\ r.saved = t.saved /\ r.mode = t.mode
    BY <2>4
  <2>9. r \in T!Grid
    BY <2>4, <2>5, <2>6, GridIs, GridOf
  <2>10. Marked(t, r)
    BY <2>7, <2>8 DEF Marked
  <2> QED BY <1>1, <2>8, <2>9, <2>10 DEF r, c
<1>2. CASE t.cursor.y # h - 1
  <2> DEFINE c == [x |-> x, y |-> t.cursor.y + 1]
  <2>1. ~(t.cursor.y + 1 >= h)
    BY <1>0, <1>2
  <2>2. r = [buf |-> t.buf, dirty |-> t.dirty, cursor |-> c, saved |-> t.saved, mode |-> t.mode]
    BY <1>0, <2>1 DEF T!Down
  <2>3. c \in T!Place
    BY <1>0, <1>2 DEF T!Place
  <2> HIDE DEF r, c
  <2>4. r.buf = t.buf /\ r.dirty = t.dirty /\ r.cursor = c /\ r.saved = t.saved /\ r.mode = t.mode
    BY <2>2
  <2>5. r \in T!Grid
    BY <2>2, <2>3, GridIs, GridOf
  <2>6. Marked(t, r)
    BY <2>4 DEF Marked
  <2> QED BY <1>2, <2>4, <2>5, <2>6 DEF r, c
<1> QED BY <1>1, <1>2

\* Only the cursor moves.
LEMMA Moved ==
  ASSUME NEW t \in T!Grid, NEW c \in T!Place
  PROVE  LET r == [t EXCEPT !.cursor = c] IN
         /\ r \in T!Grid /\ Marked(t, r) /\ r.cursor = c
         /\ r.buf = t.buf /\ r.saved = t.saved /\ r.mode = t.mode
<1> DEFINE r == [t EXCEPT !.cursor = c]
<1>1. r = [buf |-> t.buf, dirty |-> t.dirty, cursor |-> c, saved |-> t.saved, mode |-> t.mode]
  BY DEF T!Grid
<1> HIDE DEF r
<1>2. r.buf = t.buf /\ r.dirty = t.dirty /\ r.cursor = c /\ r.saved = t.saved /\ r.mode = t.mode
  BY <1>1
<1>3. r \in T!Grid
  BY <1>1, GridIs, GridOf
<1>4. Marked(t, r)
  BY <1>2 DEF Marked
<1> QED BY <1>2, <1>3, <1>4 DEF r

LEMMA move_oneIs ==
  ASSUME NEW t \in T!Grid
  PROVE  LET r == T!move_one(t) IN
         /\ r \in T!Grid /\ Marked(t, r) /\ r.saved = t.saved /\ r.mode = t.mode
         /\ IF t.cursor.x = w - 1 THEN r = T!Down(t, 0)
            ELSE r.cursor = [x |-> t.cursor.x + 1, y |-> t.cursor.y] /\ r.buf = t.buf
<1>0. /\ w \in Nat \ {0} /\ t.cursor.x \in 0..w - 1 /\ t.cursor.y \in 0..h - 1
      /\ t.cursor = [x |-> t.cursor.x, y |-> t.cursor.y]
  BY GridIs, Sizes
<1>1. CASE t.cursor.x = w - 1
  <2>1. T!move_one(t) = T!Down(t, 0) /\ 0 \in 0..w - 1
    BY <1>0, <1>1 DEF T!move_one
  <2>2. LET r == T!Down(t, 0) IN r \in T!Grid /\ Marked(t, r) /\ r.saved = t.saved /\ r.mode = t.mode
    BY <2>1, DownIs
  <2> QED BY <1>1, <2>1, <2>2
<1>2. CASE t.cursor.x # w - 1
  <2> DEFINE c == [x |-> t.cursor.x + 1, y |-> t.cursor.y]
  <2>1. c \in T!Place
    BY <1>0, <1>2 DEF T!Place
  <2>2. T!move_one(t) = [t EXCEPT !.cursor.x = @ + 1]
    BY <1>0, <1>2 DEF T!move_one
  <2>3. [t EXCEPT !.cursor.x = @ + 1] = [t EXCEPT !.cursor = c]
    BY <1>0, GridIs
  <2> HIDE DEF c
  <2>4. LET r == [t EXCEPT !.cursor = c] IN
        /\ r \in T!Grid /\ Marked(t, r) /\ r.cursor = c
        /\ r.buf = t.buf /\ r.saved = t.saved /\ r.mode = t.mode
    BY <2>1, Moved
  <2> QED BY <1>2, <2>2, <2>3, <2>4 DEF c
<1> QED BY <1>1, <1>2

\* The cursor goes back by one cell, which becomes empty.
LEMMA backspaceIs ==
  ASSUME NEW t \in T!Grid
  PROVE  LET r == T!backspace(t)
             i == T!At(r.cursor.x, r.cursor.y) IN
         /\ r \in T!Grid /\ Marked(t, r) /\ r.mode = t.mode
         /\ i \in T!Cell /\ r.buf = [t.buf EXCEPT ![i] = T!EMPTY]
         /\ T!At(t.cursor.x, t.cursor.y) > 0 => i = T!At(t.cursor.x, t.cursor.y) - 1
<1> DEFINE c == IF t.cursor.x > 0 THEN [x |-> t.cursor.x - 1, y |-> t.cursor.y]
                ELSE IF t.cursor.y > 0 THEN [x |-> w - 1, y |-> t.cursor.y - 1]
                ELSE [x |-> 0, y |-> 0]
           i == T!At(c.x, c.y)
           u == T!putch(t, i, T!EMPTY)
           r == T!backspace(t)
<1>1. /\ w \in Nat \ {0} /\ h \in Nat \ {0} /\ t.cursor.x \in 0..w - 1 /\ t.cursor.y \in 0..h - 1
  BY GridIs, Sizes
<1>2. c \in T!Place /\ c.x \in 0..w - 1 /\ c.y \in 0..h - 1
  <2>1. c \in T!Place
    BY <1>1 DEF T!Place
  <2> HIDE DEF c
  <2> QED BY <2>1 DEF T!Place
<1>3. T!At(t.cursor.x, t.cursor.y) > 0 => i = T!At(t.cursor.x, t.cursor.y) - 1
  <2>1. CASE t.cursor.x > 0
    <3>1. i = (t.cursor.x - 1) + t.cursor.y * w
      BY <2>1 DEF T!At
    <3>2. t.cursor.y * w \in Nat
      BY <1>1
    <3> QED BY <1>1, <3>1, <3>2 DEF T!At
  <2>2. CASE ~(t.cursor.x > 0) /\ t.cursor.y > 0
    <3>1. i = (w - 1) + (t.cursor.y - 1) * w
      BY <2>2 DEF T!At
    <3>2. (t.cursor.y - 1) * w = t.cursor.y * w - w /\ t.cursor.y * w \in Nat
      BY <1>1
    <3>3. t.cursor.x = 0
      BY <1>1, <2>2
    <3> QED BY <1>1, <3>1, <3>2, <3>3 DEF T!At
  <2>3. CASE ~(t.cursor.x > 0) /\ ~(t.cursor.y > 0)
    <3>1. t.cursor.x = 0 /\ t.cursor.y = 0 /\ 0 * w = 0
      BY <1>1, <2>3
    <3>2. T!At(t.cursor.x, t.cursor.y) = 0
      BY <3>1 DEF T!At
    <3> QED BY <3>2
  <2> QED BY <2>1, <2>2, <2>3
<1>4. r = [u EXCEPT !.cursor = c]
  BY DEF T!backspace
<1> HIDE DEF c
<1>5. i \in T!Cell
  BY <1>2, AtIs
<1>6. /\ u \in T!Grid /\ Marked(t, u) /\ u.buf = [t.buf EXCEPT ![i] = T!EMPTY] /\ u.mode = t.mode
  BY <1>5, putchIs
<1> HIDE DEF u, r
<1>7. /\ r \in T!Grid /\ Marked(u, r) /\ r.cursor = c /\ r.buf = u.buf /\ r.mode = u.mode
  BY <1>2, <1>4, <1>6, Moved
<1>8. Marked(t, r)
  BY <1>6, <1>7 DEF Marked
<1> QED BY <1>3, <1>5, <1>6, <1>7, <1>8 DEF r

\* A grid whose cursor may be anywhere, as it is inside an escape sequence.
Loose == [buf : Cells, dirty : Marks, cursor : [x : Int, y : Int], saved : T!Place, mode : Modes]

LEMMA GridIsLoose == T!Grid \subseteq Loose
  BY Sizes DEF T!Grid, T!Place, Loose, Cells, Marks, Modes

LEMMA ClampedIs ==
  ASSUME NEW u \in Loose
  PROVE  LET r == T!Clamped(u) IN r \in T!Grid /\ r.buf = u.buf /\ r.dirty = u.dirty
<1> DEFINE Into(n, top) == IF n > top THEN top ELSE IF n < 0 THEN 0 ELSE n
           i == Into(u.cursor.x, w - 1)
           j == Into(u.cursor.y, h - 1)
           r == T!Clamped(u)
<1>1. u.cursor \in [x : Int, y : Int] /\ u.cursor.x \in Int /\ u.cursor.y \in Int
  BY DEF Loose
<1>2. i \in 0..w - 1 /\ j \in 0..h - 1
  BY <1>1, Sizes
<1>3. r = [[u EXCEPT !.cursor.x = i] EXCEPT !.cursor.y = j]
  BY DEF T!Clamped, Loose
<1> HIDE DEF i, j, r
<1> DEFINE c == [x |-> i, y |-> j]
<1>4. r = [buf |-> u.buf, dirty |-> u.dirty, cursor |-> c, saved |-> u.saved, mode |-> u.mode]
  <2>1. [u EXCEPT !.cursor.x = i] = [u EXCEPT !.cursor = [u.cursor EXCEPT !.x = i]]
    BY DEF Loose
  <2> DEFINE d == [u.cursor EXCEPT !.x = i]
             v == [u EXCEPT !.cursor = d]
  <2>2. d = [x |-> i, y |-> u.cursor.y]
    BY <1>1
  <2>3. v = [buf |-> u.buf, dirty |-> u.dirty, cursor |-> d, saved |-> u.saved, mode |-> u.mode]
    <3> HIDE DEF d
    <3> QED BY DEF Loose
  <2>4. r = [v EXCEPT !.cursor.y = j]
    BY <1>3, <2>1
  <2> HIDE DEF v, d
  <2>5. v.cursor = d /\ [v.cursor EXCEPT !.y = j] = c
    BY <2>2, <2>3
  <2>6. r = [v EXCEPT !.cursor = [v.cursor EXCEPT !.y = j]]
    BY <2>3, <2>4
  <2> QED BY <2>3, <2>5, <2>6
<1>5. c \in T!Place
  BY <1>2 DEF T!Place
<1> HIDE DEF c
<1>6. u.buf \in Cells /\ u.dirty \in Marks /\ u.saved \in T!Place /\ u.mode \in Modes
  BY DEF Loose
<1>7. r \in T!Grid
  BY <1>4, <1>5, <1>6, GridOf
<1> QED BY <1>4, <1>7 DEF r

LEMMA BlankIs ==
  ASSUME NEW t \in T!Grid, NEW i, NEW j
  PROVE  T!Blank(t, i, j) \in T!Grid /\ Marked(t, T!Blank(t, i, j))
<1> DEFINE b == [k \in T!Cell |-> IF k \in i..j THEN T!EMPTY ELSE t.buf[k]]
           d == [k \in T!Cell |-> k \in i..j \/ t.dirty[k]]
           r == T!Blank(t, i, j)
<1>1. r = [[t EXCEPT !.buf = b] EXCEPT !.dirty = d]
  BY DEF T!Blank, T!Grid
<1>2. b \in Cells
  BY GridIs DEF Cells
<1>3. d \in Marks
  <2>1. \A k \in T!Cell : (k \in i..j \/ t.dirty[k]) \in BOOLEAN
    OBVIOUS
  <2> QED BY <2>1, Zenon DEF Marks
<1>4. \A k \in T!Cell : (b[k] # t.buf[k] => d[k]) /\ (t.dirty[k] => d[k])
  OBVIOUS
<1> HIDE DEF b, d, r
<1>5. r = [buf |-> b, dirty |-> d, cursor |-> t.cursor, saved |-> t.saved, mode |-> t.mode]
  BY <1>1 DEF T!Grid
<1>6. r \in T!Grid
  BY <1>2, <1>3, <1>5, GridIs, GridOf
<1>7. r.buf = b /\ r.dirty = d
  BY <1>5
<1>8. Marked(t, r)
  BY <1>4, <1>7 DEF Marked
<1> QED BY <1>6, <1>8 DEF r

\* An escape sequence, before the cursor is put back into the grid.
LEMMA EscapeIs ==
  ASSUME NEW t \in T!Grid, NEW e \in T!Element, e[1] \notin {"ch", "\n", "\r", "bell"}
  PROVE  T!Escape(t, e) \in Loose /\ Marked(t, T!Escape(t, e))
<1> DEFINE r == T!Escape(t, e)
           At(c) == [buf |-> t.buf, dirty |-> t.dirty, cursor |-> c, saved |-> t.saved, mode |-> t.mode]
<1> SUFFICES r \in Loose /\ Marked(t, r)
  OBVIOUS
<1> HIDE DEF r
<1>0. /\ t.buf \in Cells /\ t.dirty \in Marks /\ t.cursor \in [x : Int, y : Int] /\ t.cursor.x \in Int /\ t.cursor.y \in Int
      /\ t.saved \in T!Place /\ t.cursor \in T!Place /\ t.mode \in Modes /\ t \in Loose
  BY GridIs, GridIsLoose DEF Loose
<1>1. \/ e[1] \in {"movefirst", "save", "restore", "clear", "erase", "raw", "cook"}
      \/ e[1] \in {"up", "down", "left", "right"} /\ e[2] \in Nat
      \/ e[1] = "move" /\ e[2] \in Nat /\ e[3] \in Nat
  BY DEF T!Element, T!Text
<1>2. ASSUME NEW c \in [x : Int, y : Int], r = [t EXCEPT !.cursor = c]
      PROVE  r \in Loose /\ Marked(t, r)
  <2>1. r = At(c)
    BY <1>2 DEF T!Grid
  <2>2. r \in Loose
    BY <1>0, <2>1 DEF Loose
  <2>3. r.buf = t.buf /\ r.dirty = t.dirty
    BY <2>1
  <2> QED BY <2>2, <2>3 DEF Marked
<1>3. ASSUME r \in T!Grid, r.buf = t.buf, r.dirty = t.dirty PROVE r \in Loose /\ Marked(t, r)
  BY <1>3, GridIsLoose DEF Marked
<1>4. CASE e[1] = "move"
  <2>1. e[3] - 1 \in Int /\ e[2] - 1 \in Int
    BY <1>1, <1>4
  <2>2. r = [t EXCEPT !.cursor = [x |-> e[3] - 1, y |-> e[2] - 1]]
    BY <1>4 DEF T!Escape, r
  <2> QED BY <1>2, <2>1, <2>2
<1>5. CASE e[1] = "movefirst"
  <2>1. r = [t EXCEPT !.cursor = [x |-> 0, y |-> 0]]
    BY <1>5 DEF T!Escape, r
  <2>2. [x |-> 0, y |-> 0] \in [x : Int, y : Int]
    OBVIOUS
  <2> QED BY <1>2, <2>1, <2>2
<1>6. CASE e[1] \in {"up", "down", "left", "right"}
  <2>0. e[2] \in Nat
    BY <1>1, <1>6
  <2>1. ASSUME NEW n \in Int, r = [t EXCEPT !.cursor.x = n] PROVE r \in Loose /\ Marked(t, r)
    <3> DEFINE c == [t.cursor EXCEPT !.x = n]
    <3>1. c \in [x : Int, y : Int]
      BY <1>0
    <3>2. r = [t EXCEPT !.cursor = c]
      BY <2>1 DEF T!Grid
    <3> HIDE DEF c
    <3> QED BY <1>2, <3>1, <3>2
  <2>2. ASSUME NEW n \in Int, r = [t EXCEPT !.cursor.y = n] PROVE r \in Loose /\ Marked(t, r)
    <3> DEFINE c == [t.cursor EXCEPT !.y = n]
    <3>1. c \in [x : Int, y : Int]
      BY <1>0
    <3>2. r = [t EXCEPT !.cursor = c]
      BY <2>2 DEF T!Grid
    <3> HIDE DEF c
    <3> QED BY <1>2, <3>1, <3>2
  <2>3. \/ r = [t EXCEPT !.cursor.y = t.cursor.y - e[2]]
        \/ r = [t EXCEPT !.cursor.y = t.cursor.y + e[2]]
        \/ r = [t EXCEPT !.cursor.x = t.cursor.x - e[2]]
        \/ r = [t EXCEPT !.cursor.x = t.cursor.x + e[2]]
    BY <1>6 DEF T!Escape, r
  <2>4. t.cursor.y - e[2] \in Int /\ t.cursor.y + e[2] \in Int /\ t.cursor.x - e[2] \in Int /\ t.cursor.x + e[2] \in Int
    BY <1>0, <2>0
  <2> QED BY <2>1, <2>2, <2>3, <2>4
<1>7. CASE e[1] = "save"
  <2>1. r = [t EXCEPT !.saved = t.cursor]
    BY <1>7 DEF T!Escape, r
  <2>2. r = [buf |-> t.buf, dirty |-> t.dirty, cursor |-> t.cursor, saved |-> t.cursor, mode |-> t.mode]
    BY <2>1 DEF T!Grid
  <2>3. r \in T!Grid
    BY <1>0, <2>2, GridOf
  <2> QED BY <1>3, <2>2, <2>3
<1>8. CASE e[1] = "restore"
  <2>1. r = [t EXCEPT !.cursor = t.saved]
    BY <1>8 DEF T!Escape, r
  <2>2. t.saved \in [x : Int, y : Int]
    BY <1>0, Sizes DEF T!Place
  <2> QED BY <1>2, <2>1, <2>2
<1>9. CASE e[1] = "clear"
  <2> DEFINE u == T!Blank(t, 0, w * h - 1)
             c == [x |-> 0, y |-> 0]
  <2>1. r = [u EXCEPT !.cursor = c]
    BY <1>9 DEF T!Escape, r
  <2>2. c \in T!Place
    BY Sizes DEF T!Place
  <2>3. u \in T!Grid /\ Marked(t, u)
    BY BlankIs
  <2> HIDE DEF u, c
  <2>4. r \in T!Grid /\ Marked(u, r)
    BY <2>1, <2>2, <2>3, Moved
  <2>5. r.buf = u.buf /\ r.dirty = u.dirty
    BY <2>1, <2>3 DEF T!Grid
  <2> QED BY <2>3, <2>4, <2>5, GridIsLoose DEF Marked
<1>10. CASE e[1] = "erase"
  <2>1. r = T!Blank(t, T!At(t.cursor.x, t.cursor.y), T!At(w - 1, t.cursor.y))
    BY <1>10 DEF T!Escape, r
  <2> QED BY <2>1, BlankIs, GridIsLoose
<1>11. CASE e[1] \in {"raw", "cook"}
  <2>1. r = [t EXCEPT !.mode = e[1]]
    BY <1>11 DEF T!Escape, r
  <2>2. r = [buf |-> t.buf, dirty |-> t.dirty, cursor |-> t.cursor, saved |-> t.saved, mode |-> e[1]]
    BY <2>1 DEF T!Grid
  <2>3. r \in T!Grid
    BY <1>0, <1>11, <2>2, GridOf DEF Modes
  <2> QED BY <1>3, <2>2, <2>3
<1> QED BY <1>1, <1>4, <1>5, <1>6, <1>7, <1>8, <1>9, <1>10, <1>11

\* Whatever is printed keeps the cursor in the grid and marks what it changes.
LEMMA PutIs ==
  ASSUME NEW t \in T!Grid, NEW e \in T!Element
  PROVE  T!Put(t, e) \in T!Grid /\ Marked(t, T!Put(t, e))
<1> DEFINE r == T!Put(t, e)
<1>0. t.cursor.x \in 0..w - 1 /\ t.cursor.y \in 0..h - 1 /\ w \in Nat \ {0}
  BY GridIs, Sizes
<1>1. CASE e[1] = "ch"
  <2> DEFINE i == T!At(t.cursor.x, t.cursor.y)
             u == T!putch(t, i, e[2])
  <2>1. e[2] \in Char
    BY <1>1 DEF T!Element, T!Text
  <2>2. u \in T!Grid /\ Marked(t, u)
    BY <1>0, <2>1, AtIs, putchIs
  <2>3. r = T!move_one(u)
    BY <1>1 DEF T!Put
  <2> HIDE DEF u, r
  <2>4. r \in T!Grid /\ Marked(u, r)
    BY <2>2, <2>3, move_oneIs
  <2>5. Marked(t, r)
    BY <2>2, <2>4 DEF Marked
  <2> QED BY <2>4, <2>5 DEF r
<1>2. CASE e[1] = "\n"
  <2>1. r = T!Down(t, 0) /\ 0 \in 0..w - 1
    BY <1>0, <1>2 DEF T!Put
  <2> HIDE DEF r
  <2>2. r \in T!Grid /\ Marked(t, r)
    BY <2>1, DownIs
  <2> QED BY <2>2 DEF r
<1>3. CASE e[1] = "\r"
  <2> DEFINE c == [x |-> 0, y |-> t.cursor.y]
  <2>1. r = [t EXCEPT !.cursor.x = 0]
    BY <1>3 DEF T!Put
  <2> HIDE DEF r
  <2>2. r = [t EXCEPT !.cursor = c]
    BY <2>1 DEF T!Grid, T!Place
  <2>3. c \in T!Place
    BY <1>0 DEF T!Place
  <2> HIDE DEF c
  <2>4. r \in T!Grid /\ Marked(t, r)
    BY <2>2, <2>3, Moved
  <2> QED BY <2>4 DEF r
<1>4. CASE e[1] = "bell"
  <2>1. r = t
    BY <1>4 DEF T!Put
  <2> HIDE DEF r
  <2>2. r \in T!Grid /\ Marked(t, r)
    BY <2>1 DEF Marked
  <2> QED BY <2>2 DEF r
<1>5. CASE e[1] \notin {"ch", "\n", "\r", "bell"}
  <2> DEFINE u == T!Escape(t, e)
  <2>1. r = T!Clamped(u)
    BY <1>5 DEF T!Put
  <2>2. u \in Loose /\ Marked(t, u)
    BY <1>5, EscapeIs
  <2> HIDE DEF u, r
  <2>3. r \in T!Grid /\ r.buf = u.buf /\ r.dirty = u.dirty
    BY <2>1, <2>2, ClampedIs
  <2>4. Marked(t, r)
    BY <2>2, <2>3 DEF Marked
  <2> QED BY <2>3, <2>4 DEF r
<1> QED BY <1>1, <1>2, <1>3, <1>4, <1>5

-----------------------------------------------------------------------------
(* Steps of the terminal.                                                  *)

TermInv == T!TypeOK /\ T!StaleIsDirty

LEMMA SessionIs ==
  ASSUME NEW s \in Sessions
  PROVE  /\ s.built_in \in BOOLEAN /\ s.banner \in Seq(T!Element)
         /\ s.prints \subseteq T!Element /\ s.keys \subseteq T!Key
         /\ s.built_in => s.banner \in Seq(T!Text) /\ s.prints = {}
<1>1. s \in T!Session /\ (s.built_in => s.banner \in Seq(T!Text) /\ s.prints = {})
  BY DesktopAssumption DEF T!TerminalAssumption
<1> QED BY <1>1 DEF T!Session

LEMMA CharIs ==
  ASSUME NEW ch \in Char
  PROVE  ch \notin {T!EMPTY, T!NUL, T!NoKey, "esc", "enter", "backspace"} /\ <<"ch", ch>> \in T!Element
<1>1. ch \notin {T!EMPTY, T!NUL, T!NoKey, "esc", "enter", "backspace"}
  BY DesktopAssumption DEF T!TerminalAssumption
<1>2. <<"ch", ch>> \in T!Element
  BY DEF T!Element, T!Text
<1> QED BY <1>1, <1>2

LEMMA EchoIs ==
  ASSUME NEW t \in T!Grid, NEW ch
  PROVE  T!Echo(t, ch) \in T!Grid /\ Marked(t, T!Echo(t, ch))
<1> DEFINE r == T!Echo(t, ch)
<1> SUFFICES r \in T!Grid /\ Marked(t, r)
  OBVIOUS
<1> HIDE DEF r
<1>1. \/ r = T!Put(t, <<"\n">>)
      \/ r = T!backspace(t)
      \/ ch \in Char /\ r = T!Put(t, <<"ch", ch>>)
      \/ r = t
  BY DEF T!Echo, r
<1>2. CASE r = T!Put(t, <<"\n">>)
  <2>1. <<"\n">> \in T!Element
    BY DEF T!Element, T!Text
  <2> QED BY <1>2, <2>1, PutIs
<1>3. CASE r = T!backspace(t)
  BY <1>3, backspaceIs
<1>4. CASE ch \in Char /\ r = T!Put(t, <<"ch", ch>>)
  BY <1>4, CharIs, PutIs
<1>5. CASE r = t
  BY <1>5 DEF Marked
<1> QED BY <1>1, <1>2, <1>3, <1>4, <1>5

\* After a refresh the picture differs from the grid under the cursor at most,
\* and that cell is marked.
LEMMA Refreshed ==
  ASSUME NEW t \in T!Grid, T!refresh_terminal(t),
         \A i \in T!Cell : picture[i] # t.buf[i] => t.dirty[i]
  PROVE  /\ term' \in T!Grid /\ T!StaleIsDirty'
         /\ term'.buf = t.buf /\ term'.cursor = t.cursor /\ term'.mode = t.mode
<1> DEFINE i == T!At(t.cursor.x, t.cursor.y)
           d == [k \in T!Cell |-> k = i]
<1>1. term' = [t EXCEPT !.dirty = d]
  BY DEF T!refresh_terminal, T!Cleared
<1>2. d \in Marks
  BY DEF Marks
<1>3. term' = [buf |-> t.buf, dirty |-> d, cursor |-> t.cursor, saved |-> t.saved, mode |-> t.mode]
  <2> HIDE DEF d
  <2> QED BY <1>1 DEF T!Grid
<1>4. PICK tick \in BOOLEAN :
        picture' = [k \in T!Cell |->
                      IF k = i /\ (tick \/ \E j \in T!Cell : t.dirty[j]) THEN "block"
                      ELSE IF t.dirty[k] THEN t.buf[k] ELSE picture[k]]
  BY DEF T!refresh_terminal
<1>5. ASSUME NEW k \in T!Cell, picture'[k] # t.buf[k] PROVE d[k]
  BY <1>4, <1>5
<1> HIDE DEF d
<1>6. term' \in T!Grid
  BY <1>2, <1>3, GridIs, GridOf
<1>7. term'.buf = t.buf /\ term'.dirty = d /\ term'.cursor = t.cursor /\ term'.mode = t.mode
  BY <1>3
<1>8. T!StaleIsDirty'
  BY <1>5, <1>7 DEF T!StaleIsDirty, T!Cell
<1> QED BY <1>6, <1>7, <1>8

Inputs == [1..MaxInput -> T!Key \cup {T!NUL}]

\* Keys keep the line in its array.
LEMMA KeyTypes ==
  ASSUME NEW ch \in T!Key \cup {T!NoKey}, input \in Inputs, inp_len \in 0..MaxInput - 1, NEW t,
         \/ ch = T!NoKey /\ T!Quiet
         \/ ch # T!NoKey /\ T!RawKey(t, ch)
         \/ T!Enter(t, ch) \/ T!Erase(t, ch) \/ T!Type(t, ch) \/ T!Dropped(t, ch)
  PROVE  input' \in Inputs /\ inp_len' \in 0..MaxInput - 1
<1>0. MaxInput \in Nat /\ MaxInput >= 2
  BY Sizes
<1>1. CASE ch = T!NoKey /\ T!Quiet
  BY <1>1 DEF T!Quiet
<1>2. CASE ch # T!NoKey /\ T!RawKey(t, ch)
  <2>1. ch \in T!Key \cup {T!NUL}
    BY <1>2
  <2>2. input' = [input EXCEPT ![1] = ch, ![2] = T!NUL] /\ inp_len' = inp_len
    BY <1>2 DEF T!RawKey
  <2>3. input' \in Inputs
    BY <1>0, <2>1, <2>2 DEF Inputs
  <2> QED BY <2>2, <2>3
<1>3. CASE T!Enter(t, ch)
  BY <1>0, <1>3 DEF T!Enter, Inputs
<1>4. CASE T!Erase(t, ch)
  <2>1. inp_len' \in 0..MaxInput - 1 /\ input' = [input EXCEPT ![inp_len' + 1] = T!NUL]
    BY <1>0, <1>4 DEF T!Erase
  <2>2. input' \in Inputs
    BY <1>0, <2>1 DEF Inputs
  <2> QED BY <2>1, <2>2
<1>5. CASE T!Type(t, ch)
  <2>0. ch \in T!Key
    BY <1>5 DEF T!Type, T!Key
  <2>1. CASE inp_len + 1 < MaxInput
    <3>1. inp_len' = inp_len + 1 /\ input' = [input EXCEPT ![inp_len + 1] = ch, ![inp_len + 2] = T!NUL]
      BY <1>5, <2>1 DEF T!Type
    <3>2. input' \in Inputs
      BY <1>0, <2>0, <2>1, <3>1 DEF Inputs
    <3> QED BY <1>0, <2>1, <3>1, <3>2
  <2>2. CASE ~(inp_len + 1 < MaxInput)
    BY <1>0, <1>5, <2>2 DEF T!Type, Inputs
  <2> QED BY <2>1, <2>2
<1>6. CASE T!Dropped(t, ch)
  BY <1>0, <1>6 DEF T!Dropped, Inputs
<1> QED BY <1>1, <1>2, <1>3, <1>4, <1>5, <1>6

LEMMA InitTerm == T!Init => TermInv
<1> SUFFICES ASSUME T!Init PROVE TermInv
  OBVIOUS
<1>0. MaxInput \in Nat /\ MaxInput >= 2 /\ w \in Nat \ {0} /\ h \in Nat \ {0}
  BY Sizes
<1> DEFINE b == [i \in T!Cell |-> T!EMPTY]
           d == [i \in T!Cell |-> TRUE]
           c == [x |-> 0, y |-> 0]
<1>1. term = [buf |-> b, dirty |-> d, cursor |-> c, saved |-> c, mode |-> "cook"]
  BY DEF T!Init, T!Fresh
<1>2. b \in Cells /\ d \in Marks /\ c \in T!Place /\ "cook" \in Modes
  BY <1>0 DEF Cells, Marks, T!Place, Modes
<1>3. \A i \in T!Cell : d[i]
  OBVIOUS
<1> HIDE DEF b, d, c
<1>4. term \in T!Grid
  BY <1>1, <1>2, GridOf
<1>5. T!StaleIsDirty
  BY <1>1, <1>3 DEF T!StaleIsDirty
<1>6. session \in Sessions /\ out = session.banner /\ inp_len = 0 /\ input = [i \in 1..MaxInput |-> T!NUL]
  BY DEF T!Init
<1>7. out \in Seq(T!Element)
  BY <1>6, SessionIs
<1>8. input \in [1..MaxInput -> T!Key \cup {T!NUL}] /\ inp_len \in 0..MaxInput - 1
  BY <1>0, <1>6
<1> QED BY <1>4, <1>5, <1>6, <1>7, <1>8 DEF TermInv, T!TypeOK

\* A step prints an element, or handles a key and refreshes what that left.
Echoed(ch) == IF ch = T!NoKey THEN term ELSE T!Echo(term, ch)

LEMMA EchoedIs ==
  ASSUME TermInv, NEW ch
  PROVE  /\ Echoed(ch) \in T!Grid
         /\ \A i \in T!Cell : picture[i] # Echoed(ch).buf[i] => Echoed(ch).dirty[i]
<1>1. term \in T!Grid /\ T!StaleIsDirty
  BY DEF TermInv, T!TypeOK
<1>2. Echoed(ch) \in T!Grid /\ Marked(term, Echoed(ch))
  BY <1>1, EchoIs DEF Echoed, Marked
<1> QED BY <1>1, <1>2 DEF T!StaleIsDirty, Marked

LEMMA StepTerm == TermInv /\ [T!Next]_(T!vars) => TermInv'
<1> SUFFICES ASSUME TermInv, [T!Next]_(T!vars) PROVE TermInv'
  OBVIOUS
<1>0. /\ session \in Sessions /\ out \in Seq(T!Element) /\ term \in T!Grid
      /\ input \in Inputs /\ inp_len \in 0..MaxInput - 1 /\ T!StaleIsDirty
  BY DEF TermInv, T!TypeOK, Inputs
<1>1. CASE T!write
  <2>1. PICK e \in T!Element : term' = T!Put(term, e) /\ out' \in Seq(T!Element)
    <3>1. CASE out # <<>> /\ out' = Tail(out) /\ term' = T!Put(term, Head(out))
      <4>1. Head(out) \in T!Element /\ Tail(out) \in Seq(T!Element)
        BY <1>0, <3>1
      <4> QED BY <3>1, <4>1
    <3>2. CASE out = <<>> /\ out' = out /\ \E e \in session.prints : term' = T!Put(term, e)
      BY <1>0, <3>2, SessionIs
    <3> QED BY <1>1, <3>1, <3>2 DEF T!write
  <2>2. UNCHANGED <<session, input, inp_len, result, picture>>
    BY <1>1 DEF T!write
  <2>3. term' \in T!Grid /\ Marked(term, term')
    BY <1>0, <2>1, PutIs
  <2>4. T!StaleIsDirty'
    BY <1>0, <2>2, <2>3 DEF T!StaleIsDirty, Marked, T!Cell
  <2>5. T!TypeOK'
    BY <1>0, <2>1, <2>2, <2>3 DEF T!TypeOK, Inputs, T!Grid, T!Cell, T!Place, T!Key, T!Element, T!Text
  <2> QED BY <2>4, <2>5 DEF TermInv
<1>2. ASSUME NEW ch \in session.keys \cup {T!NoKey}, T!Iteration(ch) PROVE TermInv'
  <2>1. ch \in T!Key \cup {T!NoKey}
    BY <1>0, SessionIs
  <2>2. T!refresh_terminal(Echoed(ch)) /\ UNCHANGED <<session, out>>
    BY <1>2 DEF T!Iteration, Echoed
  <2>3. \/ ch = T!NoKey /\ T!Quiet
        \/ ch # T!NoKey /\ T!RawKey(term, ch)
        \/ T!Enter(term, ch) \/ T!Erase(term, ch) \/ T!Type(term, ch) \/ T!Dropped(term, ch)
    BY <1>2 DEF T!Iteration
  <2>4. input' \in Inputs /\ inp_len' \in 0..MaxInput - 1
    BY <1>0, <2>1, <2>3, KeyTypes
  <2>5. term' \in T!Grid /\ T!StaleIsDirty'
    BY <2>2, EchoedIs, Refreshed
  <2>6. T!TypeOK'
    BY <1>0, <2>2, <2>4, <2>5 DEF T!TypeOK, Inputs, T!Grid, T!Cell, T!Place, T!Key, T!Element, T!Text
  <2> QED BY <2>5, <2>6 DEF TermInv
<1>3. CASE UNCHANGED T!vars
  BY <1>0, <1>3 DEF T!vars, TermInv, T!TypeOK, T!StaleIsDirty, T!Grid, T!Cell, T!Place, T!Key, T!Element, T!Text, Inputs
<1> QED BY <1>1, <1>2, <1>3 DEF T!Next

-----------------------------------------------------------------------------
(* The line at the prompt.                                                 *)

Cursor(t) == T!At(t.cursor.x, t.cursor.y)

LEMMA CursorIs ==
  ASSUME NEW t \in T!Grid
  PROVE  Cursor(t) \in T!Cell /\ Cursor(t) \in Nat /\ Cursor(t) < w * h
<1>1. t.cursor.x \in 0..w - 1 /\ t.cursor.y \in 0..h - 1
  BY GridIs
<1>2. Cursor(t) \in T!Cell
  BY <1>1, AtIs DEF Cursor
<1>3. w * h \in Nat
  BY Sizes
<1> QED BY <1>2, <1>3 DEF T!Cell

\* What the shell's line and grid are to each other.
LineInv ==
  session.built_in =>
    /\ term.mode = "cook"
    /\ out \in Seq(T!Text) /\ (out # <<>> => inp_len = 0)
    /\ \A k \in 1..inp_len : input[k] \in Char
    /\ input[inp_len + 1] = T!NUL
    /\ inp_len <= Cursor(term)
    /\ \A k \in 1..inp_len : term.buf[Cursor(term) - inp_len + k - 1] = input[k]

LEMMA LineIs ==
  ASSUME TermInv, LineInv, session.built_in
  PROVE  Len(T!Line) = inp_len /\ \A k \in 1..inp_len : T!Line[k] = input[k]
<1> DEFINE P(n) == (n < MaxInput => input[n + 1] = T!NUL) /\ \A i \in 1..n : input[i] # T!NUL
           n == CHOOSE k \in 0..MaxInput : P(k)
<1>1. /\ MaxInput \in Nat /\ inp_len \in 0..MaxInput - 1 /\ input \in Inputs
      /\ input[inp_len + 1] = T!NUL /\ \A k \in 1..inp_len : input[k] # T!NUL
  <2>1. MaxInput \in Nat
    BY Sizes
  <2>2. inp_len \in 0..MaxInput - 1 /\ input \in Inputs
    BY DEF TermInv, T!TypeOK, Inputs
  <2>3. input[inp_len + 1] = T!NUL /\ \A k \in 1..inp_len : input[k] \in Char
    BY DEF LineInv
  <2>4. \A ch \in Char : ch # T!NUL
    BY CharIs
  <2> QED BY <2>1, <2>2, <2>3, <2>4
<1>2. P(inp_len) /\ inp_len \in 0..MaxInput
  BY <1>1
<1>3. ASSUME NEW k \in 0..MaxInput, P(k) PROVE k = inp_len
  <2>1. CASE k < inp_len
    <3>1. k < MaxInput /\ k + 1 \in 1..inp_len
      BY <1>1, <2>1
    <3> QED BY <1>1, <1>3, <3>1
  <2>2. CASE k > inp_len
    <3>1. inp_len + 1 \in 1..k
      BY <1>1, <2>2
    <3> QED BY <1>1, <1>3, <3>1
  <2> QED BY <1>1, <2>1, <2>2
<1>4. n = inp_len
  <2> HIDE DEF P
  <2>1. P(n) /\ n \in 0..MaxInput
    BY <1>2
  <2> QED BY <1>3, <2>1
<1>5. T!Line = SubSeq(input, 1, n)
  BY DEF T!Line
<1> HIDE DEF n
<1>6. input \in Seq(T!Key \cup {T!NUL}) /\ Len(input) = MaxInput
  BY <1>1 DEF Inputs
<1>7. Len(SubSeq(input, 1, inp_len)) = inp_len /\ \A k \in 1..inp_len : SubSeq(input, 1, inp_len)[k] = input[k]
  BY <1>1, <1>6
<1> QED BY <1>4, <1>5, <1>7

\* Text does not change the mode.
LEMMA TextMode ==
  ASSUME NEW t \in T!Grid, NEW e \in T!Text PROVE e \in T!Element /\ T!Put(t, e).mode = t.mode
<1>1. e \in T!Element
  BY DEF T!Element
<1>2. CASE e[1] = "ch"
  <2> DEFINE u == T!putch(t, Cursor(t), e[2])
  <2>1. e[2] \in Char
    BY <1>2 DEF T!Text
  <2>2. u \in T!Grid /\ u.mode = t.mode
    BY <2>1, CursorIs, putchIs, ZenonT(60)
  <2>3. T!Put(t, e) = T!move_one(u)
    BY <1>2 DEF T!Put, Cursor
  <2> HIDE DEF u
  <2> QED BY <1>1, <2>2, <2>3, move_oneIs
<1>3. CASE e[1] # "ch"
  <2>1. e[1] = "\n"
    BY <1>3 DEF T!Text
  <2>2. T!Put(t, e) = T!Down(t, 0) /\ 0 \in 0..w - 1
    BY <2>1, Sizes DEF T!Put
  <2> QED BY <1>1, <2>2, DownIs, ZenonT(60)
<1> QED BY <1>2, <1>3

\* A character is printed behind the last n; if the grid scrolls, all move.
LEMMA TypedIs ==
  ASSUME NEW t \in T!Grid, NEW ch \in Char, NEW n \in Nat, n <= Cursor(t), n + 1 <= w * (h - 1)
  PROVE  LET r == T!Put(t, <<"ch", ch>>) IN
         /\ n + 1 <= Cursor(r) /\ r.buf[Cursor(r) - 1] = ch
         /\ \A k \in 1..n : r.buf[Cursor(r) - (n + 1) + k - 1] = t.buf[Cursor(t) - n + k - 1]
<1> DEFINE r == T!Put(t, <<"ch", ch>>)
           i == Cursor(t)
           u == T!putch(t, i, ch)
           x == t.cursor.x
           y == t.cursor.y
           c == Cursor(r)
<1>0. /\ w \in Nat \ {0} /\ h \in Nat \ {0} /\ x \in 0..w - 1 /\ y \in 0..h - 1
      /\ i \in T!Cell /\ i = y * w + x /\ y * w \in Nat
  BY Sizes, GridIs, AtIs DEF Cursor
<1>1. u \in T!Grid /\ u.buf = [t.buf EXCEPT ![i] = ch] /\ u.cursor = t.cursor
  BY <1>0, putchIs
<1>2. r = T!move_one(u)
  BY DEF T!Put, Cursor
<1>3. u.buf[i] = ch /\ \A j \in T!Cell : j # i => u.buf[j] = t.buf[j]
  BY <1>0, <1>1, GridIs DEF Cells
<1>4. i \in Nat /\ i < w * h /\ w * h \in Nat /\ T!Cell = 0..w * h - 1
  BY <1>0, Sizes DEF T!Cell
<1> HIDE DEF u, r, i
<1>5. ASSUME c = i + 1, r.buf = u.buf
      PROVE  /\ n + 1 <= c /\ r.buf[c - 1] = ch
             /\ \A k \in 1..n : r.buf[c - (n + 1) + k - 1] = t.buf[i - n + k - 1]
  <2> HIDE DEF c
  <2>0. n <= i
    BY DEF i
  <2>1. ASSUME NEW k \in 1..n PROVE r.buf[c - (n + 1) + k - 1] = t.buf[i - n + k - 1]
    <3>1. c - (n + 1) + k - 1 = i - n + k - 1 /\ i - n + k - 1 \in T!Cell /\ i - n + k - 1 # i
      BY <1>4, <1>5, <2>0
    <3> QED BY <1>3, <1>5, <3>1
  <2>2. c - 1 = i /\ n + 1 <= c
    BY <1>4, <1>5, <2>0
  <2> QED BY <1>3, <1>5, <2>1, <2>2
<1>6. CASE x # w - 1
  <2>1. r.cursor = [x |-> x + 1, y |-> y] /\ r.buf = u.buf
    BY <1>1, <1>2, <1>6, move_oneIs
  <2>2. r.cursor.x = x + 1 /\ r.cursor.y = y
    BY <2>1
  <2>3. c = i + 1
    BY <1>0, <2>2 DEF Cursor, T!At
  <2> QED BY <1>5, <2>1, <2>3 DEF i, r
<1>7. CASE x = w - 1 /\ y # h - 1
  <2>0. u.cursor.x = w - 1 /\ 0 \in 0..w - 1
    BY <1>0, <1>1, <1>7
  <2>1. r = T!Down(u, 0)
    BY <1>1, <1>2, <2>0, move_oneIs
  <2>2. r.cursor = [x |-> 0, y |-> y + 1] /\ r.buf = u.buf
    BY <1>1, <1>7, <2>0, <2>1, DownIs
  <2>3. r.cursor.x = 0 /\ r.cursor.y = y + 1
    BY <2>2
  <2>4. (y + 1) * w = y * w + w
    BY <1>0
  <2>5. c = i + 1
    BY <1>0, <1>7, <2>3, <2>4 DEF Cursor, T!At
  <2> QED BY <1>5, <2>2, <2>5 DEF i, r
<1>8. CASE x = w - 1 /\ y = h - 1
  <2>0. u.cursor.x = w - 1 /\ 0 \in 0..w - 1
    BY <1>0, <1>1, <1>8
  <2>1. r = T!Down(u, 0)
    BY <1>1, <1>2, <2>0, move_oneIs
  <2>2. r.cursor = [x |-> 0, y |-> h - 1] /\ r.buf = Scrolled(u.buf)
    BY <1>1, <1>8, <2>0, <2>1, DownIs
  <2>3. r.cursor.x = 0 /\ r.cursor.y = h - 1
    BY <2>2
  <2>4. c = y * w
    BY <1>0, <1>8, <2>3 DEF Cursor, T!At
  <2>5. c + w = i + 1 /\ c \in Nat
    BY <1>0, <1>8, <2>4
  <2>6. c = w * (h - 1)
    BY <1>0, <1>8, <2>4
  <2>7. n + 1 <= c
    BY <2>6
  <2> HIDE DEF c, x, y
  <2>8. ASSUME NEW j \in 0..c - 1 PROVE r.buf[j] = u.buf[j + w]
    <3>1. j \in T!Cell /\ j + w \in T!Cell
      BY <1>0, <1>4, <2>5
    <3> QED BY <2>2, <3>1 DEF Scrolled
  <2>9. r.buf[c - 1] = ch
    <3>1. c - 1 \in 0..c - 1 /\ (c - 1) + w = i
      BY <1>0, <2>5, <2>7
    <3> QED BY <1>3, <2>8, <3>1
  <2>10. ASSUME NEW k \in 1..n PROVE r.buf[c - (n + 1) + k - 1] = t.buf[i - n + k - 1]
    <3> DEFINE j == c - (n + 1) + k - 1
    <3>1. j \in 0..c - 1 /\ j + w = i - n + k - 1 /\ j + w # i /\ j + w \in T!Cell
      BY <1>0, <1>4, <2>5, <2>7
    <3> HIDE DEF j
    <3>2. r.buf[j] = t.buf[i - n + k - 1]
      BY <1>3, <2>8, <3>1
    <3> QED BY <3>2 DEF j
  <2> QED BY <2>7, <2>9, <2>10 DEF c, i, r
<1> QED BY <1>6, <1>7, <1>8

\* backspace takes the last of the n + 1 characters before the cursor.
LEMMA ErasedIs ==
  ASSUME NEW t \in T!Grid, NEW n \in Nat, n + 1 <= Cursor(t)
  PROVE  LET r == T!backspace(t) IN
         /\ n <= Cursor(r)
         /\ \A k \in 1..n : r.buf[Cursor(r) - n + k - 1] = t.buf[Cursor(t) - (n + 1) + k - 1]
<1> DEFINE r == T!backspace(t)
           i == Cursor(t)
           c == Cursor(r)
<1>1. i \in T!Cell /\ i \in Nat /\ i < w * h /\ T!Cell = 0..w * h - 1 /\ w * h \in Nat
  BY CursorIs, Sizes DEF T!Cell
<1>2. i > 0
  BY <1>1
<1>3. /\ c \in T!Cell /\ r.buf = [t.buf EXCEPT ![c] = T!EMPTY]
      /\ i > 0 => c = i - 1
  BY backspaceIs DEF Cursor
<1>4. c = i - 1
  BY <1>2, <1>3
<1> HIDE DEF r, i, c
<1>5. \A j \in T!Cell : j # c => r.buf[j] = t.buf[j]
  BY <1>3, GridIs DEF Cells
<1>6. n <= c
  BY <1>1, <1>4 DEF i
<1>7. ASSUME NEW k \in 1..n PROVE r.buf[c - n + k - 1] = t.buf[i - (n + 1) + k - 1]
  <2>1. c - n + k - 1 = i - (n + 1) + k - 1 /\ c - n + k - 1 \in T!Cell /\ c - n + k - 1 # c
    BY <1>1, <1>4, <1>6
  <2> QED BY <1>5, <2>1
<1> QED BY <1>6, <1>7 DEF c, i, r

LEMMA InitLine == T!Init => LineInv
<1> SUFFICES ASSUME T!Init, session.built_in
             PROVE  /\ term.mode = "cook"
                    /\ out \in Seq(T!Text) /\ (out # <<>> => inp_len = 0)
                    /\ \A k \in 1..inp_len : input[k] \in Char
                    /\ input[inp_len + 1] = T!NUL
                    /\ inp_len <= Cursor(term)
                    /\ \A k \in 1..inp_len : term.buf[Cursor(term) - inp_len + k - 1] = input[k]
  BY DEF LineInv
<1>1. session \in Sessions /\ out = session.banner /\ term = T!Fresh /\ inp_len = 0
      /\ input = [i \in 1..MaxInput |-> T!NUL]
  BY DEF T!Init
<1>2. out \in Seq(T!Text)
  BY <1>1, SessionIs
<1>3. term.mode = "cook" /\ term.cursor.x = 0 /\ term.cursor.y = 0
  BY <1>1 DEF T!Fresh
<1>4. input[inp_len + 1] = T!NUL
  BY <1>1, Sizes
<1>5. Cursor(term) = 0
  BY <1>3, Sizes DEF Cursor, T!At
<1> QED BY <1>1, <1>2, <1>3, <1>4, <1>5

\* What a key of the built-in shell does to the line and to the grid, before the
\* refresh.
LEMMA KeyLine ==
  ASSUME TermInv, LineInv, session.built_in, NEW ch \in T!Key \cup {T!NoKey}, T!Iteration(ch)
  PROVE  LET r == Echoed(ch) IN
         /\ r.mode = "cook"
         /\ \A k \in 1..inp_len' : input'[k] \in Char
         /\ input'[inp_len' + 1] = T!NUL
         /\ inp_len' <= Cursor(r)
         /\ \A k \in 1..inp_len' : r.buf[Cursor(r) - inp_len' + k - 1] = input'[k]
<1> DEFINE r == Echoed(ch)
           n == inp_len
<1> SUFFICES /\ r.mode = "cook"
             /\ \A k \in 1..inp_len' : input'[k] \in Char
             /\ input'[inp_len' + 1] = T!NUL
             /\ inp_len' <= Cursor(r)
             /\ \A k \in 1..inp_len' : r.buf[Cursor(r) - inp_len' + k - 1] = input'[k]
  OBVIOUS
<1> HIDE DEF r
<1>1. /\ term \in T!Grid /\ input \in Inputs /\ n \in 0..MaxInput - 1
      /\ MaxInput \in Nat /\ MaxInput >= 2 /\ w * (h - 1) \in Nat /\ MaxInput <= w * (h - 1) + 1
  BY Sizes DEF TermInv, T!TypeOK, Inputs
<1>2. /\ term.mode = "cook" /\ \A k \in 1..n : input[k] \in Char
      /\ input[n + 1] = T!NUL /\ n <= Cursor(term)
      /\ \A k \in 1..n : term.buf[Cursor(term) - n + k - 1] = input[k]
  BY DEF LineInv
<1>4. r \in T!Grid
  BY EchoedIs DEF r
<1>5. ASSUME r = term, inp_len' = n, \A k \in 1..n + 1 : input'[k] = input[k]
      PROVE  /\ r.mode = "cook"
             /\ \A k \in 1..inp_len' : input'[k] \in Char
             /\ input'[inp_len' + 1] = T!NUL
             /\ inp_len' <= Cursor(r)
             /\ \A k \in 1..inp_len' : r.buf[Cursor(r) - inp_len' + k - 1] = input'[k]
  <2>1. n + 1 \in 1..n + 1 /\ 1..n \subseteq 1..n + 1
    BY <1>1
  <2> QED BY <1>2, <1>5, <2>1
<1>6. CASE ch = T!NoKey /\ T!Quiet
  <2>1. r = term /\ inp_len' = n /\ input' = input
    BY <1>6 DEF Echoed, T!Quiet, r
  <2> QED BY <1>5, <2>1
<1>7. CASE T!Dropped(term, ch)
  <2>1. ch = "esc" /\ inp_len' = n /\ input' = [input EXCEPT ![n + 1] = T!NUL]
    BY <1>7 DEF T!Dropped
  <2>2. r = term
    BY <2>1, CharIs DEF Echoed, T!Echo, T!NoKey, r
  <2>3. n + 1 \in 1..MaxInput
    BY <1>1
  <2>4. \A k \in 1..n + 1 : input'[k] = input[k]
    BY <1>1, <1>2, <2>1, <2>3 DEF Inputs
  <2> QED BY <1>5, <2>1, <2>2, <2>4
<1>8. CASE T!Enter(term, ch)
  <2>1. ch = "enter" /\ inp_len' = 0 /\ input' = [input EXCEPT ![1] = T!NUL]
    BY <1>8 DEF T!Enter
  <2>2. r = T!Put(term, <<"\n">>)
    <3>1. r = T!Echo(term, ch) /\ ch \notin Char
      BY <2>1, CharIs DEF Echoed, T!NoKey, r
    <3> QED BY <1>2, <2>1, <3>1 DEF T!Echo
  <2>3. <<"\n">> \in T!Text
    BY DEF T!Text
  <2>4. r.mode = "cook"
    BY <1>1, <1>2, <2>2, <2>3, TextMode
  <2>5. input'[1] = T!NUL
    BY <1>1, <2>1 DEF Inputs
  <2>6. inp_len' <= Cursor(r)
    BY <1>4, <2>1, CursorIs
  <2> QED BY <2>1, <2>4, <2>5, <2>6
<1>9. CASE T!Erase(term, ch) /\ n = 0
  <2>1. ch = "backspace" /\ inp_len' = n /\ input' = [input EXCEPT ![n + 1] = T!NUL]
    BY <1>9 DEF T!Erase
  <2>2. r = term
    BY <1>9, <2>1, CharIs DEF Echoed, T!Echo, T!NoKey, r
  <2>3. n + 1 \in 1..MaxInput
    BY <1>1
  <2>4. \A k \in 1..n + 1 : input'[k] = input[k]
    BY <1>1, <1>2, <2>1, <2>3 DEF Inputs
  <2> QED BY <1>5, <2>1, <2>2, <2>4
<1>10. CASE T!Erase(term, ch) /\ n # 0
  <2>1. n > 0 /\ n - 1 \in Nat
    BY <1>1, <1>10
  <2>2. ch = "backspace" /\ inp_len' = n - 1 /\ input' = [input EXCEPT ![n] = T!NUL]
    <3>1. ch = "backspace" /\ inp_len' = n - 1 /\ input' = [input EXCEPT ![(n - 1) + 1] = T!NUL]
      BY <1>10, <2>1 DEF T!Erase
    <3>2. (n - 1) + 1 = n
      BY <1>1
    <3> QED BY <3>1, <3>2
  <2>3. r = T!backspace(term)
    <3>1. r = T!Echo(term, ch) /\ ch \notin Char
      BY <2>2, CharIs DEF Echoed, T!NoKey, r
    <3> QED BY <1>2, <2>1, <2>2, <3>1 DEF T!Echo
  <2>4. r.mode = "cook"
    BY <1>1, <1>2, <2>3, backspaceIs
  <2>5. (n - 1) + 1 = n /\ n \in 1..MaxInput /\ \A k \in 1..n - 1 : k \in 1..n /\ k # n /\ k \in 1..MaxInput
    BY <1>1, <2>1
  <2>6. input'[n] = T!NUL /\ \A k \in 1..n - 1 : input'[k] = input[k]
    BY <1>1, <2>2, <2>5 DEF Inputs
  <2>7. /\ n - 1 <= Cursor(r)
        /\ \A k \in 1..n - 1 : r.buf[Cursor(r) - (n - 1) + k - 1] = term.buf[Cursor(term) - ((n - 1) + 1) + k - 1]
    <3>1. (n - 1) + 1 <= Cursor(term)
      BY <1>2, <2>5
    <3> QED BY <1>1, <2>1, <2>3, <3>1, ErasedIs
  <2>8. \A k \in 1..n - 1 : r.buf[Cursor(r) - (n - 1) + k - 1] = input'[k]
    BY <1>2, <2>5, <2>6, <2>7
  <2>9. \A k \in 1..n - 1 : input'[k] \in Char
    BY <1>2, <2>5, <2>6
  <2> QED BY <2>2, <2>4, <2>5, <2>6, <2>7, <2>8, <2>9
<1>11. CASE T!Type(term, ch) /\ n + 1 < MaxInput
  <2>1. ch \in Char /\ inp_len' = n + 1 /\ input' = [input EXCEPT ![n + 1] = ch, ![n + 2] = T!NUL]
    BY <1>11 DEF T!Type
  <2>2. r = T!Put(term, <<"ch", ch>>)
    BY <1>2, <1>11, <2>1, CharIs DEF Echoed, T!Echo, r
  <2>3. <<"ch", ch>> \in T!Text
    BY <2>1 DEF T!Text
  <2>4. r.mode = "cook"
    BY <1>1, <1>2, <2>2, <2>3, TextMode
  <2>5. /\ n + 1 \in 1..MaxInput /\ n + 2 \in 1..MaxInput /\ n + 1 # n + 2 /\ (n + 1) + 1 = n + 2
        /\ \A k \in 1..n : k \in 1..MaxInput /\ k # n + 1 /\ k # n + 2
    BY <1>1, <1>11
  <2>6. input'[n + 2] = T!NUL /\ input'[n + 1] = ch /\ \A k \in 1..n : input'[k] = input[k]
    BY <1>1, <2>1, <2>5 DEF Inputs
  <2>7. n \in Nat /\ n + 1 <= w * (h - 1)
    BY <1>1, <1>11
  <2>8. /\ n + 1 <= Cursor(r) /\ r.buf[Cursor(r) - 1] = ch
        /\ \A k \in 1..n : r.buf[Cursor(r) - (n + 1) + k - 1] = term.buf[Cursor(term) - n + k - 1]
    BY <1>1, <1>2, <2>1, <2>2, <2>7, TypedIs
  <2>9. ASSUME NEW k \in 1..n + 1 PROVE input'[k] \in Char /\ r.buf[Cursor(r) - (n + 1) + k - 1] = input'[k]
    <3>1. CASE k = n + 1
      <4>1. Cursor(r) - (n + 1) + k - 1 = Cursor(r) - 1
        BY <1>1, <1>4, <3>1, CursorIs
      <4> QED BY <2>1, <2>6, <2>8, <3>1, <4>1
    <3>2. CASE k # n + 1
      <4>1. k \in 1..n
        BY <1>1, <3>2
      <4> QED BY <1>2, <2>6, <2>8, <4>1
    <3> QED BY <3>1, <3>2
  <2> QED BY <2>1, <2>4, <2>5, <2>6, <2>8, <2>9
<1>12. CASE T!Type(term, ch) /\ ~(n + 1 < MaxInput)
  <2>1. ch \in Char /\ inp_len' = n /\ input' = [input EXCEPT ![n + 1] = T!NUL]
    BY <1>12 DEF T!Type
  <2>2. r = term
    BY <1>12, <2>1, CharIs DEF Echoed, T!Echo, r
  <2>3. n + 1 \in 1..MaxInput
    BY <1>1
  <2>4. \A k \in 1..n + 1 : input'[k] = input[k]
    BY <1>1, <1>2, <2>1, <2>3 DEF Inputs
  <2> QED BY <1>5, <2>1, <2>2, <2>4
<1>13. ~T!RawKey(term, ch)
  BY <1>2 DEF T!RawKey
<1> QED BY <1>6, <1>7, <1>8, <1>9, <1>10, <1>11, <1>12, <1>13 DEF T!Iteration

LEMMA StepLine == TermInv /\ LineInv /\ [T!Next]_(T!vars) => LineInv'
<1> SUFFICES ASSUME TermInv, LineInv, [T!Next]_(T!vars) PROVE LineInv'
  OBVIOUS
<1>0. session \in Sessions /\ term \in T!Grid /\ term' \in T!Grid /\ session' = session
  <2>1. TermInv'
    BY StepTerm
  <2>2. session' = session
    BY DEF T!Next, T!vars, T!write, T!Iteration
  <2>3. term' \in T!Grid
    <3>1. T!TypeOK'
      BY <2>1 DEF TermInv
    <3> QED BY <3>1 DEF T!TypeOK, T!Grid, T!Cell, T!Place
  <2> QED BY <2>2, <2>3 DEF TermInv, T!TypeOK
<1> SUFFICES ASSUME session.built_in PROVE LineInv'
  BY <1>0 DEF LineInv
<1>1. CASE T!write
  <2>1. out # <<>> /\ out' = Tail(out) /\ term' = T!Put(term, Head(out))
    <3>1. session.prints = {}
      BY <1>0, SessionIs
    <3> QED BY <1>1, <3>1 DEF T!write
  <2>2. out \in Seq(T!Text) /\ inp_len = 0 /\ term.mode = "cook" /\ input[inp_len + 1] = T!NUL
    BY <2>1 DEF LineInv
  <2>3. Head(out) \in T!Text /\ out' \in Seq(T!Text)
    BY <2>1, <2>2
  <2>4. term'.mode = "cook"
    BY <1>0, <2>1, <2>2, <2>3, TextMode
  <2>5. input' = input /\ inp_len' = inp_len
    BY <1>1 DEF T!write
  <2>6. Cursor(term') >= 0
    BY <1>0, CursorIs
  <2> QED BY <2>2, <2>3, <2>4, <2>5, <2>6 DEF LineInv, T!Text, Cursor, T!At
<1>2. ASSUME NEW ch \in session.keys \cup {T!NoKey}, T!Iteration(ch) PROVE LineInv'
  <2> DEFINE r == Echoed(ch)
  <2>1. ch \in T!Key \cup {T!NoKey}
    BY <1>0, SessionIs
  <2>2. T!refresh_terminal(r) /\ out = <<>> /\ out' = out
    BY <1>2 DEF T!Iteration, Echoed
  <2>3. term'.buf = r.buf /\ term'.cursor = r.cursor /\ term'.mode = r.mode
    BY <2>2, EchoedIs, Refreshed
  <2>4. /\ r.mode = "cook"
        /\ \A k \in 1..inp_len' : input'[k] \in Char
        /\ input'[inp_len' + 1] = T!NUL
        /\ inp_len' <= Cursor(r)
        /\ \A k \in 1..inp_len' : r.buf[Cursor(r) - inp_len' + k - 1] = input'[k]
    BY <1>2, <2>1, KeyLine
  <2> HIDE DEF r
  <2>5. Cursor(term') = Cursor(r)
    BY <2>3 DEF Cursor
  <2>6. out' = <<>> /\ out' \in Seq(T!Text)
    BY <2>2
  <2> QED BY <2>3, <2>4, <2>5, <2>6 DEF LineInv, T!Text, Cursor, T!At
<1>3. CASE UNCHANGED T!vars
  BY <1>3 DEF T!vars, LineInv, T!Text, Cursor, T!At
<1> QED BY <1>1, <1>2, <1>3 DEF T!Next

LEMMA LineIsShown == TermInv /\ LineInv => T!LineShown
<1> SUFFICES ASSUME TermInv, LineInv, session.built_in
             PROVE  /\ Len(T!Line) = inp_len
                    /\ inp_len <= Cursor(term)
                    /\ \A k \in 1..inp_len : term.buf[Cursor(term) - inp_len + k - 1] = T!Line[k]
  BY DEF T!LineShown, Cursor
<1>1. Len(T!Line) = inp_len /\ \A k \in 1..inp_len : T!Line[k] = input[k]
  BY LineIs
<1> QED BY <1>1 DEF LineInv

-----------------------------------------------------------------------------
(* What holds of every desktop.                                            *)

\* The keyboard, the canvas and the terminal do in a desktop what they do alone.
THEOREM PartsBehave == DesktopSpec => Spec /\ C!Spec /\ T!Spec
<1>1. DesktopInit => Init /\ C!Init /\ T!Init
  BY DEF DesktopInit
<1>2. [DesktopNext]_<<vars, canvas, terminal, part>> => [Next]_vars
  BY DEF DesktopNext
<1>3. [DesktopNext]_<<vars, canvas, terminal, part>> => [C!Next]_(C!vars)
  BY DEF DesktopNext, canvas, C!vars, C!app
<1>4. [DesktopNext]_<<vars, canvas, terminal, part>> => [T!Next]_(T!vars)
  BY DEF DesktopNext, terminal, T!vars
<1> QED BY <1>1, <1>2, <1>3, <1>4, PTL DEF DesktopSpec, Spec, C!Spec, T!Spec

\* Between two rows of a drawing the window shows every pixel of the frame buffer,
\* unless the simulator has been told to copy it: vga.c copies only when sync is
\* set, so libndl must set it after every row, for every screen, canvas and image.
THEOREM WindowIsCurrent == DesktopSpec => []WindowCurrent
<1>1. C!Init => C!WindowCurrent
  BY InitWindow
<1>2. C!WindowCurrent /\ [C!Next]_(C!vars) => C!WindowCurrent'
  BY StepWindow
<1>3. C!Spec => []C!WindowCurrent
  BY <1>1, <1>2, PTL DEF C!Spec
<1> QED BY <1>3, PartsBehave, PTL DEF WindowCurrent

\* What SDL_FillRect, SDL_BlitSurface, SDL_UpdateRect, NDL_DrawRect and fb_write
\* do to arrays of pixels, by offsets, strides and clipping, is what Picture
\* does to pictures: every row shown is in its place and shows what physical
\* memory holds of the pixels painted, whatever lines the cache has written back
\* (vga.c:68 copies memory, gpu.c:40 does not fence), for every screen, canvas
\* not larger, image and colour.
THEOREM CanvasIsPicture == DesktopSpec => IsPicture
<1>1. C!Init => CanvasInv /\ C!P!Init
  BY InitCanvas, InitPicture
<1>2. CanvasInv /\ [C!Next]_(C!vars) => CanvasInv'
  BY StepCanvas
<1>3. CanvasInv /\ [C!Next]_(C!vars) => [C!P!Next]_(C!P!vars)
  BY StepPicture
<1>4. C!Spec => C!P!Spec
  BY <1>1, <1>2, <1>3, PTL DEF C!Spec, C!P!Spec
<1> QED BY <1>4, PartsBehave, PTL DEF IsPicture

\* Whatever is printed and typed, the cursor of nterm stays inside the grid and a
\* cell whose picture is not its character is marked for refresh_terminal.
THEOREM TerminalFresh == DesktopSpec => []StaleIsDirty
<1>1. T!Init => TermInv
  BY InitTerm
<1>2. TermInv /\ [T!Next]_(T!vars) => TermInv'
  BY StepTerm
<1>3. T!Spec => []TermInv
  BY <1>1, <1>2, PTL DEF T!Spec
<1>4. TermInv => StaleIsDirty
  BY DEF TermInv, StaleIsDirty
<1> QED BY <1>3, <1>4, PartsBehave, PTL

\* In the built-in shell the characters before the cursor are the line that
\* Terminal::keypress returns at enter, however it wrapped, scrolled and was
\* corrected: for every size of grid that the line cannot fill.
THEOREM LineIsRun == DesktopSpec => []LineShown
<1>1. T!Init => TermInv /\ LineInv
  BY InitTerm, InitLine
<1>2. TermInv /\ [T!Next]_(T!vars) => TermInv'
  BY StepTerm
<1>3. TermInv /\ LineInv /\ [T!Next]_(T!vars) => LineInv'
  BY StepLine
<1>4. T!Spec => [](TermInv /\ LineInv)
  BY <1>1, <1>2, <1>3, PTL DEF T!Spec
<1>5. TermInv /\ LineInv => LineShown
  BY LineIsShown DEF LineShown
<1> QED BY <1>4, <1>5, PartsBehave, PTL
=============================================================================
