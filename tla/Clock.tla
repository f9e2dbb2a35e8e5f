------------------------------- MODULE Clock -------------------------------
(***************************************************************************)
(* The way of the time from the host to a program: rtc_io_handler of       *)
(* simulator/sim/device/timer.c, the two loads of __timer_uptime in        *)
(* base-port/base/src/rtc.c, SYS_gettimeofday in os/src/syscall.c, and     *)
(* NDL_GetTicks.  The host's clock runs on between any two loads, each of  *)
(* which has the device write both words anew.                             *)
(***************************************************************************)
EXTENDS Integers

CONSTANTS
  Word,       \* what a 32-bit word counts to: 2 ^ 32
  Second,     \* microseconds in a second, and in a millisecond
  Milli,
  MaxTime     \* bound: the host's clock stops there

ClockAssumption ==
  /\ Word \in Nat \ {0} /\ Milli \in Nat \ {0} /\ MaxTime \in Nat
  /\ Second \in Nat \ {0} /\ Second % Milli = 0

VARIABLES
  now,             \* get_time()
  port,            \* rtc_port_base[0] and [1]
  high, low,       \* the words that were loaded; -1 before
  start,           \* history: the time when the call began
  uptime,          \* the time that the call returned; -1 before
  ticks            \* what NDL_GetTicks returned; -1 before

vars == <<now, port, high, low, start, uptime, ticks>>

Init ==
  /\ now = 0 /\ port = [low |-> 0, high |-> 0]
  /\ high = -1 /\ low = -1 /\ start = 0 /\ uptime = -1 /\ ticks = -1

\* The host
Tick == now < MaxTime /\ now' = now + 1
        /\ UNCHANGED <<port, high, low, start, uptime, ticks>>

\* Fault: the device is read as the last access left it.
Handler_Late == port

\* rtc_io_handler: every access writes both words first.
Handler == [low |-> now % Word, high |-> now \div Word]

Begin == IF high = -1 /\ low = -1 THEN now ELSE start

\* The operands of | in __timer_uptime are loaded in an order of the compiler's.
LoadHigh ==
  /\ high = -1
  /\ port' = Handler /\ high' = port'.high /\ start' = Begin
  /\ UNCHANGED <<now, low, uptime, ticks>>

LoadLow ==
  /\ low = -1
  /\ port' = Handler /\ low' = port'.low /\ start' = Begin
  /\ UNCHANGED <<now, high, uptime, ticks>>

\* Fault: the words change places.
Uptime_Swapped == low * Word + high

Uptime == high * Word + low

\* size_t time is a word; tv_sec * 1000 + tv_usec / 1000 is one too.
GetTicks(us) ==
  LET time == us % Word
  IN  ((time \div Second) * (Second \div Milli) + (time % Second) \div Milli) % Word

Return ==
  /\ high # -1 /\ low # -1
  /\ uptime' = Uptime /\ ticks' = GetTicks(uptime')
  /\ high' = -1 /\ low' = -1
  /\ UNCHANGED <<now, port, start>>

Next == Tick \/ LoadHigh \/ LoadLow \/ Return

Spec == Init /\ [][Next]_vars

-----------------------------------------------------------------------------
(* Properties *)

returns == high # -1 /\ low # -1 /\ high' = -1
Between(t, a, b) == a <= t /\ t <= b

\* A call returns a time between its beginning and its end, or, when the low
\* word overflowed between the two loads, one that is wrong by a multiple of a
\* word, of as many words as overflowed in between and no more (rtc.c:8).
Returned ==
  returns =>
    LET carries == now \div Word - start \div Word
    IN  \E k \in -carries..carries : Between(uptime' + k * Word, start, now)

\* Until the low word overflows the ticks never go back, and they are those of
\* the time of the call.
FollowsUntilCarry ==
  returns /\ now < Word =>
    ticks <= ticks' /\ Between(ticks', start \div Milli, now \div Milli)
=============================================================================
