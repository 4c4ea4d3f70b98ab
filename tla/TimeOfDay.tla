----------------------------- MODULE TimeOfDay ------------------------------
(***************************************************************************)
(* gettimeofday, settimeofday and times, over the tick count of the system *)
(* clock.  A word has WordBits bits and a second US of the smallest unit,  *)
(* so that small numbers overflow where the code's do.  nticks is          *)
(* _alt_nticks, and is not followed past its own wrap.                     *)
(***************************************************************************)
EXTENDS Integers

CONSTANTS
  WordBits,   \* bits of an alt_u32 and of a long
  US,         \* ALT_US
  Rates,      \* the tick rates a timer may run at; they divide US
  Times,      \* the times callers set
  SetUntil,   \* the last tick at which settimeofday is called
  MaxTicks    \* bound: ticks since reset

ASSUME TimeAssumption ==
  /\ WordBits \in Nat \ {0} /\ US \in Nat \ {0}
  /\ 2^(WordBits - 1) \in Nat \ {0} /\ 2^WordBits = 2 * 2^(WordBits - 1)
  /\ \A r \in Rates : r \in 1 .. US /\ US % r = 0
  /\ \A t \in Times : t.tv_sec \in Nat /\ t.tv_usec \in 0 .. US - 1
  /\ SetUntil \in Nat /\ MaxTicks \in 0 .. 2^WordBits - 1

VARIABLES
  nticks, _alt_tick_rate,
  alt_resettime,   \* the time of day at tick 0
  set, set_at      \* the last time set, and the tick count then

todVars == <<nticks, _alt_tick_rate, alt_resettime, set, set_at>>

Unsigned(x) == x % 2^WordBits
Signed(x) ==
  LET u == Unsigned(x) IN IF u >= 2^(WordBits - 1) THEN u - 2^WordBits ELSE u

Zero == [tv_sec |-> 0, tv_usec |-> 0]

TodInit ==
  /\ nticks = 0 /\ _alt_tick_rate = 0
  /\ alt_resettime = Zero
  /\ set = Zero /\ set_at = 0

\* alt_sysclk_init, for the first timer that registers.  Without one the calls
\* fail and change nothing.
SysclkInit(rate) ==
  /\ _alt_tick_rate = 0
  /\ _alt_tick_rate' = rate
  /\ UNCHANGED <<nticks, alt_resettime, set, set_at>>

Tick ==
  /\ _alt_tick_rate > 0 /\ nticks < MaxTicks
  /\ nticks' = nticks + 1
  /\ UNCHANGED <<_alt_tick_rate, alt_resettime, set, set_at>>

Seconds == nticks \div _alt_tick_rate
TickUs == US \div _alt_tick_rate

\* The fraction settimeofday subtracts: a product of 32-bit words.
SetFraction == Unsigned(nticks * TickUs) % US

Settimeofday(t) ==
  /\ _alt_tick_rate > 0 /\ nticks <= SetUntil
  /\ alt_resettime' = [tv_sec  |-> Signed(t.tv_sec - Seconds),
                       tv_usec |-> Signed(t.tv_usec - SetFraction)]
  /\ set' = t /\ set_at' = nticks
  /\ UNCHANGED <<nticks, _alt_tick_rate>>

TodNext ==
  \/ \E r \in Rates : SysclkInit(r)
  \/ Tick
  \/ \E t \in Times : Settimeofday(t)

TodSpec == TodInit /\ [][TodNext]_todVars

-----------------------------------------------------------------------------
(***************************************************************************)
(* gettimeofday, which changes nothing: the time it returns in a state.    *)
(***************************************************************************)
\* The fraction it adds: a product of 64-bit words.
Fraction == (nticks * TickUs) % US

\* The loops that bring tv_usec, between -US and 2 * US, back into a second.
Borrowed(t) ==
  IF t.tv_usec >= 0 THEN t
  ELSE IF t.tv_sec <= 0 THEN Zero
  ELSE [tv_sec |-> t.tv_sec - 1, tv_usec |-> t.tv_usec + US]

\* Mutant: the second loop is left out.
CarriedNever(t) == t

Carried(t) ==
  IF t.tv_usec < US THEN t
  ELSE [tv_sec |-> t.tv_sec + 1, tv_usec |-> t.tv_usec - US]

Gettimeofday ==
  Carried(Borrowed([tv_sec  |-> Signed(alt_resettime.tv_sec + Seconds),
                    tv_usec |-> Signed(alt_resettime.tv_usec + Fraction)]))

-----------------------------------------------------------------------------
(***************************************************************************)
(* Properties                                                              *)
(***************************************************************************)
Timeval == [tv_sec : Int, tv_usec : Int]

\* Every variable has its type.
TodTypeOK ==
  /\ nticks \in 0 .. MaxTicks /\ _alt_tick_rate \in Rates \union {0}
  /\ alt_resettime \in Timeval
  /\ set \in Times \union {Zero} /\ set_at \in 0 .. nticks

Micros(t) == t.tv_sec * US + t.tv_usec

\* gettimeofday returns the time that was set and what the ticks since then
\* add to it, to the microsecond and with less than a second in its fraction,
\* across borrows and carries: the clock neither jumps nor runs backwards.
WallClock ==
  _alt_tick_rate > 0 =>
    /\ Gettimeofday.tv_usec \in 0 .. US - 1
    /\ Micros(Gettimeofday) = Micros(set) + (nticks - set_at) * TickUs

\* What alt_settod.c says: an immediate call to gettimeofday returns the value
\* settimeofday was given.
SetTimeIsRead ==
  _alt_tick_rate > 0 /\ nticks = set_at => Gettimeofday = set
=============================================================================
