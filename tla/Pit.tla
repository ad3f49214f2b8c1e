-------------------------------- MODULE Pit --------------------------------
(***************************************************************************)
(* Channel 0 of the 8254 of src/lib/vmm/io/vatpit.c (channels 1 and 2      *)
(* differ only in that nothing is armed when their count is loaded).       *)
(* Every port access runs under VATPIT_LOCK and so does                    *)
(* vatpit_callout_handler, which takes it some time after its callout left *)
(* the queue.  A count has two digits in base Radix, as the code's has two *)
(* bytes; a unit of time is one tick of the counter (freq_sbt).            *)
(***************************************************************************)
EXTENDS Integers, Sequences

CONSTANTS Radix,       \* 256 in the code
          PitLoads     \* counts the guest loads
ASSUME PitAssumption == Radix \in Nat \ {0, 1} /\ PitLoads \subseteq 0 .. Radix * Radix - 1

Top16 == Radix * Radix - 1             \* 0xffff
Hz100 == Radix                         \* TIMER_DIV(PIT_8254_FREQ, 100)
MSB(v) == v \div Radix
LSB(v) == v % Radix

VARIABLES
  chan,    \* mode, initial, time since now_sbt (modulo initial), cr, ol, crbyte, olbyte, frbyte
  pitcall, \* the callout: active, pending, called, ticks until due (-1: past)
  got      \* ghost: the value last latched, and the bytes of it the guest has read
pitVars == <<chan, pitcall, got>>

PitInit ==
  /\ chan = [mode |-> "INTTC", initial |-> 0, ran |-> 0, cr |-> 0, ol |-> <<0, 0>>,
             crbyte |-> 0, olbyte |-> 0, frbyte |-> 0, slatched |-> FALSE]
  /\ pitcall = [active |-> FALSE, pending |-> FALSE, called |-> FALSE, due |-> 0, ticking |-> FALSE]
  /\ got = [latched |-> 0, bytes |-> <<>>]

\* pit_timer_start_cntr0: callout_sbt moves on by the count, or starts afresh
\* when that is in the past.
pit_timer_start_cntr0(c, initial) ==
  IF initial = 0 THEN c
  ELSE [c EXCEPT !.active = TRUE, !.pending = TRUE,
                 !.due = IF @ + initial < 0 THEN initial ELSE @ + initial]

PitTick ==
  /\ chan' = [chan EXCEPT !.ran = IF chan.initial = 0 THEN 0 ELSE (@ + 1) % chan.initial]
  /\ pitcall' = [pitcall EXCEPT !.due = IF @ < -Top16 THEN @ ELSE @ - 1]
  /\ UNCHANGED got

PitExpire ==
  /\ pitcall.pending /\ pitcall.due <= 0 /\ ~pitcall.called
  /\ pitcall' = [pitcall EXCEPT !.pending = FALSE, !.called = TRUE]
  /\ UNCHANGED <<chan, got>>

\* vatpit_callout_handler once it has the lock.  Its interrupt is a pulse.
Restarts(m) == m = "RATEGEN"
vatpit_callout_handler ==
  LET c == [pitcall EXCEPT !.called = FALSE]
      d == [c EXCEPT !.active = FALSE]
  IN /\ pitcall.called
     /\ pitcall' = IF c.pending \/ ~c.active THEN c
                   ELSE IF Restarts(chan.mode) THEN pit_timer_start_cntr0(d, chan.initial)
                   ELSE [d EXCEPT !.ticking = @ /\ chan.mode = "RATEGEN"]
     /\ UNCHANGED <<chan, got>>

-----------------------------------------------------------------------------
\* pit_update_counter: reading a counter that was never loaded loads it.
Defaulted(c) == IF c.initial = 0 THEN [c EXCEPT !.initial = Hz100, !.ran = 0] ELSE c
Counter(c) == c.initial - c.ran

\* A latch: nothing happens until the old one has been read.
CanLatch(c) == c.olbyte = 0
Latch ==
  /\ IF CanLatch(chan)
       THEN LET c == Defaulted(chan) IN
            /\ chan' = [c EXCEPT !.olbyte = 2, !.ol = <<MSB(Counter(c)), LSB(Counter(c))>>]
            /\ got' = [latched |-> IF chan.olbyte = 0 THEN Counter(c) ELSE got.latched,
                       bytes |-> IF chan.olbyte = 0 THEN <<>> ELSE got.bytes]
       ELSE UNCHANGED <<chan, got>>
  /\ UNCHANGED pitcall

\* vatpit_update_mode with a mode; the callout goes on.
SetMode(m) ==
  /\ chan' = [chan EXCEPT !.mode = m, !.olbyte = 0]
  /\ pitcall' = [pitcall EXCEPT !.ticking = FALSE]
  /\ got' = [got EXCEPT !.bytes = <<>>]

\* pit_readback1 with the status.
LatchStatus == /\ chan' = [chan EXCEPT !.slatched = TRUE]
               /\ UNCHANGED <<pitcall, got>>

\* A read of the counter port: the status, the latch, or the running counter.
ReadPort ==
  /\ \/ chan.slatched /\ chan' = [chan EXCEPT !.slatched = FALSE] /\ UNCHANGED got
     \/ /\ ~chan.slatched /\ chan.olbyte = 0
        /\ chan' = [Defaulted(chan) EXCEPT !.frbyte = 1 - @] /\ UNCHANGED got
     \/ /\ ~chan.slatched /\ chan.olbyte > 0
        /\ chan' = [chan EXCEPT !.olbyte = @ - 1]
        /\ got' = [got EXCEPT !.bytes = Append(@, chan.ol[chan.olbyte])]
  /\ UNCHANGED pitcall

\* A write of the counter port: the second byte starts the timer, and only
\* then does a count of 0 become the largest one.
WritePort(b) ==
  LET v == b * Radix + chan.cr
      t == pit_timer_start_cntr0([pitcall EXCEPT !.due = 0], v)
  IN \/ /\ chan.crbyte = 0
        /\ chan' = [chan EXCEPT !.cr = b, !.crbyte = 1] /\ UNCHANGED <<pitcall, got>>
     \/ /\ chan.crbyte = 1
        /\ chan' = [chan EXCEPT !.crbyte = 0, !.frbyte = 0, !.ran = 0,
                                !.initial = IF v = 0 THEN Top16 ELSE v]
        /\ pitcall' = [t EXCEPT !.ticking = v # 0]
        /\ UNCHANGED got

PitNext ==
  \/ PitTick
  \/ PitExpire
  \/ vatpit_callout_handler
  \/ Latch
  \/ \E m \in {"INTTC", "RATEGEN"} : SetMode(m)
  \/ LatchStatus
  \/ ReadPort
  \/ \E b \in 0 .. Radix - 1 : (\E v \in PitLoads : b = IF chan.crbyte = 0 THEN LSB(v) ELSE MSB(v)) /\ WritePort(b)

-----------------------------------------------------------------------------
(* Properties.                                                             *)

\* A loaded rate generator never stops: although a load may come while the
\* handler of the previous period waits for the lock, a callout is armed.
\* And the two bytes the guest reads after a latch are of one value.
PitSound ==
  /\ pitcall.ticking => pitcall.active /\ (pitcall.pending \/ pitcall.called)
  /\ Len(got.bytes) = 2 => got.latched = got.bytes[1] + Radix * got.bytes[2]
=============================================================================
