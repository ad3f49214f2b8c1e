-------------------------------- MODULE Rtc --------------------------------
(***************************************************************************)
(* The real time clock of src/lib/vmm/io/vrtc.c.  Every function runs      *)
(* under VRTC_LOCK; vrtc_callout_handler takes it some time after its      *)
(* callout left the queue.  Time passes in whole seconds; a periodic       *)
(* callout (2 Hz or more) is due at once, an alarm or update callout after *)
(* a second.  The date/time fields and the alarm are a number of seconds;  *)
(* -1 is VRTC_BROKEN_TIME.                                                 *)
(***************************************************************************)
EXTENDS Integers, FiniteSets

CONSTANTS MaxSec,        \* the clocks stop here
          RegBs          \* values of reg_b the guest writes
ASSUME RtcAssumption == MaxSec \in Nat \ {0}

Broken == -1
INTRS == {"P", "A", "U"}   \* RTCSB_ALL_INTRS and the flags of reg_c

VARIABLES
  rtc,      \* the registers, base_rtctime and the seconds since base_uptime
  rtcall,   \* the callout: active, pending, called, seconds until due
  host,     \* the host's clock
  vmstate   \* "run", "exit" (a handler returned -1) or "hung" (lock never released)
rtcVars == <<rtc, rtcall, host, vmstate>>

divider_enabled(r) == r.div
rtc_halted(r) == "HALT" \in r.b
update_enabled(r) == divider_enabled(r) /\ ~rtc_halted(r) /\ r.base # Broken

vrtc_curtime(r) == IF update_enabled(r) THEN r.base + r.since ELSE r.base
\* The rest of a second is kept: basetime advances by whole seconds.
CurSince(r) == IF update_enabled(r) THEN 0 ELSE r.since

\* vrtc_freq: "off", "sec" (1 Hz) or "fast" (2 Hz or more).
vrtc_freq(r) ==
  IF "P" \in r.b /\ divider_enabled(r) THEN (IF r.rate = 0 THEN "off" ELSE "fast")
  ELSE IF {"A", "U"} \cap r.b # {} /\ update_enabled(r) THEN "sec" ELSE "off"

\* secs_to_rtc(t): the fields are read from the host's clock, not from t.
secs_to_rtc(r, t, force) ==
  IF t = Broken \/ (rtc_halted(r) /\ ~force) THEN r ELSE [r EXCEPT !.field = host]

\* rtc_to_secs.
rtc_to_secs(r) == r.field

\* vrtc_set_reg_c: RTCIR_INT follows the enabled flags.
vrtc_set_reg_c(r, flags) == [r EXCEPT !.c = flags, !.irqf = flags \cap r.b # {}]

\* vrtc_time_update when the time really changes: the alarm visits every second,
\* then the update interrupt.
Advance(r, t) ==
  LET s == IF "A" \in r.b THEN secs_to_rtc([r EXCEPT !.base = t], t, FALSE)
                          ELSE [r EXCEPT !.base = t]
      a == IF "A" \in r.b /\ r.alarm = s.field THEN vrtc_set_reg_c(s, s.c \cup {"A"}) ELSE s
  IN IF "U" \in r.b THEN vrtc_set_reg_c(a, a.c \cup {"U"}) ELSE a

\* vrtc_time_update: EBUSY (no change) when halted.
vrtc_time_update(r, t, since) ==
  LET s == [r EXCEPT !.since = since]
  IN IF t = r.base THEN s
     ELSE IF t = Broken THEN [s EXCEPT !.base = Broken]
     ELSE IF rtc_halted(r) THEN s ELSE Advance(s, t)

\* The visit goes forward only, so it never gets to an earlier time.
ScanHangs(r, t) == "A" \in r.b /\ r.base # Broken /\ t # Broken /\ t < r.base

\* vrtc_callout_reset.
vrtc_callout_reset(c, freq) ==
  IF freq = "off" THEN [c EXCEPT !.active = FALSE, !.pending = FALSE]
  ELSE [c EXCEPT !.active = TRUE, !.pending = TRUE, !.due = IF freq = "sec" THEN 1 ELSE 0]

\* What set_reg_a and set_reg_b do last: the callout follows the frequency.
Retimed_Stops(c, r, s) == IF vrtc_freq(s) = "off" THEN vrtc_callout_reset(c, "off") ELSE c
Retimed(c, r, s) == IF vrtc_freq(r) # vrtc_freq(s) THEN vrtc_callout_reset(c, vrtc_freq(s)) ELSE c

-----------------------------------------------------------------------------
RtcInit ==
  /\ \E t \in 0 .. 1 :   \* vrtc_init, then vrtc_set_time from rtc_init
       rtc = [div |-> TRUE, rate |-> 0, b |-> {}, c |-> {}, irqf |-> FALSE,
              base |-> t, since |-> 0, field |-> 0, alarm |-> 0]
  /\ rtcall = [active |-> FALSE, pending |-> FALSE, called |-> FALSE, due |-> 0]
  /\ host = 0 /\ vmstate = "run"

RtcTick ==
  /\ vmstate = "run" /\ host < MaxSec
  /\ host' = host + 1
  /\ rtc' = [rtc EXCEPT !.since = @ + 1]
  /\ rtcall' = [rtcall EXCEPT !.due = 0]
  /\ UNCHANGED vmstate

RtcExpire ==
  /\ vmstate = "run" /\ rtcall.pending /\ rtcall.due = 0 /\ ~rtcall.called
  /\ rtcall' = [rtcall EXCEPT !.pending = FALSE, !.called = TRUE]
  /\ UNCHANGED <<rtc, host, vmstate>>

\* vrtc_callout_handler once it has the lock.
vrtc_callout_handler ==
  LET c == [rtcall EXCEPT !.called = FALSE]
      p == IF "P" \in rtc.b THEN vrtc_set_reg_c(rtc, rtc.c \cup {"P"}) ELSE rtc
      u == IF {"A", "U"} \cap rtc.b # {} THEN vrtc_time_update(p, vrtc_curtime(p), CurSince(p)) ELSE p
  IN /\ vmstate = "run" /\ rtcall.called
     /\ IF c.pending \/ ~c.active THEN rtcall' = c /\ UNCHANGED rtc
        ELSE rtc' = u /\ rtcall' = vrtc_callout_reset([c EXCEPT !.active = FALSE], vrtc_freq(u))
     /\ UNCHANGED <<host, vmstate>>

-----------------------------------------------------------------------------
(* vrtc_data_handler: every access first brings the time up to date.       *)

Current(r) == vrtc_time_update(r, vrtc_curtime(r), CurSince(r))

vrtc_set_reg_a(div, rate) ==
  LET r == Current(rtc)
      s == [r EXCEPT !.div = div, !.rate = rate, !.since = IF div /\ ~r.div THEN 0 ELSE @]
  IN /\ rtc' = s /\ rtcall' = Retimed(rtcall, r, s)
     /\ UNCHANGED vmstate

\* Halting shows the time in the fields and breaks it; ending the halt takes
\* the time from them, and a date that is none stops the machine.
Halted(r, b) == [secs_to_rtc([r EXCEPT !.b = b], vrtc_curtime([r EXCEPT !.b = b]), TRUE)
                 EXCEPT !.base = Broken, !.b = b \ {"U"}]
Resumed(r, b) == vrtc_time_update([r EXCEPT !.b = b], rtc_to_secs(r), 0)

WithRegB(r, b) == IF rtc_halted(r) /\ "HALT" \notin b THEN Resumed(r, b)
                  ELSE IF ~rtc_halted(r) /\ "HALT" \in b THEN Halted(r, b)
                  ELSE [r EXCEPT !.b = b]

\* "Side effect of changes to the interrupt enable bits".
Reflagged(r, s, b) == IF r.b \cap INTRS # b \cap INTRS THEN vrtc_set_reg_c(s, s.c) ELSE s

vrtc_set_reg_b(b) ==
  LET r == Current(rtc)
      s == Reflagged(r, WithRegB(r, b), b)
  IN IF rtc_halted(r) /\ "HALT" \notin b /\ rtc_to_secs(r) = Broken
       THEN rtc' = [r EXCEPT !.b = b] /\ vmstate' = "exit" /\ UNCHANGED rtcall
       ELSE rtc' = s /\ rtcall' = Retimed(rtcall, r, s) /\ UNCHANGED vmstate

\* Reading reg_c acknowledges the interrupts.
ReadRegC == rtc' = vrtc_set_reg_c(Current(rtc), {}) /\ UNCHANGED <<rtcall, vmstate>>

ReadField == /\ rtc' = secs_to_rtc(Current(rtc), vrtc_curtime(Current(rtc)), FALSE)
             /\ UNCHANGED <<rtcall, vmstate>>

\* The date/time fields, the century among them: that one sets the time even
\* when the clock is not halted.
WriteField(v) ==
  /\ rtc' = [secs_to_rtc(Current(rtc), vrtc_curtime(Current(rtc)), FALSE) EXCEPT !.field = v]
  /\ UNCHANGED <<rtcall, vmstate>>

WriteCentury(v) ==
  LET r == [secs_to_rtc(Current(rtc), vrtc_curtime(Current(rtc)), FALSE) EXCEPT !.field = v]
  IN \/ rtc_halted(r) /\ rtc' = r /\ UNCHANGED <<rtcall, vmstate>>
     \/ /\ ~rtc_halted(r)
        /\ rtc' = IF ScanHangs(r, v) THEN r ELSE vrtc_time_update(r, v, 0)
        /\ vmstate' = IF ScanHangs(r, v) THEN "hung" ELSE IF v = Broken THEN "exit" ELSE "run"
        /\ UNCHANGED rtcall

WriteAlarm(v) == rtc' = [Current(rtc) EXCEPT !.alarm = v] /\ UNCHANGED <<rtcall, vmstate>>

\* vrtc_reset.
vrtc_reset ==
  LET s == Reflagged(rtc, [rtc EXCEPT !.b = @ \ INTRS], rtc.b \ INTRS)
  IN /\ rtc' = vrtc_set_reg_c(s, {}) /\ rtcall' = Retimed(rtcall, rtc, s) /\ UNCHANGED vmstate

RtcGuest ==
  /\ vmstate = "run" /\ UNCHANGED host
  /\ \/ \E d \in BOOLEAN, rate \in 0 .. 1 : vrtc_set_reg_a(d, rate)
     \/ \E b \in RegBs : vrtc_set_reg_b(b)
     \/ ReadRegC
     \/ ReadField
     \/ \E v \in {Broken, 1} : WriteField(v) \/ WriteCentury(v)
     \/ WriteAlarm(1)
     \/ vrtc_reset

RtcNext == RtcTick \/ RtcExpire \/ vrtc_callout_handler \/ RtcGuest

-----------------------------------------------------------------------------
(* Properties.                                                             *)

\* What vrtc_callout_check and the KASSERTs of vrtc_callout_handler rest on:
\* whatever the guest did to the divider, the halt bit and the enable bits,
\* and wherever the handler was, the callout is active exactly when the
\* registers ask for an interrupt, and an interrupt flag the guest enabled is
\* shown in RTCIR_INT.
CalloutFollowsRegs ==
  vmstate = "run" => /\ rtcall.active <=> vrtc_freq(rtc) # "off"
                     /\ rtc.c \cap rtc.b \cap INTRS # {} => rtc.irqf
=============================================================================
