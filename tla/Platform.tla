------------------------------ MODULE Platform ------------------------------
(***************************************************************************)
(* The interrupt controllers and timers of a machine.  They run under      *)
(* locks of their own and meet only through the lines and vectors each     *)
(* module already models, so a behaviour follows one of them.              *)
(***************************************************************************)
EXTENDS Apic, Pic, Hpet, Rtc, Pit, LapicTimer

CONSTANTS Units,              \* the parts to follow
          HpetGuestConfigs    \* HPET timer configurations the guest writes

VARIABLE unit   \* the part this behaviour follows

platformVars == <<apicVars, picVars, hpetVars, rtcVars, pitVars, ltVars, unit>>

PlatformInit ==
  /\ unit \in Units
  /\ ApicInit /\ PicInit /\ vhpet_init /\ RtcInit /\ PitInit /\ LtInit
  /\ unit # "pic" => style = CHOOSE s \in Styles : TRUE
  /\ unit # "rtc" => rtc.base = 0

PlatformNext ==
  /\ UNCHANGED unit
  /\ \/ unit = "apic" /\ ApicNext /\ UNCHANGED <<picVars, hpetVars, rtcVars, pitVars, ltVars>>
     \/ unit = "pic" /\ PicNext /\ UNCHANGED <<apicVars, hpetVars, rtcVars, pitVars, ltVars>>
     \/ unit = "hpet" /\ HpetNext(HpetGuestConfigs) /\ UNCHANGED <<apicVars, picVars, rtcVars, pitVars, ltVars>>
     \/ unit = "rtc" /\ RtcNext /\ UNCHANGED <<apicVars, picVars, hpetVars, pitVars, ltVars>>
     \/ unit = "pit" /\ PitNext /\ UNCHANGED <<apicVars, picVars, hpetVars, rtcVars, ltVars>>
     \/ unit = "timer" /\ LtNext /\ UNCHANGED <<apicVars, picVars, hpetVars, rtcVars, pitVars>>

PlatformSpec == PlatformInit /\ [][PlatformNext]_platformVars

\* No timer dies, stays asserted or fires after it was silenced.
TimersServed ==
  IsrHoldsPin /\ MatchServed /\ CalloutFollowsRegs /\ PitSound /\ QuietWhenDisabled
=============================================================================
