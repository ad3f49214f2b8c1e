-------------------------------- MODULE Cpu ---------------------------------
(***************************************************************************)
(* What the host does for virtual processors: their run loops, which meet  *)
(* in halts, rendezvous, suspension and pauses; events and exits, control  *)
(* registers, task switches, and the emulation of instructions that touch  *)
(* a device (translation, decoding, execution, string instructions).  All  *)
(* but the run loops work on the registers of one stopped vcpu; they share *)
(* nothing but what their inputs range over, so a behaviour follows one.   *)
(***************************************************************************)
EXTENDS VcpuRun, Inject, TaskSwitch, VmxRegs, PageWalk, Vie, Emulate, StringEmul

CONSTANT CpuParts   \* the parts to follow

VARIABLE cpuPart    \* the part this behaviour follows

cpuVars == <<vars, vc, tsk, cr, pw, vie, em, sx, cpuPart>>

CpuInit ==
  /\ cpuPart \in CpuParts
  /\ Init /\ InjectInit /\ TaskInit /\ RegsInit /\ WalkInit /\ VieInit /\ EmulInit /\ SxInit

CpuNext ==
  /\ UNCHANGED cpuPart
  /\ \/ cpuPart = "run" /\ Next /\ UNCHANGED <<vc, tsk, cr, pw, vie, em, sx>>
     \/ cpuPart = "inject" /\ InjectNext /\ UNCHANGED <<vars, tsk, cr, pw, vie, em, sx>>
     \/ cpuPart = "task" /\ TaskNext /\ UNCHANGED <<vars, vc, cr, pw, vie, em, sx>>
     \/ cpuPart = "regs" /\ RegsNext /\ UNCHANGED <<vars, vc, tsk, pw, vie, em, sx>>
     \/ cpuPart = "walk" /\ WalkNext /\ UNCHANGED <<vars, vc, tsk, cr, vie, em, sx>>
     \/ cpuPart = "decode" /\ VieNext /\ UNCHANGED <<vars, vc, tsk, cr, pw, em, sx>>
     \/ cpuPart = "emulate" /\ EmulStep /\ UNCHANGED <<vars, vc, tsk, cr, pw, vie, sx>>
     \/ cpuPart = "string" /\ SxNext /\ UNCHANGED <<vars, vc, tsk, cr, pw, vie, em>>

CpuSpec == CpuInit /\ [][CpuNext]_cpuVars

\* The threads that run the vcpus keep the state of the machine, and never all
\* wait for one another.
ThreadsSound == cpuPart = "run" => VcpuSound

\* String instructions do each element once, for ports and for memory alike.
StringsExact ==
  (cpuPart = "inject" => StringOnce) /\ (cpuPart = "string" => StringExact)

\* An instruction that touches a device is decoded and carried out exactly.
InstructionExact ==
  (cpuPart = "decode" => DecodeExact) /\ (cpuPart = "emulate" => EmulationExact)
=============================================================================
