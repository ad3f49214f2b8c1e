------------------------------ MODULE Devices -------------------------------
(***************************************************************************)
(* The device side of the host process: the AHCI controller, the layout of *)
(* PCI resources, address decoding, INTx routing, the event loop with the  *)
(* serial port and the power button, the firmware interface and the        *)
(* knowledge base.  They run under locks of their own and share no state,  *)
(* so a behaviour follows one of them.                                     *)
(***************************************************************************)
EXTENDS Ahci, PciLayout, Mmio, Intx, Uart, Pm, Fwctl, HyperCog

CONSTANTS Parts,     \* the parts to follow
          GuestUses  \* sets of registers: a guest uses one of them

VARIABLES part,      \* the part this behaviour follows
          regs       \* the registers this guest uses

-----------------------------------------------------------------------------
(* The event loop with the two devices that use it while a guest runs: the *)
(* serial port and the power button.                                       *)

hostVars == <<meventVars, uartVars, pmVars, regs>>

HostInit == regs \in GuestUses /\ MeventInit({Tty}) /\ UartInit /\ PmInit

Ready == (IF tty > 0 THEN {Tty} ELSE {}) \cup (IF term THEN {Term} ELSE {})

HostLoop ==
  /\ mevent_build \/ KqChange \/ KqWait(Ready) \/ mevent_pipe_read
  /\ TermStep
  /\ UNCHANGED <<uartVars, pm, pmcpu, suspend>>

HostNext ==
  /\ UNCHANGED regs
  /\ \/ HostLoop
     \/ UartNext(regs) /\ UNCHANGED pmVars
     \/ PmNext(regs) /\ UNCHANGED uartVars

HostSpec == HostInit /\ [][HostNext]_hostVars

\* The pipe never holds as much as one read takes, so mevent_pipe_read never
\* goes round to a read that would block the loop, and with it every device
\* it serves.
PipeNeverBlocks == pipe < MEVENT_MAX

\* What the devices of the event loop rely on: input flows, the button is armed
\* and the loop never blocks on its own pipe.
EventLoopSound == UartInputFlows /\ ButtonArmed /\ PipeNeverBlocks

\* Input from the host is taken, and the guest is told of it.
HostSound == EventLoopSound /\ UartInterruptRaised
-----------------------------------------------------------------------------
(* All of them.                                                            *)

devicesVars == <<ahciVars, layoutVars, mmioVars, intxVars, hostVars, fwctlVars, vars, part>>

\* The parts a behaviour does not follow stay in one of their initial states.
DevicesInit ==
  /\ part \in Parts
  /\ AhciInit /\ LayoutInit /\ MmioInit /\ IntxInit /\ HostInit /\ fwctl_init /\ Init
  /\ part # "ahci" => drv.cmds = (CHOOSE m \in Menus : TRUE).cmds
  /\ part # "intx" => reg = CHOOSE r \in [Pirqs -> PirqRegs \ {0}] : TRUE
  /\ part # "host" => regs = CHOOSE r \in GuestUses : TRUE

DevicesNext ==
  /\ UNCHANGED part
  /\ \/ part = "ahci" /\ AhciNext /\ UNCHANGED <<vars, layoutVars, mmioVars, intxVars, hostVars, fwctlVars>>
     \/ part = "layout" /\ LayoutNext /\ UNCHANGED <<vars, ahciVars, mmioVars, intxVars, hostVars, fwctlVars>>
     \/ part = "mmio" /\ MmioNext /\ UNCHANGED <<vars, ahciVars, layoutVars, intxVars, hostVars, fwctlVars>>
     \/ part = "intx" /\ IntxNext /\ UNCHANGED <<vars, ahciVars, layoutVars, mmioVars, hostVars, fwctlVars>>
     \/ part = "host" /\ HostNext /\ UNCHANGED <<vars, ahciVars, layoutVars, mmioVars, intxVars, fwctlVars>>
     \/ part = "fwctl" /\ FwctlNext /\ UNCHANGED <<vars, ahciVars, layoutVars, mmioVars, intxVars, hostVars>>
     \/ part = "hypercog" /\ Next /\ UNCHANGED <<ahciVars, layoutVars, mmioVars, intxVars, hostVars, fwctlVars>>

DevicesSpec == DevicesInit /\ [][DevicesNext]_devicesVars

\* Nothing is reached at a wrong address: what the layout gives out does not
\* collide, and accesses follow a BAR when the guest moves it.
AddressesSound == (part = "layout" => LayoutSound) /\ (part = "mmio" => MmioSound)
=============================================================================
