------------------------------- MODULE Virtio -------------------------------
(***************************************************************************)
(* The virtio transport with one of its devices behind it: the block       *)
(* device, the 9P device or the network device.  The devices of a virtual  *)
(* machine share no state, so the behaviours of each are enough.           *)
(***************************************************************************)
EXTENDS VirtioBlk, Virtio9p, VirtioNet, TLC

CONSTANT Devices    \* the devices that are tried

VARIABLE dev        \* the device behind the queues

\* The guest's processors are interchangeable.
Symm == Permutations(Vcpus)

vars == <<vqVars, blkVars, p9Vars, netVars, dev>>

Init == VqInit /\ BlkInit /\ P9Init /\ NetInit /\ dev \in Devices

Blk(A) == dev = "blk" /\ A /\ UNCHANGED <<p9Vars, netVars, dev>>
P9(A) == dev = "9p" /\ A /\ UNCHANGED <<blkVars, netVars, dev>>
Net(A) == dev = "net" /\ A /\ UNCHANGED <<blkVars, p9Vars, dev>>
Driver(A) == \/ dev # "9p" /\ A /\ UNCHANGED <<blkVars, p9Vars, netVars, dev>>
             \/ P9(P9Driver /\ A)

Next == Blk(BlkNext) \/ P9(P9Next) \/ Net(NetNext)

Spec == Init /\ [][Next]_vars

\* Guest cpus that have begun an operation, interrupt handlers and device
\* threads get to run, and a mutex that is free again and again is acquired; the
\* block interface and the server answer every request, and a wait that polls
\* (pci_vtnet_rxwait) sees a condition that holds again and again.  Posting, resetting and
\* frames are up to the guest and the network.
FairSpec ==
  /\ Spec
  /\ \A c \in Vcpus : WF_vars(Driver(Check(c))) /\ SF_vars(Driver(QNotify(c)))
  /\ \A c \in Vcpus : WF_vars(Blk(BlkCpu(c))) /\ WF_vars(P9(P9Cpu(c))) /\ SF_vars(Net(NetCpu(c)))
  /\ \A k \in Queues : WF_vars(Driver(Irq(k) \/ Reap(k) \/ LookAgain(k)))
  /\ WF_vars(Blk(pci_vtblk_done_end)) /\ \A h \in Heads : SF_vars(Blk(pci_vtblk_done(h)))
  /\ WF_vars(P9(P9Thread)) /\ \A t \in Tags : SF_vars(P9(ReadAnswer(t)))
  /\ WF_vars(Net(TxThread)) /\ WF_vars(Net(RxThread))

-----------------------------------------------------------------------------
(* Properties.                                                             *)

\* Types of the rings, the cursors and the fields of the devices.
TypeOK ==
  /\ VqTypeOK
  /\ busy \subseteq Heads /\ io \in {"idle", "end"}
  /\ req \in [Heads -> Request] /\ srv \subseteq Request
  /\ slots \in [Heads -> [inuse : BOOLEAN, tag : Tags, idx : Heads, otag : Tags \cup {NoTag}]]
  /\ tap \in 0 .. MaxFrames

\* Heads the device took and did not return yet.
Holds(k) ==
  IF k = 0 /\ dev = "blk" THEN BlkHolds
  ELSE IF k = 0 /\ dev = "9p" THEN P9Holds
  ELSE IF k = RXQ /\ dev = "net" /\ rx = "block" THEN {mem[RXQ].ring[Slot(Returned(RXQ))]}
  ELSE {}

WillEnd(k) ==
  \/ dev = "blk" /\ BlkWillEnd
  \/ dev = "9p" /\ P9WillEnd
  \/ dev = "net" /\ k = RXQ /\ RxWillEnd
  \/ dev = "net" /\ k = TXQ /\ TxWillEnd

\* No chain is lost or returned twice, whatever the order of completions and
\* wherever the 16 bit indices wrap: what the driver posted is waiting in the
\* avail ring, held by the device or waiting in the used ring, in exactly one
\* of the three and only once; and vq_getchain never sees a confused driver.
ChainsAccounted ==
  \A k \in Queues : vq[k].ready =>
    LET w == Waiting(k)
        u == Used(k)
    IN /\ drv[k].out = Holds(k) \cup {w[i] : i \in DOMAIN w} \cup {u[i] : i \in DOMAIN u}
       /\ Cardinality(drv[k].out) =
            Cardinality(Holds(k)) + Cardinality(DOMAIN w) + Cardinality(DOMAIN u)

\* No interrupt is lost: when chains wait in the used ring and the driver is
\* not looking, either it was interrupted or a thread of the device is on its
\* way to vq_endchains, which will interrupt it.
NoLostInterrupt ==
  \A k \in Queues :
    vq[k].ready /\ drv[k].seen # mem[k].used /\ drv[k].irq = "idle" /\ ~intr[k] /\ ~isr
      => WillEnd(k) /\ ~mem[k].noint

\* No notification is lost, although the transmit thread turns them off: a
\* chain that waits in a queue of the block, 9P or transmit kind has a vcpu on
\* its way to the device, or a device thread that will look at the queue again.
NoLostKick ==
  \A k \in Queues : vq_has_descs(k) /\ ~(dev = "net" /\ k = RXQ) =>
    \/ \E c \in Vcpus : pc[c] \in {<<"check", k>>, <<"kick", k>>, <<"notify", k>>, <<"done", k>>}
                        /\ (dev = "net" /\ pc[c][1] = "check" /\ mem[k].nonotify => tx # "wait")
    \/ \E c \in Vcpus : pc[c][1] = "reset"
    \/ dev = "net" /\ tx # "wait"

\* The answer of the server goes to the chain of the request with its tag: a
\* slot that is no longer in use, but still has the tag, never hides it.
RightSlot ==
  p9[1] \in {"flush", "release", "deliver"} =>
    \E i \in Tagged(p9[2]) :
      /\ i = First(Tagged(p9[2])) /\ slots[i].inuse
      /\ slots[i].idx \in drv[0].out /\ req[slots[i].idx].tag = p9[2]

\* What a request keeps on its way through the rings and the device.
ChainsSound == TypeOK /\ ChainsAccounted /\ RightSlot

\* Neither side is left waiting for a signal of the other.
NoLostNotification == NoLostInterrupt /\ NoLostKick

\* pci_vtnet_reset waits for the threads: none of them works on a ring that was
\* taken away.
ResetExclusive ==
  dev = "net" =>
    /\ tx \in {"proc", "more", "end"} => vq[TXQ].ready
    /\ rx \in {"fill", "block", "more"} => vq[RXQ].ready

\* Every posted chain comes back, or the device is reset: the queue of the block
\* and of the 9P device, the transmit queue of the network device (a chain of
\* the receive queue waits for a frame).
ChainsReturn ==
  \A h \in Heads :
    LET k == IF dev = "net" THEN TXQ ELSE 0
    IN vq[k].ready /\ h \in drv[k].out
         ~> h \notin drv[k].out \/ \E c \in Vcpus : pc[c][1] = "reset"

\* A reset that began ends.
ResetEnds ==
  \A c \in Vcpus : pc[c][1] = "reset" ~> pc[c][1] # "reset"

\* What the guest began with the device ends.
RequestsServed == ChainsReturn /\ ResetEnds
=============================================================================
