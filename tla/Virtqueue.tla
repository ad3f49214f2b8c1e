----------------------------- MODULE Virtqueue -----------------------------
(***************************************************************************)
(* The virtio transport of src/lib/virtio.c: the rings shared with the     *)
(* guest, the cursors of the device in them, interrupts, and the registers *)
(* that notify, reset and set up a device.  The device modules extend it.  *)
(*                                                                         *)
(* The guest's driver is external: it posts a chain, looks at the flag     *)
(* that suppresses notifications, writes QNOTIFY; on an interrupt it       *)
(* suppresses interrupts, takes the used chains, allows interrupts and     *)
(* looks again.  A chain is its head, an index of the descriptor table.    *)
(* Ring indices are uint16_t: they count modulo IdxMod and wrap.  No       *)
(* device offers VIRTIO_RING_F_EVENT_IDX, so its branch is never taken.    *)
(***************************************************************************)
EXTENDS Integers, FiniteSets

CONSTANTS QSize,   \* vq_qsize
          IdxMod,  \* 2^16 in the code
          Vcpus,   \* guest cpus that use the driver
          Msix     \* the driver enabled MSI-X

ASSUME VirtqueueAssumption ==
  /\ QSize \in Nat \ {0} /\ IdxMod \in Nat /\ IdxMod > QSize /\ IdxMod % QSize = 0
  /\ Msix \in BOOLEAN

VARIABLES mem,     \* guest memory, per queue: the rings and their flags
          vq,      \* vqueue_info, per queue
          caps,    \* VIRTIO_F_NOTIFY_ON_EMPTY was negotiated
          vs_mtx,  \* the thread that holds the mutex of the device, or None
          isr,     \* vs_isr is set (and the line asserted)
          intr,    \* a message of the queue's vector is pending, per queue
          pc,      \* what a vcpu is doing, and for which queue
          drv      \* the driver, per queue: used entries seen, irq handler, posted chains

vqVars == <<mem, vq, caps, vs_mtx, isr, intr, pc, drv>>

Queues == {0, 1}
Heads == 0 .. QSize - 1
None == "none"
Guest == <<"guest", 0>>

Add(i, n) == (i + n) % IdxMod
Dist(from, to) == (to - from) % IdxMod

EmptyRings == [avail |-> 0, ring |-> [i \in Heads |-> 0], noint |-> FALSE,
               used |-> 0, uring |-> [i \in Heads |-> 0], nonotify |-> FALSE]
NoQueue == [ready |-> FALSE, last_avail |-> 0, save_used |-> 0]
IdleDriver == [seen |-> 0, irq |-> "idle", out |-> {}]

VqInit ==
  /\ mem = [k \in Queues |-> EmptyRings]
  /\ vq = [k \in Queues |-> NoQueue]
  /\ caps = FALSE /\ vs_mtx = None /\ isr = FALSE
  /\ intr = [k \in Queues |-> FALSE]
  /\ pc = [c \in Vcpus |-> Guest]
  /\ drv = [k \in Queues |-> IdleDriver]

-----------------------------------------------------------------------------
(* virtio.c, for the thread of a device.                                   *)

vq_has_descs(k) == vq[k].ready /\ vq[k].last_avail # mem[k].avail

\* "driver confused?": more chains than the ring has room for.
Confused(k) == Dist(vq[k].last_avail, mem[k].avail) > QSize

Slot(i) == i % QSize

\* vq_getchain takes this head and moves vq_last_avail.
Head(k) == mem[k].ring[Slot(vq[k].last_avail)]
Taken(k) == Add(vq[k].last_avail, 1)
vq_getchain(k) == vq' = [vq EXCEPT ![k].last_avail = Taken(k)]

Returned_Not(k) == vq[k].last_avail
Returned(k) == Add(vq[k].last_avail, -1)

vq_relchain(k, h) ==
  mem' = [mem EXCEPT ![k].uring[Slot(mem[k].used)] = h, ![k].used = Add(@, 1)]

NeedsIntr(k, used_all) ==
  \/ used_all /\ caps
  \/ vq[k].save_used # mem[k].used /\ ~mem[k].noint

\* vq_interrupt: without MSI-X it locks the mutex of the device itself.  A queue
\* that is not set up has no vector.
vq_interrupt(k) ==
  IF Msix THEN intr' = [intr EXCEPT ![k] = vq[k].ready \/ @] /\ UNCHANGED isr
  ELSE vs_mtx = None /\ isr' = TRUE /\ UNCHANGED intr

EndChains(k, used_all, last) ==
  /\ vq' = [vq EXCEPT ![k].save_used = mem[k].used, ![k].last_avail = last]
  /\ IF NeedsIntr(k, used_all) THEN vq_interrupt(k) ELSE UNCHANGED <<intr, isr>>

vq_endchains(k, used_all) == EndChains(k, used_all, vq[k].last_avail)

\* vi_reset_dev, with the mutex held.
vi_reset_dev ==
  /\ vq' = [k \in Queues |-> NoQueue]
  /\ caps' = FALSE /\ isr' = FALSE

-----------------------------------------------------------------------------
(* The driver and vi_pci_read and vi_pci_write, which serve its registers. *)

\* The driver writes GUESTCAP, zeroes fresh rings and writes their PFN.  Only the
\* network device offers NOTIFY_ON_EMPTY.
Setup(c, offered) ==
  /\ pc[c] = Guest /\ vs_mtx = None /\ \A k \in Queues : ~vq[k].ready
  /\ \A d \in Vcpus : pc[d] = Guest
  /\ caps' \in {FALSE, offered}
  /\ mem' = [k \in Queues |-> EmptyRings]
  /\ vq' = [k \in Queues |-> [NoQueue EXCEPT !.ready = TRUE]]
  /\ drv' = [k \in Queues |-> IdleDriver]
  /\ intr' = [k \in Queues |-> FALSE]
  /\ UNCHANGED <<vs_mtx, isr, pc>>

\* Bound: between two calls of vq_endchains fewer than IdxMod chains are posted.
\* (After exactly 2^16 the used index would be back at vq_save_used.)
Burst(k) == Add(mem[k].avail, 1) # vq[k].save_used

\* The first free descriptor becomes the head of a chain.
Post(c, k, h) ==
  /\ pc[c] = Guest /\ vq[k].ready /\ Burst(k)
  /\ h \in Heads \ drv[k].out /\ 0 .. h - 1 \subseteq drv[k].out
  /\ \A d \in Vcpus : pc[d][1] # "reset"
  /\ mem' = [mem EXCEPT ![k].ring[mem[k].avail % QSize] = h, ![k].avail = Add(@, 1)]
  /\ drv' = [drv EXCEPT ![k].out = @ \cup {h}]
  /\ pc' = [pc EXCEPT ![c] = <<"check", k>>]
  /\ UNCHANGED <<vq, caps, vs_mtx, isr, intr>>

Check(c) ==
  /\ pc[c][1] = "check"
  /\ pc' = [pc EXCEPT ![c] = IF mem[pc[c][2]].nonotify THEN Guest ELSE <<"kick", pc[c][2]>>]
  /\ UNCHANGED <<mem, vq, caps, vs_mtx, isr, intr, drv>>

\* vi_pci_write of QNOTIFY, up to the call of the device's notify.
QNotify(c) ==
  /\ pc[c][1] = "kick" /\ vs_mtx = None
  /\ vs_mtx' = c
  /\ pc' = [pc EXCEPT ![c] = <<"notify", pc[c][2]>>]
  /\ UNCHANGED <<mem, vq, caps, isr, intr, drv>>

\* The end of vi_pci_write: the mutex is released and the guest goes on.
Written(c) ==
  /\ vs_mtx' = None /\ pc' = [pc EXCEPT ![c] = Guest]

\* With MSI-X the vector names the queue; else the handler reads ISR, which takes
\* the mutex, clears the register and the line, and looks at every queue.
Irq(k) ==
  /\ drv[k].irq = "idle" /\ vq[k].ready /\ \A c \in Vcpus : pc[c][1] # "reset"
  /\ IF Msix THEN intr[k] /\ intr' = [intr EXCEPT ![k] = FALSE] /\ UNCHANGED isr
             ELSE isr /\ vs_mtx = None /\ isr' = FALSE /\ UNCHANGED intr
  /\ LET woken == IF Msix THEN {k} ELSE Queues
     IN /\ drv' = [j \in Queues |-> IF j \in woken THEN [drv[j] EXCEPT !.irq = "reap"] ELSE drv[j]]
        /\ mem' = [j \in Queues |-> IF j \in woken THEN [mem[j] EXCEPT !.noint = TRUE] ELSE mem[j]]
  /\ UNCHANGED <<vq, caps, vs_mtx, pc>>

\* One used chain is taken, and its entry cleared; with none left interrupts are
\* allowed again.
Reap(k) ==
  /\ drv[k].irq = "reap"
  /\ IF drv[k].seen # mem[k].used
     THEN /\ drv' = [drv EXCEPT ![k].seen = Add(@, 1),
                                ![k].out = @ \ {mem[k].uring[drv[k].seen % QSize]}]
          /\ mem' = [mem EXCEPT ![k].uring[drv[k].seen % QSize] = 0]
     ELSE /\ drv' = [drv EXCEPT ![k].irq = "look"]
          /\ mem' = [mem EXCEPT ![k].noint = FALSE]
  /\ UNCHANGED <<vq, caps, vs_mtx, isr, intr, pc>>

\* Chains may have been used since the last look.
LookAgain(k) ==
  /\ drv[k].irq = "look"
  /\ IF drv[k].seen # mem[k].used
     THEN /\ drv' = [drv EXCEPT ![k].irq = "reap"]
          /\ mem' = [mem EXCEPT ![k].noint = TRUE]
     ELSE drv' = [drv EXCEPT ![k].irq = "idle"] /\ UNCHANGED mem
  /\ UNCHANGED <<vq, caps, vs_mtx, isr, intr, pc>>

\* The driver stops using the queues and writes 0 to STATUS.
ResetWrite(c) ==
  /\ pc[c] = Guest /\ vs_mtx = None /\ vq[0].ready
  /\ \A d \in Vcpus : pc[d] = Guest
  /\ \A k \in Queues : drv[k].irq = "idle"
  /\ vs_mtx' = c
  /\ pc' = [pc EXCEPT ![c] = <<"reset", 0>>]
  /\ UNCHANGED <<mem, vq, caps, isr, intr, drv>>

DriverNext(offered) ==
  \/ \E c \in Vcpus : Setup(c, offered) \/ Check(c) \/ QNotify(c)
  \/ \E k \in Queues : Irq(k) \/ Reap(k) \/ LookAgain(k)

-----------------------------------------------------------------------------
(* The chains a queue holds.                                               *)

Window(ring, from, to) ==
  [i \in 0 .. Dist(from, to) - 1 |-> ring[Add(from, i) % QSize]]
Waiting(k) == Window(mem[k].ring, vq[k].last_avail, mem[k].avail)
Used(k) == Window(mem[k].uring, drv[k].seen, mem[k].used)

VqTypeOK ==
  /\ mem \in [Queues -> [avail : 0 .. IdxMod - 1, ring : [Heads -> Heads], noint : BOOLEAN,
                         used : 0 .. IdxMod - 1, uring : [Heads -> Heads], nonotify : BOOLEAN]]
  /\ vq \in [Queues -> [ready : BOOLEAN, last_avail : 0 .. IdxMod - 1,
                        save_used : 0 .. IdxMod - 1]]
  /\ drv \in [Queues -> [seen : 0 .. IdxMod - 1, irq : {"idle", "reap", "look"},
                         out : SUBSET Heads]]
  /\ caps \in BOOLEAN /\ isr \in BOOLEAN /\ intr \in [Queues -> BOOLEAN]
=============================================================================
