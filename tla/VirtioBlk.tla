----------------------------- MODULE VirtioBlk -----------------------------
(***************************************************************************)
(* The virtio block device of src/lib/pci_virtio_block.c.  A notification  *)
(* hands every waiting chain to the block interface (module BlockIf, here  *)
(* the set of requests it has not called back), or answers it at once (an  *)
(* IDENT, an unknown operation).  The i/o thread calls pci_vtblk_done.     *)
(*                                                                         *)
(* The driver waits for its requests before it resets the device: the      *)
(* reset does not cancel what the block interface holds.                   *)
(***************************************************************************)
EXTENDS Virtqueue

VARIABLES busy,  \* heads whose io_req is with the block interface
          io     \* the i/o thread: "idle", or "end" between its two calls

blkVars == <<busy, io>>

BlkInit == busy = {} /\ io = "idle"

BlkPost(c) ==
  \E h \in Heads : Post(c, 0, h) /\ UNCHANGED blkVars

BlkQueue(h) == busy' = busy \cup {h}

\* pci_vtblk_proc of one chain: blockif_read, write, delete or flush.
pci_vtblk_proc(c) ==
  /\ pc[c] = <<"notify", 0>> /\ vq_has_descs(0) /\ ~Confused(0)
  /\ vq_getchain(0)
  /\ BlkQueue(Head(0))
  /\ UNCHANGED <<mem, caps, vs_mtx, isr, intr, pc, drv, io>>

\* The requests that pci_vtblk_proc answers with pci_vtblk_done_locked.
pci_vtblk_proc_done(c) ==
  /\ pc[c] = <<"notify", 0>> /\ vq_has_descs(0) /\ ~Confused(0)
  /\ vq_getchain(0) /\ vq_relchain(0, Head(0))
  /\ pc' = [pc EXCEPT ![c] = <<"done", 0>>]
  /\ UNCHANGED <<caps, vs_mtx, isr, intr, drv, busy, io>>

pci_vtblk_proc_end(c) ==
  /\ pc[c] = <<"done", 0>>
  /\ vq_endchains(0, FALSE)
  /\ pc' = [pc EXCEPT ![c] = <<"notify", 0>>]
  /\ UNCHANGED <<mem, caps, vs_mtx, drv, busy, io>>

\* pci_vtblk_notify finds no more chains.
pci_vtblk_notify(c) ==
  /\ pc[c] = <<"notify", 0>> /\ ~vq_has_descs(0)
  /\ Written(c)
  /\ UNCHANGED <<mem, vq, caps, isr, intr, drv, busy, io>>

\* pci_vtblk_done on the i/o thread: locks, releases the chain ...
pci_vtblk_done(h) ==
  /\ io = "idle" /\ vs_mtx = None /\ h \in busy
  /\ busy' = busy \ {h} /\ vq_relchain(0, h)
  /\ vs_mtx' = "io" /\ io' = "end"
  /\ UNCHANGED <<vq, caps, isr, intr, pc, drv>>

\* ... and tells the guest.
DoneEnd == io' = "idle" /\ vq_endchains(0, FALSE)
pci_vtblk_done_end ==
  /\ io = "end" /\ DoneEnd
  /\ vs_mtx' = None
  /\ UNCHANGED <<mem, caps, pc, drv, busy>>

\* The write of STATUS and pci_vtblk_reset.
pci_vtblk_reset(c) ==
  /\ drv[0].out = {} /\ ResetWrite(c) /\ UNCHANGED blkVars

BlkResetDone(c) ==
  /\ pc[c][1] = "reset"
  /\ vi_reset_dev /\ Written(c)
  /\ UNCHANGED <<mem, intr, drv, busy, io>>

BlkCpu(c) ==
  \/ pci_vtblk_proc(c) \/ pci_vtblk_proc_done(c) \/ pci_vtblk_proc_end(c)
  \/ pci_vtblk_notify(c) \/ BlkResetDone(c)

BlkNext ==
  \/ DriverNext(FALSE) /\ UNCHANGED blkVars
  \/ \E c \in Vcpus : BlkPost(c) \/ pci_vtblk_reset(c) \/ BlkCpu(c)
  \/ pci_vtblk_done_end \/ \E h \in Heads : pci_vtblk_done(h)

\* Heads the device holds, and threads that still have to call vq_endchains.
BlkHolds == busy
BlkWillEnd == io = "end" \/ \E c \in Vcpus : pc[c][1] = "done"
=============================================================================
