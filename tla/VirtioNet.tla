----------------------------- MODULE VirtioNet -----------------------------
(***************************************************************************)
(* The virtio network device: the threads and rings of                     *)
(* src/lib/pci_virtio_net_tap.c (the vmnet and vpnkit back ends have the   *)
(* same ones).  A transmit thread empties the tx queue and asks the driver *)
(* not to notify it while it works; a receive thread fills chains of the   *)
(* rx queue with the frames that wait at the tap device.  A reset may come *)
(* at any time and has to wait for both.                                   *)
(***************************************************************************)
EXTENDS Virtqueue

CONSTANT MaxFrames   \* bounds the frames that wait at the tap device

VARIABLES resetting, rx_ready,  \* fields of pci_vtnet_softc
          tx_mtx, tx_in_progress, tx,  \* tx: what the transmit thread does
          rx_in_progress, rx,          \* rx: what the receive thread does (it holds
                                       \* rx_mtx unless it is in select)
          tap,                         \* frames waiting
          active                       \* the queue the driver posts on

netVars == <<resetting, rx_ready, tx_mtx, tx_in_progress, tx, rx_in_progress, rx, tap, active>>
txVars == <<tx_mtx, tx_in_progress, tx>>
rxVars == <<rx_in_progress, rx, tap, active>>

RXQ == 0
TXQ == 1

\* The threads were created before the guest runs.
NetInit ==
  /\ resetting = FALSE /\ rx_ready = FALSE
  /\ tx_mtx = None /\ tx_in_progress = FALSE /\ tx = "wait"
  /\ rx_in_progress = FALSE /\ rx = "select" /\ tap = 0
  /\ active = TXQ

\* Bound: between two resets the driver posts on one of the queues (the two meet
\* in the mutex of the device and in the reset only).
NetPost(c) == \E h \in Heads : Post(c, active, h) /\ UNCHANGED netVars

-----------------------------------------------------------------------------
(* Notifications.                                                          *)

pci_vtnet_ping_rxq(c) ==
  /\ pc[c] = <<"notify", RXQ>>
  /\ rx_ready' = TRUE
  /\ mem' = [mem EXCEPT ![RXQ].nonotify = ~rx_ready \/ @]
  /\ Written(c)
  /\ UNCHANGED <<vq, caps, isr, intr, drv, resetting, txVars, rxVars>>

\* pthread_cond_signal of tx_cond.
Signalled == IF tx = "wait" THEN "woken" ELSE tx

SignalTx_Never == UNCHANGED tx
SignalTx == tx' = IF tx_in_progress THEN tx ELSE Signalled

pci_vtnet_ping_txq(c) ==
  /\ pc[c] = <<"notify", TXQ>>
  /\ IF vq_has_descs(TXQ)
     THEN tx_mtx = None /\ SignalTx /\ mem' = [mem EXCEPT ![TXQ].nonotify = TRUE]
     ELSE UNCHANGED <<tx, mem>>
  /\ Written(c)
  /\ UNCHANGED <<vq, caps, isr, intr, drv, resetting, rx_ready, tx_mtx, tx_in_progress, rxVars>>

-----------------------------------------------------------------------------
(* pci_vtnet_tx_thread.                                                    *)

TxLock ==
  /\ tx \in {"woken", "relock"} /\ tx_mtx = None
  /\ tx_mtx' = "tx" /\ tx' = "test"
  /\ UNCHANGED <<vqVars, resetting, rx_ready, tx_in_progress, rxVars>>

TxWork == mem' = [mem EXCEPT ![TXQ].nonotify = TRUE]

TxStart ==
  /\ TxWork
  /\ tx_in_progress' = TRUE /\ tx_mtx' = None /\ tx' = "proc"

\* The head of the inner loop: with nothing to do notifications are allowed ...
TxTest ==
  /\ tx = "test"
  /\ IF resetting \/ ~vq_has_descs(TXQ)
     THEN tx' = "allow" /\ UNCHANGED <<mem, tx_mtx, tx_in_progress>>
     ELSE TxStart
  /\ UNCHANGED <<vq, caps, vs_mtx, isr, intr, pc, drv, resetting, rx_ready, rxVars>>

TxAllow ==
  /\ tx = "allow"
  /\ mem' = [mem EXCEPT ![TXQ].nonotify = FALSE]
  /\ tx' = "retest"
  /\ UNCHANGED <<vq, caps, vs_mtx, isr, intr, pc, drv, resetting, rx_ready, tx_mtx, tx_in_progress, rxVars>>

\* ... and the queue is looked at once more.
TxLook_Once == FALSE
TxLook == ~resetting /\ vq_has_descs(TXQ)

TxRetest ==
  /\ tx = "retest"
  /\ IF TxLook THEN TxStart
     ELSE tx' = "wait" /\ tx_in_progress' = FALSE /\ tx_mtx' = None /\ UNCHANGED mem
  /\ UNCHANGED <<vq, caps, vs_mtx, isr, intr, pc, drv, resetting, rx_ready, rxVars>>

\* pci_vtnet_proctx of one chain, and the test of the loop around it.
pci_vtnet_proctx ==
  /\ tx = "proc" /\ ~Confused(TXQ)
  /\ vq_getchain(TXQ) /\ vq_relchain(TXQ, Head(TXQ))
  /\ tx' = "more"
  /\ UNCHANGED <<caps, vs_mtx, isr, intr, pc, drv, resetting, rx_ready, tx_mtx, tx_in_progress, rxVars>>

TxMore ==
  /\ tx = "more"
  /\ tx' = IF vq_has_descs(TXQ) THEN "proc" ELSE "end"
  /\ UNCHANGED <<vqVars, resetting, rx_ready, tx_mtx, tx_in_progress, rxVars>>

TxEnd ==
  /\ tx = "end"
  /\ vq_endchains(TXQ, TRUE)
  /\ tx' = "relock"
  /\ UNCHANGED <<mem, caps, vs_mtx, pc, drv, resetting, rx_ready, tx_mtx, tx_in_progress, rxVars>>

-----------------------------------------------------------------------------
(* pci_vtnet_tap_select_func and pci_vtnet_tap_rx.                         *)

FrameArrives ==
  /\ tap < MaxFrames /\ tap' = tap + 1
  /\ UNCHANGED <<vqVars, resetting, rx_ready, txVars, rx_in_progress, rx, active>>

RxSelected ==
  /\ rx = "select" /\ tap > 0
  /\ rx_in_progress' = TRUE /\ rx' = "check"
  /\ UNCHANGED <<vqVars, resetting, rx_ready, txVars, tap, active>>

RxDone == rx' = "select" /\ rx_in_progress' = FALSE

RxMayUse == rx_ready /\ ~resetting

\* A frame is dropped when the ring is not set up, being reset or empty.
RxCheck ==
  /\ rx = "check"
  /\ IF ~RxMayUse
     THEN RxDone /\ tap' = tap - 1 /\ UNCHANGED <<vq, intr, isr>>
     ELSE IF ~vq_has_descs(RXQ)
     THEN RxDone /\ tap' = tap - 1 /\ vq_endchains(RXQ, TRUE)
     ELSE rx' = "fill" /\ UNCHANGED <<rx_in_progress, tap, vq, intr, isr>>
  /\ UNCHANGED <<mem, caps, vs_mtx, pc, drv, resetting, rx_ready, txVars, active>>

\* vq_getchain and readv: without a frame the chain is returned to the avail ring.
RxFill ==
  /\ rx = "fill" /\ tap > 0 /\ ~Confused(RXQ)
  /\ vq_getchain(RXQ) /\ vq_relchain(RXQ, Head(RXQ))
  /\ tap' = tap - 1 /\ rx' = "more"
  /\ UNCHANGED <<caps, vs_mtx, isr, intr, pc, drv, resetting, rx_ready, txVars, rx_in_progress, active>>

RxWouldBlock ==
  /\ rx = "fill" /\ tap = 0 /\ ~Confused(RXQ)
  /\ vq_getchain(RXQ) /\ rx' = "block"
  /\ UNCHANGED <<mem, caps, vs_mtx, isr, intr, pc, drv, resetting, rx_ready, txVars, rx_in_progress, tap, active>>

RxRetchain ==
  /\ rx = "block"
  /\ EndChains(RXQ, FALSE, Returned(RXQ)) /\ RxDone
  /\ UNCHANGED <<mem, caps, vs_mtx, pc, drv, resetting, rx_ready, txVars, tap, active>>

RxMore ==
  /\ rx = "more"
  /\ IF vq_has_descs(RXQ) THEN rx' = "fill" /\ UNCHANGED <<rx_in_progress, vq, intr, isr>>
     ELSE RxDone /\ vq_endchains(RXQ, TRUE)
  /\ UNCHANGED <<mem, caps, vs_mtx, pc, drv, resetting, rx_ready, txVars, tap, active>>

-----------------------------------------------------------------------------
(* pci_vtnet_reset.                                                        *)

ResetStart(c) ==
  /\ ResetWrite(c) /\ resetting' = TRUE
  /\ UNCHANGED <<rx_ready, txVars, rxVars>>

\* pci_vtnet_txwait and pci_vtnet_rxwait.
TxIdle_Unwaited == TRUE
TxIdle == tx_mtx = None /\ ~tx_in_progress
pci_vtnet_txwait(c) ==
  /\ pc[c] = <<"reset", 0>> /\ TxIdle
  /\ pc' = [pc EXCEPT ![c] = <<"reset", 1>>]
  /\ UNCHANGED <<mem, vq, caps, vs_mtx, isr, intr, drv, netVars>>

RxIdle == rx = "select" /\ ~rx_in_progress
pci_vtnet_reset(c) ==
  /\ pc[c] = <<"reset", 1>> /\ RxIdle
  /\ rx_ready' = FALSE /\ resetting' = FALSE
  /\ vi_reset_dev /\ Written(c) /\ active' \in Queues
  /\ UNCHANGED <<mem, intr, drv, txVars, rx_in_progress, rx, tap>>

NetCpu(c) == \/ pci_vtnet_ping_rxq(c) \/ pci_vtnet_ping_txq(c)
             \/ pci_vtnet_txwait(c) \/ pci_vtnet_reset(c)
TxThread == TxLock \/ TxTest \/ TxAllow \/ TxRetest \/ pci_vtnet_proctx \/ TxMore \/ TxEnd
RxThread == RxSelected \/ RxCheck \/ RxFill \/ RxWouldBlock \/ RxRetchain \/ RxMore

NetNext ==
  \/ DriverNext(TRUE) /\ UNCHANGED netVars
  \/ \E c \in Vcpus : NetPost(c) \/ ResetStart(c) \/ NetCpu(c)
  \/ TxThread \/ RxThread \/ FrameArrives

TxWillEnd == tx \in {"more", "end"} \/ tx = "proc"
RxWillEnd == rx \in {"more", "fill", "block"}
=============================================================================
