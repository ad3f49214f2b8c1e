------------------------------ MODULE BlockIf ------------------------------
(***************************************************************************)
(* The block interface of src/lib/block_if.c: a device model hands         *)
(* requests to a pool of i/o threads through three queues of request       *)
(* elements, may cancel them, and closes the context.                      *)
(*                                                                         *)
(* bc_mtx is a variable because blockif_cancel keeps it across several     *)
(* steps; a critical section that never blocks is one action.  The caller  *)
(* is one device model: it calls the interface with its own mutex held     *)
(* (the AHCI and virtio-blk softc mutex), and the completion callback      *)
(* takes that mutex, so the mutex is held exactly while cpc # "idle".      *)
(* Ghost state: inflight, the requests whose callback the caller still     *)
(* expects.                                                                *)
(***************************************************************************)
EXTENDS Integers, FiniteSets, Sequences

CONSTANTS Elems,     \* bc_reqs[]
          Workers,   \* the i/o threads, BLOCKIF_NUMTHR of them
          Reqs,      \* the caller's blockif_req structures
          QueueSz,   \* blockif_queuesz(): what a caller may have in flight
          Offsets,   \* byte offsets a request may start at
          Lens,      \* byte lengths
          OFF_MAX,   \* be_block of a flush
          None

ASSUME BlockIfAssumption ==
  /\ IsFiniteSet(Elems) /\ IsFiniteSet(Workers) /\ Workers # {}
  /\ QueueSz \in Nat
  /\ Cardinality(Elems) = QueueSz + Cardinality(Workers)
  /\ Offsets \subseteq Nat /\ Offsets # {} /\ Lens \subseteq Nat /\ OFF_MAX \in Nat
  /\ None \notin Reqs \cup Workers \cup Elems \cup {"client"}
  /\ "client" \notin Workers

VARIABLES freeq, pendq, busyq,   \* bc_freeq, bc_pendq (in order), bc_busyq
          be,                    \* the fields of each element
          br_offset,             \* br_offset of each request
          bc_mtx,                \* None, a worker or "client"
          bc_closing,
          pc, cur,               \* each worker's place and element
          cpc, ctgt,             \* the caller's place; cancel's request and element
          ret,                   \* what the caller's last call returned
          bse_pending,           \* a blockif_sig_elem waits on blockif_bse_head
          inflight

vars == <<freeq, pendq, busyq, be, br_offset, bc_mtx, bc_closing, pc, cur,
          cpc, ctgt, ret, bse_pending, inflight>>
queues == <<freeq, pendq, busyq, be>>
caller == <<cpc, ctgt, ret, bse_pending>>

Status == {"FREE", "BLOCK", "PEND", "BUSY", "DONE"}
FreeElem == [req |-> None, status |-> "FREE", block |-> 0]

Init ==
  /\ freeq = Elems /\ pendq = <<>> /\ busyq = {}
  /\ be = [e \in Elems |-> FreeElem]
  /\ br_offset = [r \in Reqs |-> CHOOSE o \in Offsets : TRUE]
  /\ bc_mtx = None /\ bc_closing = FALSE
  /\ pc = [w \in Workers |-> "woken"] /\ cur = [w \in Workers |-> None]
  /\ cpc = "idle" /\ ctgt = None /\ ret = "none" /\ bse_pending = FALSE
  /\ inflight = {}

-----------------------------------------------------------------------------
(* Queue helpers.                                                          *)

InPend(e) == \E i \in DOMAIN pendq : pendq[i] = e

Index(q, e) == CHOOSE i \in DOMAIN q : q[i] = e
TAILQ_REMOVE(q, i) == SubSeq(q, 1, i - 1) \o SubSeq(q, i + 1, Len(q))

Blocks(t, off) == be[t].block = off

\* Which elements the completion of e makes runnable.
Unblocked_None(t, e) == FALSE
Unblocked(t, e) == InPend(t) /\ br_offset[be[t].req] = be[e].block

\* The free queue once e is back on it.
Freed_NotIfPending(e) == IF be[e].status \in {"DONE", "BUSY"} THEN freeq \cup {e} ELSE freeq
Freed(e) == freeq \cup {e}

\* blockif_complete: e leaves its queue, every pending element that starts
\* where e ended becomes runnable, e goes back to the free queue.
blockif_complete(e) ==
  /\ IF be[e].status \in {"DONE", "BUSY"}
       THEN busyq' = busyq \ {e} /\ UNCHANGED pendq
       ELSE pendq' = TAILQ_REMOVE(pendq, Index(pendq, e)) /\ UNCHANGED busyq
  /\ be' = [t \in Elems |->
              IF t = e THEN FreeElem
              ELSE IF Unblocked(t, e) THEN [be[t] EXCEPT !.status = "PEND"]
              ELSE be[t]]
  /\ freeq' = Freed(e)

\* blockif_dequeue: the first runnable element, if any.
Runnable == {i \in DOMAIN pendq : be[pendq[i]].status = "PEND"}

blockif_dequeue(w) ==
  /\ \E i \in Runnable :
       /\ \A j \in Runnable : i <= j
       /\ pendq' = TAILQ_REMOVE(pendq, i)
       /\ be' = [be EXCEPT ![pendq[i]].status = "BUSY"]
       /\ busyq' = busyq \cup {pendq[i]}
       /\ cur' = [cur EXCEPT ![w] = pendq[i]]
  /\ UNCHANGED freeq

\* pthread_cond_signal / pthread_cond_broadcast on bc_cond.
Waiting == {w \in Workers : pc[w] = "wait"}
Signal == IF Waiting = {} THEN UNCHANGED pc
          ELSE \E w \in Waiting : pc' = [pc EXCEPT ![w] = "woken"]
Broadcast == pc' = [w \in Workers |-> IF pc[w] = "wait" THEN "woken" ELSE pc[w]]

-----------------------------------------------------------------------------
(* The i/o thread, blockif_thr.                                            *)

\* The thread starts, or cond_wait returns: it takes bc_mtx.
Enter(w) ==
  /\ pc[w] = "woken" /\ bc_mtx = None
  /\ bc_mtx' = w
  /\ pc' = [pc EXCEPT ![w] = "loop"]
  /\ UNCHANGED <<queues, br_offset, bc_closing, cur, caller, inflight>>

\* The loop, bc_mtx held: take a request, or exit when closing, or wait.
Loop(w) ==
  /\ pc[w] = "loop" /\ bc_mtx = w
  /\ bc_mtx' = None
  /\ \/ /\ blockif_dequeue(w)
        /\ pc' = [pc EXCEPT ![w] = "proc"]
     \/ /\ Runnable = {}
        /\ pc' = [pc EXCEPT ![w] = IF bc_closing THEN "exit" ELSE "wait"]
        /\ UNCHANGED <<queues, cur>>
  /\ UNCHANGED <<br_offset, bc_closing, caller, inflight>>

\* be_status when the callback runs.
ProcStatus == "DONE"

\* blockif_proc up to be_status = BST_DONE, without bc_mtx.
Proc(w) ==
  /\ pc[w] = "proc"
  /\ be' = [be EXCEPT ![cur[w]].status = ProcStatus]
  /\ pc' = [pc EXCEPT ![w] = "callback"]
  /\ UNCHANGED <<freeq, pendq, busyq, br_offset, bc_mtx, bc_closing, cur, caller, inflight>>

\* The callback at the end of blockif_proc takes the caller's mutex.
Callback(w) ==
  /\ pc[w] = "callback" /\ cpc = "idle"
  /\ inflight' = inflight \ {be[cur[w]].req}
  /\ pc' = [pc EXCEPT ![w] = "done"]
  /\ UNCHANGED <<queues, br_offset, bc_mtx, bc_closing, cur, caller>>

\* Back in blockif_thr: take bc_mtx, complete the element, loop.
Complete(w) ==
  /\ pc[w] = "done" /\ bc_mtx = None
  /\ bc_mtx' = w
  /\ blockif_complete(cur[w])
  /\ cur' = [cur EXCEPT ![w] = None]
  /\ pc' = [pc EXCEPT ![w] = "loop"]
  /\ UNCHANGED <<br_offset, bc_closing, caller, inflight>>

-----------------------------------------------------------------------------
(* The caller.                                                             *)

\* Between calls, with the context not being closed.
Open == cpc = "idle" /\ bc_mtx = None /\ ~bc_closing

\* be_block of a flush, and of the other requests, which start at off.
FlushBlock == OFF_MAX
BlockEnds(off) == {off + n : n \in Lens} \cup {FlushBlock}

\* blockif_enqueue puts r's element on pendq: blocked when some queued or
\* running element ends where r starts.
blockif_enqueue(e, r, off, end) ==
  LET blocked == \E t \in Elems : (InPend(t) \/ t \in busyq) /\ Blocks(t, off)
  IN /\ freeq' = freeq \ {e}
     /\ pendq' = Append(pendq, e)
     /\ be' = [be EXCEPT ![e] = [req |-> r, block |-> end,
                                 status |-> IF blocked THEN "BLOCK" ELSE "PEND"]]
     /\ IF blocked THEN UNCHANGED pc ELSE Signal

\* blockif_read, _write, _delete (block = end of the range) and _flush
\* (block = OFF_MAX) with a free element.
Request(r) ==
  /\ Open /\ r \notin inflight /\ freeq # {}
  /\ \E e \in freeq, off \in Offsets :
       /\ \E end \in BlockEnds(off) : blockif_enqueue(e, r, off, end)
       /\ br_offset' = [br_offset EXCEPT ![r] = off]
  /\ inflight' = inflight \cup {r}
  /\ ret' = "ok"
  /\ UNCHANGED <<busyq, bc_mtx, bc_closing, cur, cpc, ctgt, bse_pending>>

\* blockif_request when bc_freeq is empty.
RequestE2BIG(r) ==
  /\ Open /\ r \notin inflight /\ freeq = {}
  /\ ret' = "E2BIG"
  /\ UNCHANGED <<queues, br_offset, bc_mtx, bc_closing, pc, cur, cpc, ctgt,
                 bse_pending, inflight>>

\* Where blockif_cancel looks for a request it can still withdraw.
Withdrawable_AnyQueue(e) == InPend(e) \/ e \in busyq
Withdrawable(e) == InPend(e)

\* blockif_cancel, request still pending: it is completed without a callback.
CancelPending(r) ==
  /\ Open
  /\ \E e \in Elems : Withdrawable(e) /\ be[e].req = r /\ blockif_complete(e)
  /\ inflight' = inflight \ {r}
  /\ ret' = "0"
  /\ UNCHANGED <<br_offset, bc_mtx, bc_closing, pc, cur, cpc, ctgt, bse_pending>>

\* blockif_cancel, request neither pending nor in flight.
CancelUnknown(r) ==
  /\ Open
  /\ \A e \in Elems : InPend(e) \/ e \in busyq => be[e].req # r
  /\ ret' = "EINVAL"
  /\ UNCHANGED <<queues, br_offset, bc_mtx, bc_closing, pc, cur, cpc, ctgt,
                 bse_pending, inflight>>

\* blockif_cancel, request in flight: keep bc_mtx and poll the element.
CancelBusy(r) ==
  /\ Open
  /\ \A e \in Elems : InPend(e) => be[e].req # r
  /\ \E e \in busyq : be[e].req = r /\ ctgt' = [req |-> r, elem |-> e]
  /\ bc_mtx' = "client"
  /\ cpc' = "poll"
  /\ UNCHANGED <<queues, br_offset, bc_closing, pc, cur, ret, bse_pending, inflight>>

\* The condition of the while loop.
StillBusy_NoLoop == FALSE
StillBusy == be[ctgt.elem].status = "BUSY"

\* The while loop: push a blockif_sig_elem and send SIGCONT while the
\* element is busy, else drop bc_mtx and return EBUSY.
CancelPoll ==
  /\ cpc = "poll"
  /\ IF StillBusy
       THEN /\ bse_pending' = TRUE
            /\ cpc' = "signalled"
            /\ UNCHANGED <<bc_mtx, ctgt, ret>>
       ELSE /\ bc_mtx' = None /\ cpc' = "idle" /\ ctgt' = None /\ ret' = "EBUSY"
            /\ UNCHANGED bse_pending
  /\ UNCHANGED <<queues, br_offset, bc_closing, pc, cur, inflight>>

\* bse_pending was cleared: poll again.
CancelWoken ==
  /\ cpc = "signalled" /\ ~bse_pending
  /\ cpc' = "poll"
  /\ UNCHANGED <<queues, br_offset, bc_mtx, bc_closing, pc, cur, ctgt, ret,
                 bse_pending, inflight>>

\* blockif_sigcont_handler, on the event thread.
SigcontHandler ==
  /\ bse_pending
  /\ bse_pending' = FALSE
  /\ UNCHANGED <<queues, br_offset, bc_mtx, bc_closing, pc, cur, cpc, ctgt, ret, inflight>>

\* blockif_close up to pthread_join.
Close ==
  /\ Open
  /\ bc_closing' = TRUE
  /\ Broadcast
  /\ UNCHANGED <<queues, br_offset, bc_mtx, cur, caller, inflight>>

\* pthread_join returned for every thread: the context may be freed.
Joined == bc_closing /\ \A w \in Workers : pc[w] = "exit"
Terminated == Joined /\ UNCHANGED vars

-----------------------------------------------------------------------------
WorkerStep(w) == Enter(w) \/ Loop(w) \/ Proc(w) \/ Callback(w) \/ Complete(w)
CallStep(r) == \/ Request(r) \/ RequestE2BIG(r)
               \/ CancelPending(r) \/ CancelUnknown(r) \/ CancelBusy(r)

Next == \/ \E w \in Workers : WorkerStep(w)
        \/ \E r \in Reqs : CallStep(r)
        \/ CancelPoll \/ CancelWoken \/ SigcontHandler
        \/ Close
        \/ Terminated

Spec == Init /\ [][Next]_vars

\* The scheduler runs every thread that can run, a mutex that is free again
\* and again is eventually taken by a thread that waits for it, and a cancel
\* that has begun is carried on.
Fairness == /\ \A w \in Workers : SF_vars(Enter(w)) /\ WF_vars(Loop(w)) /\ WF_vars(Proc(w))
                                  /\ SF_vars(Callback(w)) /\ SF_vars(Complete(w))
            /\ WF_vars(CancelPoll) /\ WF_vars(CancelWoken) /\ WF_vars(SigcontHandler)
FairSpec == Spec /\ Fairness

-----------------------------------------------------------------------------
(* Properties.                                                             *)

\* The types of the variables.
TypeOK ==
  /\ freeq \subseteq Elems /\ pendq \in Seq(Elems) /\ busyq \subseteq Elems
  /\ be \in [Elems -> [req : Reqs \cup {None}, status : Status, block : Nat]]
  /\ br_offset \in [Reqs -> Offsets]
  /\ bc_mtx \in Workers \cup {"client", None} /\ bc_closing \in BOOLEAN
  /\ pc \in [Workers -> {"woken", "loop", "proc", "callback", "done", "wait", "exit"}]
  /\ cur \in [Workers -> Elems \cup {None}]
  /\ cpc \in {"idle", "poll", "signalled"}
  /\ ctgt \in [req : Reqs, elem : Elems] \cup {None}
  /\ ret \in {"none", "ok", "E2BIG", "0", "EINVAL", "EBUSY"}
  /\ bse_pending \in BOOLEAN /\ inflight \subseteq Reqs

\* The three queues partition the elements and be_status says which queue an
\* element is on (what the asserts in blockif_enqueue and blockif_dequeue and
\* the test in blockif_complete rely on).
QueuesPartition ==
  \A e \in Elems :
    /\ (e \in freeq) <=> be[e].status = "FREE"
    /\ InPend(e) <=> be[e].status \in {"BLOCK", "PEND"}
    /\ (e \in busyq) <=> be[e].status \in {"BUSY", "DONE"}

\* A blocked element is never orphaned: something ahead of it on bc_pendq, or
\* on bc_busyq, ends where it starts and will unblock it in blockif_complete.
BlockedHasBlocker ==
  \A i \in DOMAIN pendq :
    LET off == br_offset[be[pendq[i]].req]
    IN be[pendq[i]].status = "BLOCK" =>
         \/ \E j \in 1..(i - 1) : Blocks(pendq[j], off)
         \/ \E t \in busyq : Blocks(t, off)

\* A request whose callback is still owed has exactly one element that will
\* deliver it, and a request that was called back or whose cancel returned 0
\* has none: no callback is lost, doubled or made after a successful cancel.
Owing(e) == be[e].status \in {"BLOCK", "PEND", "BUSY"}
            \/ \E w \in Workers : cur[w] = e /\ pc[w] = "callback"
CallbackExactlyOnce ==
  /\ \A e \in Elems : Owing(e) => be[e].req \in inflight
  /\ \A e, f \in Elems : Owing(e) /\ Owing(f) /\ be[e].req = be[f].req => e = f
  /\ \A r \in inflight : \E e \in Elems : Owing(e) /\ be[e].req = r

\* A runnable request never waits while every i/o thread sleeps: the signal
\* of blockif_request, and the loop after each completion, lose no wakeup,
\* although blockif_cancel makes elements runnable without a signal.
NoLostWakeup ==
  (\E i \in DOMAIN pendq : be[pendq[i]].status = "PEND")
     => \E w \in Workers : pc[w] \notin {"wait", "exit"}

\* When blockif_close has joined the threads nothing is left on the queues
\* and every accepted request was called back ("XXX Cancel queued i/o's ???").
CloseDrains == Joined => pendq = <<>> /\ busyq = {} /\ inflight = {}

\* A caller that keeps to blockif_queuesz() never finds bc_freeq empty, although
\* elements whose callback already ran are still on bc_busyq.
NoSpuriousE2BIG == freeq = {} => Cardinality(inflight) >= QueueSz

\* The inductive invariant behind the properties above: bc_pendq holds each
\* element once, a thread between dequeue and complete owns one element of
\* bc_busyq, bc_mtx is held at the two places that keep it, elements in use
\* have a request, bc_pendq is not empty only if a thread is awake, and a
\* thread exits only when the context is closing.
PendOnce == \A i, j \in DOMAIN pendq : pendq[i] = pendq[j] => i = j
WorkerInv ==
  \A w \in Workers :
    /\ pc[w] \in {"proc", "callback", "done"} <=> cur[w] # None
    /\ pc[w] = "proc" => be[cur[w]].status = "BUSY"
    /\ pc[w] \in {"callback", "done"} => be[cur[w]].status = "DONE"
    /\ \A v \in Workers : cur[v] = cur[w] /\ cur[v] # None => v = w
BusyOwned == \A e \in busyq : \E w \in Workers : cur[w] = e
MutexInv == /\ \A w \in Workers : pc[w] = "loop" <=> bc_mtx = w
            /\ cpc # "idle" <=> bc_mtx = "client"
            /\ cpc # "idle" => ctgt \in [req : Reqs, elem : Elems]
ReqInv == \A e \in Elems : be[e].status # "FREE" => be[e].req \in Reqs
AwakeInv == pendq # <<>> => \E w \in Workers : pc[w] \notin {"wait", "exit"}
ExitInv == \A w \in Workers : pc[w] = "exit" => bc_closing
IInv == /\ TypeOK /\ QueuesPartition /\ BlockedHasBlocker /\ CallbackExactlyOnce
        /\ PendOnce /\ WorkerInv /\ BusyOwned /\ MutexInv /\ ReqInv /\ AwakeInv /\ ExitInv

\* While blockif_cancel polls an element, the element stays on bc_busyq.
PollInv == cpc # "idle" => ctgt.elem \in busyq

\* The invariant that makes the block interface work, with what it is for: no
\* blocked request loses its blocker, no wakeup is lost, and close drains.
BlockIfSound == IInv /\ BlockedHasBlocker /\ NoLostWakeup /\ CloseDrains

\* When blockif_cancel returns EBUSY no thread is processing the request any
\* more (with the single i/o thread of BLOCKIF_NUMTHR).
EBUSYMeansStopped ==
  [][cpc = "poll" /\ cpc' = "idle" =>
       \A e \in Elems : be[e].req = ctgt.req => be[e].status # "BUSY"]_vars

\* Every accepted request is eventually called back or cancelled.
RequestsFinish == \A r \in Reqs : r \in inflight ~> r \notin inflight

\* blockif_cancel returns: it holds both mutexes while it waits for the i/o
\* thread, whose callback needs one of them.
CancelReturns == cpc # "idle" ~> cpc = "idle"

\* What is asked of the block interface ends.
CallsReturn == RequestsFinish /\ CancelReturns
=============================================================================
