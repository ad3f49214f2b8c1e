--------------------------- MODULE BlockIfProofs ---------------------------
(***************************************************************************)
(* For every set of elements, threads and requests: the queues of          *)
(* block_if.c stay consistent, a blocked request always has a blocker,     *)
(* every callback is made exactly once, no wakeup is lost, and             *)
(* blockif_close leaves nothing behind.                                    *)
(***************************************************************************)
EXTENDS BlockIfSteps, FiniteSetTheorems

-----------------------------------------------------------------------------
\* What blockif_complete does to the other elements: their queue, order,
\* request and end stay; those that started where e ended become runnable.
LEMMA CompleteFacts ==
  ASSUME IInv, NEW e \in Elems, blockif_complete(e), be[e].status # "FREE"
  PROVE  /\ pendq' \in Seq(Elems) /\ PendOnce'
         /\ \A t : InPend(t)' <=> (t # e /\ InPend(t))
         /\ busyq' = busyq \ {e} /\ freeq' = freeq \cup {e}
         /\ be' \in [Elems -> ElemType] /\ be'[e] = FreeElem
         /\ \A t \in Elems \ {e} :
              /\ be'[t].req = be[t].req /\ be'[t].block = be[t].block
              /\ be'[t].status = IF Unblocked(t, e) THEN "PEND" ELSE be[t].status
         /\ \A i \in DOMAIN pendq' : \E m \in DOMAIN pendq :
              /\ pendq'[i] = pendq[m] /\ pendq[m] # e
              /\ \A n \in 1..(m - 1) : pendq[n] # e => \E j \in 1..(i - 1) : pendq'[j] = pendq[n]
<1>1. be \in [Elems -> ElemType] /\ FreeElem \in ElemType /\ "PEND" \in Status
  BY BlockIfAssumption DEF IInv, TypeOK, Status, ElemType, FreeElem
<1>2. \A t \in Elems : /\ [be[t] EXCEPT !.status = "PEND"] \in ElemType
                      /\ [be[t] EXCEPT !.status = "PEND"].req = be[t].req
                      /\ [be[t] EXCEPT !.status = "PEND"].block = be[t].block
                      /\ [be[t] EXCEPT !.status = "PEND"].status = "PEND"
  BY <1>1 DEF ElemType
<1>3. be' = [t \in Elems |->
              IF t = e THEN FreeElem
              ELSE IF Unblocked(t, e) THEN [be[t] EXCEPT !.status = "PEND"]
              ELSE be[t]]
  BY DEF blockif_complete
<1>4. be' \in [Elems -> ElemType] /\ be'[e] = FreeElem
  BY <1>1, <1>2, <1>3
<1>5. ASSUME NEW t \in Elems \ {e}
      PROVE  /\ be'[t].req = be[t].req /\ be'[t].block = be[t].block
             /\ be'[t].status = IF Unblocked(t, e) THEN "PEND" ELSE be[t].status
  BY <1>2, <1>3
<1>6. freeq' = freeq \cup {e}
  BY DEF blockif_complete, Freed
<1>7. pendq \in Seq(Elems) /\ \A i, j \in DOMAIN pendq : pendq[i] = pendq[j] => i = j
  BY DEF IInv, TypeOK, PendOnce
<1>8. CASE be[e].status \in {"DONE", "BUSY"}
  <2>1. busyq' = busyq \ {e} /\ pendq' = pendq
    BY <1>8 DEF blockif_complete
  <2>2. ~InPend(e)
    BY <1>8, Zenon DEF IInv, QueuesPartition
  <2>3. \A t : InPend(t)' <=> (t # e /\ InPend(t))
    BY <2>1, <2>2 DEF InPend
  <2>4. \A i \in DOMAIN pendq' : \E m \in DOMAIN pendq :
           /\ pendq'[i] = pendq[m] /\ pendq[m] # e
           /\ \A n \in 1..(m - 1) : pendq[n] # e => \E j \in 1..(i - 1) : pendq'[j] = pendq[n]
    BY <2>1, <2>2 DEF InPend
  <2> QED BY <1>4, <1>5, <1>6, <1>7, <2>1, <2>3, <2>4 DEF PendOnce
<1>9. CASE be[e].status \notin {"DONE", "BUSY"}
  <2> DEFINE k == Index(pendq, e)
             p == TAILQ_REMOVE(pendq, k)
  <2>1. InPend(e) /\ e \notin busyq
    BY <1>1, <1>9 DEF IInv, QueuesPartition, ElemType, Status
  <2>2. k \in DOMAIN pendq /\ pendq[k] = e
    BY <2>1 DEF InPend, Index
  <2>3. busyq' = busyq \ {e} /\ pendq' = p
    BY <1>9, <2>1 DEF blockif_complete
  <2> HIDE DEF k
  <2>4. RemovedFrom(p, pendq, pendq[k])
    BY ONLY <2>2, <1>7, RemoveAtOnce
  <2> HIDE DEF p
  <2>5. RemovedFrom(pendq', pendq, e)
    BY <2>2, <2>3, <2>4
  <2>6. /\ pendq' \in Seq(Elems) /\ PendOnce' /\ \A t : InPend(t)' <=> (t # e /\ InPend(t))
        /\ \A i \in DOMAIN pendq' : \E m \in DOMAIN pendq :
             /\ pendq'[i] = pendq[m] /\ pendq[m] # e
             /\ \A n \in 1..(m - 1) : pendq[n] # e => \E j \in 1..(i - 1) : pendq'[j] = pendq[n]
    BY ONLY <2>5, Zenon DEF RemovedFrom, PendOnce, InPend
  <2> QED BY <1>4, <1>5, <1>6, <2>3, <2>6
<1> QED BY <1>8, <1>9

\* The conjuncts that blockif_complete preserves whoever calls it.
LEMMA CompleteInv ==
  ASSUME IInv, NEW e \in Elems, blockif_complete(e), be[e].status # "FREE", UNCHANGED br_offset
  PROVE  QueuesPartition' /\ BlockedHasBlocker' /\ ReqInv'
<1>1. /\ \A t : InPend(t)' <=> (t # e /\ InPend(t))
      /\ busyq' = busyq \ {e} /\ freeq' = freeq \cup {e}
      /\ be' \in [Elems -> ElemType] /\ be'[e] = FreeElem
      /\ \A t \in Elems \ {e} :
           /\ be'[t].req = be[t].req /\ be'[t].block = be[t].block
           /\ be'[t].status = IF Unblocked(t, e) THEN "PEND" ELSE be[t].status
      /\ \A i \in DOMAIN pendq' : \E m \in DOMAIN pendq :
           /\ pendq'[i] = pendq[m] /\ pendq[m] # e
           /\ \A n \in 1..(m - 1) : pendq[n] # e => \E j \in 1..(i - 1) : pendq'[j] = pendq[n]
  BY CompleteFacts
<1>2. FreeElem.status = "FREE"
  BY DEF FreeElem
<1>3. \A t \in Elems : Unblocked(t, e) => be[t].status \in {"BLOCK", "PEND"}
  BY DEF Unblocked, IInv, QueuesPartition
<1>4. QueuesPartition'
  <2> SUFFICES ASSUME NEW t \in Elems
               PROVE  /\ (t \in freeq') <=> be'[t].status = "FREE"
                      /\ InPend(t)' <=> be'[t].status \in {"BLOCK", "PEND"}
                      /\ (t \in busyq') <=> be'[t].status \in {"BUSY", "DONE"}
    BY DEF QueuesPartition
  <2>1. CASE t = e
    BY <1>1, <1>2, <2>1
  <2>2. CASE t # e
    BY <1>1, <1>3, <2>2 DEF IInv, QueuesPartition
  <2> QED BY <2>1, <2>2
<1>5. ReqInv'
  <2> SUFFICES ASSUME NEW t \in Elems, be'[t].status # "FREE" PROVE be'[t].req \in Reqs
    BY DEF ReqInv
  <2> QED BY <1>1, <1>2, <1>3 DEF IInv, ReqInv
<1>6. BlockedHasBlocker'
  <2> SUFFICES ASSUME NEW i \in DOMAIN pendq', be'[pendq'[i]].status = "BLOCK"
               PROVE  LET off == br_offset[be'[pendq'[i]].req] IN
                      \/ \E j \in 1..(i - 1) : be'[pendq'[j]].block = off
                      \/ \E t \in busyq' : be'[t].block = off
    BY DEF BlockedHasBlocker, Blocks
  <2>1. PICK m \in DOMAIN pendq :
          /\ pendq'[i] = pendq[m] /\ pendq[m] # e
          /\ \A n \in 1..(m - 1) : pendq[n] # e => \E j \in 1..(i - 1) : pendq'[j] = pendq[n]
    BY <1>1
  <2>2. pendq[m] \in Elems /\ InPend(pendq[m])
    BY DEF IInv, TypeOK, InPend
  <2> DEFINE off == br_offset[be[pendq[m]].req]
  <2>3. /\ be[pendq[m]].status = "BLOCK" /\ ~Unblocked(pendq[m], e)
        /\ be'[pendq'[i]].req = be[pendq[m]].req
    BY <1>1, <2>1, <2>2
  <2>4. be[e].block # off
    BY <2>2, <2>3, Zenon DEF Unblocked
  <2>5. \/ \E n \in 1..(m - 1) : be[pendq[n]].block = off
        \/ \E t \in busyq : be[t].block = off
    BY <2>3, Zenon DEF IInv, BlockedHasBlocker, Blocks
  <2>6. ASSUME NEW t \in busyq, be[t].block = off PROVE t \in busyq' /\ be'[t].block = off
    BY <1>1, <2>4, <2>6, Zenon DEF IInv, TypeOK
  <2>7. ASSUME NEW n \in 1..(m - 1), be[pendq[n]].block = off
        PROVE  \E j \in 1..(i - 1) : be'[pendq'[j]].block = off
    <3>1. pendq[n] \in Elems \ {e}
      BY <2>4, <2>7 DEF IInv, TypeOK
    <3>2. be'[pendq[n]].block = off
      BY <3>1, <2>7, <1>1
    <3> QED BY <3>1, <3>2, <2>1, Zenon
  <2> QED BY <2>3, <2>5, <2>6, <2>7
<1> QED BY <1>4, <1>5, <1>6

LEMMA CompleteStepInv == ASSUME IInv, NEW w \in Workers, Complete(w) PROVE IInv'
<1> USE BlockIfAssumption
<1>0. PICK e \in Elems : e = cur[w] /\ be[e].status = "DONE"
  BY DEF IInv, TypeOK, WorkerInv, Complete
<1>1. /\ pc[w] = "done" /\ bc_mtx = None /\ bc_mtx' = w
      /\ cur' = [cur EXCEPT ![w] = None] /\ pc' = [pc EXCEPT ![w] = "loop"]
      /\ blockif_complete(e)
      /\ UNCHANGED <<br_offset, bc_closing, cpc, ctgt, ret, bse_pending, inflight>>
  BY <1>0 DEF Complete, caller
<1>2. QueuesPartition' /\ BlockedHasBlocker' /\ ReqInv'
  BY <1>0, <1>1, CompleteInv
<1>3. /\ pendq' \in Seq(Elems) /\ PendOnce'
      /\ busyq' = busyq \ {e} /\ freeq' = freeq \cup {e}
      /\ be' \in [Elems -> ElemType] /\ be'[e] = FreeElem
      /\ \A t \in Elems \ {e} :
           /\ be'[t].req = be[t].req
           /\ be'[t].status = IF Unblocked(t, e) THEN "PEND" ELSE be[t].status
  BY <1>0, <1>1, CompleteFacts
<1>4. \A t \in Elems : Unblocked(t, e) => be[t].status \in {"BLOCK", "PEND"}
  BY DEF Unblocked, IInv, QueuesPartition
<1>5. TypeOK'
  BY <1>0, <1>1, <1>3 DEF IInv, TypeOK, ElemType
<1>6. /\ cur'[w] = None /\ pc'[w] = "loop"
      /\ \A v \in Workers \ {w} : cur'[v] = cur[v] /\ pc'[v] = pc[v] /\ cur[v] # e
  <2>1. \A v \in Workers \ {w} : cur[v] # e
    BY <1>0 DEF IInv, WorkerInv
  <2> QED BY <2>1, <1>1 DEF IInv, TypeOK
<1>7. \A t \in Elems : Owing(t)' <=> Owing(t)
  <2> SUFFICES ASSUME NEW t \in Elems PROVE Owing(t)' <=> Owing(t)
    OBVIOUS
  <2>1. CASE t = e
    <3>1. ~Owing(e)
      BY <1>0, <1>1, <1>6 DEF Owing
    <3>2. ~Owing(e)'
      BY <1>0, <1>3, <1>6 DEF Owing, FreeElem
    <3> QED BY <2>1, <3>1, <3>2
  <2>2. CASE t # e
    <3>1. (\E v \in Workers : cur'[v] = t /\ pc'[v] = "callback")
            <=> (\E v \in Workers : cur[v] = t /\ pc[v] = "callback")
      BY <1>1, <1>6
    <3> QED BY <2>2, <3>1, <1>3, <1>4 DEF Owing
  <2> QED BY <2>1, <2>2
<1>8. CallbackExactlyOnce'
  <2>1. ~Owing(e)
    BY <1>0, <1>1, <1>6 DEF Owing
  <2>2. \A t \in Elems : Owing(t) => be'[t].req = be[t].req
    BY <2>1, <1>3
  <2> QED BY <2>2, <1>1, <1>7 DEF IInv, CallbackExactlyOnce
<1>9. WorkerInv'
  <2>1. \A v \in Workers : cur[v] # None => cur[v] \in Elems
    BY DEF IInv, TypeOK
  <2>2. \A v \in Workers \ {w} :
          /\ pc'[v] \in {"proc", "callback", "done"} <=> cur'[v] # None
          /\ pc'[v] = "proc" => be'[cur'[v]].status = "BUSY"
          /\ pc'[v] \in {"callback", "done"} => be'[cur'[v]].status = "DONE"
    <3> SUFFICES ASSUME NEW v \in Workers \ {w}, cur[v] # None
                 PROVE  be'[cur[v]].status = be[cur[v]].status
      BY <1>6 DEF IInv, WorkerInv
    <3>1. be[cur[v]].status \in {"BUSY", "DONE"}
      BY DEF IInv, WorkerInv
    <3> QED BY <3>1, <2>1, <1>3, <1>4, <1>6
  <2>3. \A v, x \in Workers : cur'[v] = cur'[x] /\ cur'[v] # None => v = x
    BY <1>6 DEF IInv, WorkerInv
  <2> QED BY <1>6, <2>2, <2>3 DEF WorkerInv
<1>10. BusyOwned'
  BY <1>0, <1>3, <1>6 DEF IInv, BusyOwned
<1>11. MutexInv'
  BY <1>1 DEF IInv, TypeOK, MutexInv
<1>12. AwakeInv'
  BY <1>6 DEF AwakeInv
<1>13. ExitInv'
  BY <1>1 DEF IInv, TypeOK, ExitInv
<1> QED BY <1>13, <1>2, <1>3, <1>5, <1>8, <1>9, <1>10, <1>11, <1>12, Zenon DEF IInv

LEMMA CancelPendingInv == ASSUME IInv, NEW r \in Reqs, CancelPending(r) PROVE IInv'
<1> USE BlockIfAssumption
<1>0. PICK e \in Elems : InPend(e) /\ be[e].req = r /\ blockif_complete(e)
  BY DEF CancelPending, Withdrawable
<1>1. /\ inflight' = inflight \ {r} /\ ret' = "0"
      /\ UNCHANGED <<br_offset, bc_mtx, bc_closing, pc, cur, cpc, ctgt, bse_pending>>
  BY DEF CancelPending
<1>2. be[e].status \in {"BLOCK", "PEND"}
  BY <1>0 DEF IInv, QueuesPartition
<1>3. QueuesPartition' /\ BlockedHasBlocker' /\ ReqInv'
  BY <1>0, <1>1, <1>2, CompleteInv
<1>4. /\ pendq' \in Seq(Elems) /\ PendOnce'
      /\ busyq' = busyq \ {e} /\ freeq' = freeq \cup {e}
      /\ be' \in [Elems -> ElemType] /\ be'[e] = FreeElem
      /\ \A t \in Elems \ {e} :
           /\ be'[t].req = be[t].req
           /\ be'[t].status = IF Unblocked(t, e) THEN "PEND" ELSE be[t].status
      /\ \A t : InPend(t)' <=> (t # e /\ InPend(t))
  BY <1>0, <1>2, CompleteFacts, Zenon
<1>5. \A t \in Elems : Unblocked(t, e) => be[t].status \in {"BLOCK", "PEND"}
  BY DEF Unblocked, IInv, QueuesPartition
<1>6. TypeOK'
  BY <1>0, <1>1, <1>4, Zenon DEF IInv, TypeOK, ElemType
<1>7. \A v \in Workers : cur[v] # e
  <2> SUFFICES ASSUME NEW v \in Workers, cur[v] = e PROVE FALSE
    OBVIOUS
  <2>1. cur[v] # None
    OBVIOUS
  <2> QED BY <1>2, <2>1, Zenon DEF IInv, WorkerInv
<1>8. Owing(e) /\ ~Owing(e)'
  BY <1>1, <1>2, <1>4, <1>7 DEF Owing, FreeElem
<1>9. \A t \in Elems \ {e} : Owing(t)' <=> Owing(t)
  BY <1>1, <1>4, <1>5, Zenon DEF Owing
<1>10. CallbackExactlyOnce'
  BY <1>0, <1>1, <1>4, <1>8, <1>9, Zenon DEF IInv, CallbackExactlyOnce
<1>11. WorkerInv'
  <2> SUFFICES ASSUME NEW v \in Workers, cur[v] # None
               PROVE  be'[cur[v]].status = be[cur[v]].status
    BY <1>1, Zenon DEF IInv, WorkerInv
  <2>1. cur[v] \in Elems /\ be[cur[v]].status \in {"BUSY", "DONE"}
    BY DEF IInv, TypeOK, WorkerInv
  <2> QED BY <2>1, <1>4, <1>5, <1>7, Zenon
<1>12. BusyOwned' /\ MutexInv'
  BY <1>1, <1>4, Zenon DEF IInv, BusyOwned, MutexInv
<1>13. AwakeInv'
  <2>1. pendq # <<>>
    BY <1>0 DEF InPend
  <2> QED BY <2>1, <1>1 DEF IInv, AwakeInv
<1>14. ExitInv'
  BY <1>1 DEF IInv, ExitInv
<1> QED BY <1>14, <1>3, <1>4, <1>6, <1>10, <1>11, <1>12, <1>13, Zenon DEF IInv

LEMMA RequestInv == ASSUME IInv, NEW r \in Reqs, Request(r) PROVE IInv'
<1> USE BlockIfAssumption
<1>0. PICK e \in freeq, off \in Offsets :
        /\ \E end \in BlockEnds(off) : blockif_enqueue(e, r, off, end)
        /\ br_offset' = [br_offset EXCEPT ![r] = off]
  BY Zenon DEF Request
<1>1. PICK end \in BlockEnds(off) : blockif_enqueue(e, r, off, end)
  BY <1>0
<1> DEFINE blocked == \E t \in Elems : (InPend(t) \/ t \in busyq) /\ be[t].block = off
<1>2. /\ r \notin inflight /\ inflight' = inflight \cup {r} /\ ret' = "ok"
      /\ UNCHANGED <<busyq, bc_mtx, bc_closing, cur, cpc, ctgt, bse_pending>>
  BY DEF Request
<1>3. /\ freeq' = freeq \ {e}
      /\ pendq' = Append(pendq, e)
      /\ be' = [be EXCEPT ![e] = [req |-> r, block |-> end,
                                  status |-> IF blocked THEN "BLOCK" ELSE "PEND"]]
      /\ IF blocked THEN UNCHANGED pc ELSE Signal
  BY <1>1, Zenon DEF blockif_enqueue, Blocks
<1> HIDE DEF blocked
<1>4. end \in Nat /\ e \in Elems /\ be[e].status = "FREE" /\ ~InPend(e) /\ e \notin busyq
  BY <1>1 DEF BlockEnds, FlushBlock, IInv, TypeOK, QueuesPartition
<1>5. /\ be' \in [Elems -> ElemType] /\ be'[e].req = r
      /\ be'[e].status = (IF blocked THEN "BLOCK" ELSE "PEND")
      /\ \A t \in Elems \ {e} : be'[t] = be[t]
  <2> DEFINE n == [req |-> r, block |-> end, status |-> IF blocked THEN "BLOCK" ELSE "PEND"]
  <2>1. n \in ElemType /\ n.req = r /\ n.status = (IF blocked THEN "BLOCK" ELSE "PEND")
    BY <1>4 DEF ElemType, Status
  <2>2. be \in [Elems -> ElemType]
    BY DEF IInv, TypeOK, ElemType
  <2> HIDE DEF n
  <2>3. be' = [be EXCEPT ![e] = n]
    BY <1>3 DEF n
  <2> QED BY <2>1, <2>2, <2>3, <1>4
<1>6. /\ pendq' \in Seq(Elems) /\ Len(pendq) \in Nat
      /\ DOMAIN pendq = 1..Len(pendq) /\ DOMAIN pendq' = 1..(Len(pendq) + 1)
      /\ pendq'[Len(pendq) + 1] = e
      /\ \A i \in DOMAIN pendq : pendq'[i] = pendq[i] /\ pendq[i] \in Elems /\ pendq[i] # e
  BY <1>3, <1>4 DEF IInv, TypeOK, InPend
<1>21. \A i \in DOMAIN pendq : \A j \in 1..(i - 1) : j \in DOMAIN pendq
  BY AheadInQueue DEF IInv, TypeOK
<1>7. PendOnce'
  BY <1>6 DEF PendOnce, IInv
<1>8. \A t : InPend(t)' <=> (t = e \/ InPend(t))
  BY <1>6 DEF InPend
<1>9. \A v \in Workers : pc'[v] # pc[v] => pc[v] = "wait" /\ pc'[v] = "woken"
  BY <1>3 DEF Signal, Waiting, IInv, TypeOK
<1>10. pc' \in [Workers -> {"woken", "loop", "proc", "callback", "done", "wait", "exit"}]
  BY <1>3, Zenon DEF Signal, Waiting, IInv, TypeOK
<1>11. TypeOK'
  <2>1. TypeOK
    BY DEF IInv
  <2>2. br_offset' \in [Reqs -> Offsets]
    BY ONLY <2>1, <1>0 DEF TypeOK
  <2>3. freeq' \subseteq Elems /\ inflight' \subseteq Reqs
    BY <2>1, <1>2, <1>3 DEF TypeOK
  <2>4. ret' \in {"none", "ok", "E2BIG", "0", "EINVAL", "EBUSY"}
    BY <1>2
  <2>5. be' \in [Elems -> [req : Reqs \cup {None}, status : Status, block : Nat]]
    BY <1>5 DEF ElemType
  <2>6. pendq' \in Seq(Elems)
    BY <1>6
  <2> QED BY ONLY <2>1, <2>2, <2>3, <2>4, <2>5, <2>6, <1>2, <1>10, Zenon DEF TypeOK
<1>12. QueuesPartition'
  <2> SUFFICES ASSUME NEW t \in Elems
               PROVE  /\ (t \in freeq') <=> be'[t].status = "FREE"
                      /\ InPend(t)' <=> be'[t].status \in {"BLOCK", "PEND"}
                      /\ (t \in busyq') <=> be'[t].status \in {"BUSY", "DONE"}
    BY DEF QueuesPartition
  <2>1. CASE t = e
    BY <2>1, <1>2, <1>3, <1>4, <1>5, <1>8
  <2>2. CASE t # e
    BY <2>2, <1>2, <1>3, <1>5, <1>8, Zenon DEF IInv, QueuesPartition
  <2> QED BY <2>1, <2>2
<1>13. \A t \in Elems : be[t].status \in {"BLOCK", "PEND", "BUSY"} => be[t].req \in inflight
  BY Zenon DEF IInv, CallbackExactlyOnce, Owing
<1>14. BlockedHasBlocker'
  <2> SUFFICES ASSUME NEW i \in DOMAIN pendq', be'[pendq'[i]].status = "BLOCK"
               PROVE  LET o == br_offset'[be'[pendq'[i]].req] IN
                      \/ \E j \in 1..(i - 1) : be'[pendq'[j]].block = o
                      \/ \E t \in busyq' : be'[t].block = o
    BY DEF BlockedHasBlocker, Blocks
  <2>1. CASE i = Len(pendq) + 1
    <3>1. blocked /\ br_offset'[be'[pendq'[i]].req] = off
      BY <2>1, <1>0, <1>5, <1>6 DEF IInv, TypeOK
    <3>2. PICK t \in Elems : (InPend(t) \/ t \in busyq) /\ be[t].block = off
      BY <3>1, Zenon DEF blocked
    <3>3. t # e /\ be'[t].block = off
      BY <3>2, <1>4, <1>5
    <3>4. CASE t \in busyq
      BY <3>1, <3>3, <3>4, <1>2, Zenon
    <3>5. CASE InPend(t)
      <4>1. PICK j \in DOMAIN pendq : pendq[j] = t
        BY <3>5 DEF InPend
      <4>2. j \in 1..(i - 1) /\ pendq'[j] = t
        BY <4>1, <2>1, <1>6
      <4> QED BY <4>2, <3>1, <3>3
    <3> QED BY <3>2, <3>4, <3>5, Zenon
  <2>2. CASE i \in DOMAIN pendq
    <3> DEFINE o == br_offset[be[pendq[i]].req]
    <3>1. pendq'[i] = pendq[i] /\ be'[pendq[i]] = be[pendq[i]] /\ pendq[i] \in Elems
      BY <2>2, <1>5, <1>6
    <3>2. be[pendq[i]].req \in inflight /\ be[pendq[i]].req \in Reqs
      BY <3>1, <1>13 DEF IInv, ReqInv
    <3>3. br_offset'[be'[pendq'[i]].req] = o
      BY <3>1, <3>2, <1>0, <1>2 DEF IInv, TypeOK
    <3>4. \/ \E j \in 1..(i - 1) : be[pendq[j]].block = o
          \/ \E t \in busyq : be[t].block = o
      BY <2>2, <3>1, Zenon DEF IInv, BlockedHasBlocker, Blocks
    <3>5. ASSUME NEW t \in busyq PROVE be'[t] = be[t] /\ t \in busyq'
      BY <1>2, <1>4, <1>5 DEF IInv, TypeOK
    <3>6. ASSUME NEW j \in 1..(i - 1) PROVE be'[pendq'[j]] = be[pendq[j]]
      <4>1. j \in DOMAIN pendq
        BY <2>2, <1>21, Zenon
      <4> QED BY <4>1, <1>5, <1>6, Zenon
    <3> QED BY <3>3, <3>4, <3>5, <3>6
  <2> QED BY <2>1, <2>2, <1>6
<1>15. CallbackExactlyOnce'
  <2>1. \A v \in Workers : cur[v] # e
    <3> SUFFICES ASSUME NEW v \in Workers, cur[v] = e PROVE FALSE
      OBVIOUS
    <3>1. cur[v] # None
      BY <1>4
    <3> QED BY <3>1, <1>4 DEF IInv, WorkerInv
  <2>2. ~Owing(e) /\ Owing(e)'
    BY <2>1, <1>4, <1>5 DEF Owing
  <2>3. \A v \in Workers : pc'[v] = "callback" <=> pc[v] = "callback"
    BY <1>9
  <2>4. \A t \in Elems \ {e} : Owing(t)' <=> Owing(t)
    BY <2>3, <1>2, <1>5 DEF Owing
  <2> QED BY <2>2, <2>4, <1>2, <1>4, <1>5 DEF IInv, CallbackExactlyOnce
<1>16. WorkerInv'
  <2>1. \A v \in Workers : \A x \in {"proc", "callback", "done"} : pc'[v] = x <=> pc[v] = x
    BY <1>9
  <2>2. ASSUME NEW v \in Workers, cur[v] # None PROVE be'[cur[v]] = be[cur[v]]
    <3>1. cur[v] \in Elems /\ be[cur[v]].status \in {"BUSY", "DONE"}
      BY <2>2 DEF IInv, TypeOK, WorkerInv
    <3> QED BY <3>1, <1>4, <1>5
  <2> QED BY <2>1, <2>2, <1>2 DEF IInv, WorkerInv
<1>17. BusyOwned'
  BY <1>2 DEF IInv, BusyOwned
<1>18. MutexInv'
  BY <1>2, <1>9 DEF IInv, MutexInv
<1>19. ReqInv'
  BY <1>5 DEF IInv, ReqInv
<1>20. AwakeInv'
  <2>1. CASE blocked
    <3>1. PICK t \in Elems : InPend(t) \/ t \in busyq
      BY <2>1 DEF blocked
    <3>2. CASE InPend(t)
      <4>1. pendq # <<>> /\ pc' = pc
        BY <3>2, <2>1, <1>3 DEF InPend
      <4> QED BY <4>1 DEF IInv, AwakeInv
    <3>3. CASE t \in busyq
      <4>1. PICK v \in Workers : cur[v] = t
        BY <3>3 DEF IInv, BusyOwned
      <4>2. cur[v] # None
        BY <4>1
      <4>3. pc[v] \in {"proc", "callback", "done"}
        BY <4>2 DEF IInv, WorkerInv
      <4> QED BY <4>3, <1>9 DEF AwakeInv
    <3> QED BY <3>1, <3>2, <3>3
  <2>2. CASE ~blocked
    <3>1. CASE Waiting = {}
      <4>1. ~bc_closing
        BY DEF Request, Open
      <4>2. \A v \in Workers : pc[v] \notin {"wait", "exit"}
        BY <4>1, <3>1 DEF Waiting, IInv, ExitInv
      <4> QED BY <4>2, <1>9 DEF AwakeInv
    <3>2. CASE Waiting # {}
      BY <2>2, <3>2, <1>3 DEF Signal, Waiting, AwakeInv, IInv, TypeOK
    <3> QED BY <3>1, <3>2
  <2> QED BY <2>1, <2>2
<1>22. ExitInv'
  BY <1>2, <1>9 DEF IInv, ExitInv
<1> QED BY <1>22, <1>7, <1>11, <1>12, <1>14, <1>15, <1>16, <1>17, <1>18, <1>19, <1>20 DEF IInv

-----------------------------------------------------------------------------
LEMMA NextInv == IInv /\ [Next]_vars => IInv'
<1> SUFFICES ASSUME IInv, [Next]_vars PROVE IInv'
  OBVIOUS
<1>1. ASSUME NEW w \in Workers, WorkerStep(w) PROVE IInv'
  BY <1>1, EnterInv, LoopInv, ProcInv, CallbackInv, CompleteStepInv DEF WorkerStep
<1>2. ASSUME NEW r \in Reqs, CallStep(r) PROVE IInv'
  BY <1>2, RequestInv, QuietCallInv, CancelPendingInv DEF CallStep
<1>3. CASE CancelPoll \/ CancelWoken \/ SigcontHandler
  BY <1>3, CancelPollInv
<1>4. CASE Close
  BY <1>4, CloseInv
<1>5. CASE UNCHANGED vars
  <2> USE <1>5 DEF vars
  <2>1. TypeOK' /\ QueuesPartition'
    BY DEF IInv, TypeOK, QueuesPartition, InPend
  <2>2. BlockedHasBlocker' /\ PendOnce'
    <3>1. BlockedHasBlocker /\ PendOnce
      BY DEF IInv
    <3>2. pendq' = pendq /\ be' = be /\ busyq' = busyq /\ br_offset' = br_offset
      OBVIOUS
    <3> QED BY ONLY <3>1, <3>2 DEF BlockedHasBlocker, PendOnce, Blocks
  <2>3. CallbackExactlyOnce'
    BY DEF IInv, CallbackExactlyOnce, Owing
  <2>4. BusyOwned' /\ ReqInv'
    BY DEF IInv, BusyOwned, ReqInv
  <2>5. WorkerInv' /\ MutexInv'
    BY DEF IInv, WorkerInv, MutexInv
  <2>6. AwakeInv' /\ ExitInv'
    BY DEF IInv, AwakeInv, ExitInv
  <2> QED BY <2>1, <2>2, <2>3, <2>4, <2>5, <2>6 DEF IInv
<1> QED BY <1>1, <1>2, <1>3, <1>4, <1>5 DEF Next, Terminated

\* IInv holds in every reachable state of block_if.c's queues.
THEOREM Invariance == Spec => []IInv
  BY InitInv, NextInv, PTL DEF Spec

\* The variables keep their types.
THEOREM TypeCorrect == Spec => []TypeOK
<1>1. IInv => TypeOK
  BY DEF IInv
<1> QED BY <1>1, Invariance, PTL

\* The three queues always partition the elements, as be_status says.
THEOREM PartitionHolds == Spec => []QueuesPartition
<1>1. IInv => QueuesPartition
  BY DEF IInv
<1> QED BY <1>1, Invariance, PTL

\* No blocked request is ever orphaned by blockif_complete, blockif_dequeue
\* or blockif_cancel.
THEOREM BlockerHolds == Spec => []BlockedHasBlocker
<1>1. IInv => BlockedHasBlocker
  BY DEF IInv
<1> QED BY <1>1, Invariance, PTL

\* Every accepted request has exactly one element that will call it back,
\* and a request that was called back or withdrawn has none.
THEOREM ExactlyOnceHolds == Spec => []CallbackExactlyOnce
<1>1. IInv => CallbackExactlyOnce
  BY DEF IInv
<1> QED BY <1>1, Invariance, PTL

\* A runnable request never waits while every i/o thread sleeps.
THEOREM NoLostWakeupHolds == Spec => []NoLostWakeup
<1>1. IInv => NoLostWakeup
  <2> SUFFICES ASSUME IInv, NEW i \in DOMAIN pendq
               PROVE  \E w \in Workers : pc[w] \notin {"wait", "exit"}
    BY DEF NoLostWakeup
  <2>1. pendq # <<>>
    OBVIOUS
  <2> QED BY <2>1 DEF IInv, AwakeInv
<1> QED BY <1>1, Invariance, PTL

\* Once blockif_close has joined the threads, the queues are empty and every
\* accepted request was called back or withdrawn.
THEOREM CloseDrainsHolds == Spec => []CloseDrains
<1>1. IInv => CloseDrains
  <2> SUFFICES ASSUME IInv, Joined PROVE pendq = <<>> /\ busyq = {} /\ inflight = {}
    BY DEF CloseDrains
  <2>1. pendq = <<>>
    BY DEF IInv, AwakeInv, Joined
  <2>2. \A w \in Workers : pc[w] = "exit" /\ cur[w] = None
    BY DEF IInv, WorkerInv, Joined
  <2>3. busyq = {}
    BY <2>2, BlockIfAssumption DEF IInv, TypeOK, BusyOwned
  <2>4. \A e \in Elems : ~InPend(e)
    BY <2>1 DEF InPend
  <2>5. \A e \in Elems : ~Owing(e)
    BY <2>2, <2>3, <2>4 DEF IInv, QueuesPartition, Owing
  <2>6. inflight = {}
    BY <2>5 DEF IInv, CallbackExactlyOnce
  <2> QED BY <2>1, <2>3, <2>6
<1> QED BY <1>1, Invariance, PTL

\* The invariant and what it is for, together: blocked requests, wakeups and
\* blockif_close.
THEOREM BlockIfSoundHolds == Spec => []BlockIfSound
<1>1. IInv /\ BlockedHasBlocker /\ NoLostWakeup /\ CloseDrains => BlockIfSound
  BY DEF BlockIfSound
<1> QED BY <1>1, Invariance, BlockerHolds, NoLostWakeupHolds, CloseDrainsHolds, PTL

\* blockif_request refuses a request only when the caller has as many in flight
\* as blockif_queuesz() allows.  With bc_freeq empty every element is owned by
\* a thread that made its callback, at most one each, or owes a callback to a
\* request of its own; there are BLOCKIF_NUMTHR more elements than requests.
THEOREM NoSpuriousE2BIGHolds == Spec => []NoSpuriousE2BIG
<1>1. ASSUME IInv, freeq = {}, IsFiniteSet(inflight) PROVE Cardinality(inflight) >= QueueSz
  <2> DEFINE owing == {e \in Elems : Owing(e)}
             made == Elems \ owing
             owner == [e \in made |-> CHOOSE w \in Workers : cur[w] = e]
             request == [e \in owing |-> be[e].req]
  <2>1. owner \in Injection(made, Workers)
    <3>1. \A e \in made : \E w \in Workers : cur[w] = e
      <4>1. SUFFICES ASSUME NEW e \in made PROVE \E w \in Workers : cur[w] = e
        OBVIOUS
      <4>2. be[e].status # "FREE" /\ be[e].status \in Status
        BY <1>1 DEF IInv, QueuesPartition, TypeOK
      <4>3. be[e].status = "DONE"
        BY <4>1, <4>2 DEF Owing, Status
      <4>4. e \in busyq
        BY <1>1, <4>3 DEF IInv, QueuesPartition
      <4> QED BY <1>1, <4>4 DEF IInv, BusyOwned
    <3>2. \A e \in made : owner[e] \in Workers /\ cur[owner[e]] = e
      BY <3>1
    <3> HIDE DEF made
    <3>3. owner \in [made -> Workers]
      BY <3>2
    <3> HIDE DEF owner
    <3> QED BY <3>2, <3>3 DEF Injection, IsInjective
  <2>2. request \in Injection(owing, inflight)
    <3>1. \A e \in owing : request[e] = be[e].req /\ request[e] \in inflight
      BY <1>1 DEF IInv, CallbackExactlyOnce
    <3>2. \A e, f \in owing : request[e] = request[f] => e = f
      BY <1>1, <3>1 DEF IInv, CallbackExactlyOnce
    <3>3. request \in [owing -> inflight]
      BY <3>1
    <3> HIDE DEF request, owing
    <3> QED BY <3>2, <3>3 DEF Injection, IsInjective
  <2>3. /\ IsFiniteSet(owing) /\ IsFiniteSet(made)
        /\ Cardinality(made) <= Cardinality(Workers)
        /\ Cardinality(owing) <= Cardinality(inflight)
    <3> HIDE DEF owing, made, owner, request
    <3> QED BY <1>1, <2>1, <2>2, FS_Injection, BlockIfAssumption
  <2>4. Cardinality(Elems) = Cardinality(owing) + Cardinality(made)
    <3>1. Elems = owing \cup made /\ owing \cap made = {}
      OBVIOUS
    <3> HIDE DEF owing, made
    <3>2. Cardinality(owing) \in Nat /\ Cardinality(made) \in Nat
      BY <2>3, FS_CardinalityType
    <3>3. Cardinality(owing \cup made)
            = Cardinality(owing) + Cardinality(made) - Cardinality(owing \cap made)
      BY <2>3, FS_Union
    <3>4. Cardinality(owing \cap made) = 0
      BY <3>1, FS_EmptySet
    <3>5. Cardinality(Elems) = Cardinality(owing) + Cardinality(made) - 0
      BY <3>1, <3>3, <3>4
    <3> QED BY <3>2, <3>5
  <2>5. /\ Cardinality(owing) \in Nat /\ Cardinality(made) \in Nat
        /\ Cardinality(Workers) \in Nat /\ Cardinality(inflight) \in Nat
    BY <1>1, <2>3, FS_CardinalityType, BlockIfAssumption
  <2> HIDE DEF owing, made
  <2> QED BY <2>3, <2>4, <2>5, BlockIfAssumption
<1>2. ASSUME IInv PROVE IsFiniteSet(inflight)
  <2> DEFINE owing == {e \in Elems : Owing(e)}
             request == [e \in owing |-> be[e].req]
  <2>1. request \in Surjection(owing, inflight)
    <3>1. \A e \in owing : request[e] = be[e].req /\ request[e] \in inflight
      BY <1>2 DEF IInv, CallbackExactlyOnce
    <3>2. \A r \in inflight : \E e \in owing : request[e] = r
      BY <1>2, <3>1 DEF IInv, CallbackExactlyOnce
    <3>3. request \in [owing -> inflight]
      BY <3>1
    <3> HIDE DEF request, owing
    <3> QED BY <3>2, <3>3 DEF Surjection
  <2>2. IsFiniteSet(owing)
    BY FS_Subset, BlockIfAssumption
  <2> HIDE DEF owing, request
  <2> QED BY <2>1, <2>2, FS_Surjection
<1>3. IInv => NoSpuriousE2BIG
  BY <1>1, <1>2 DEF NoSpuriousE2BIG
<1> QED BY <1>3, Invariance, PTL

\* While blockif_cancel polls it holds bc_mtx, so the element it polls cannot
\* leave bc_busyq under it.
LEMMA PollInitInv == Init => PollInv
  BY DEF Init, PollInv

LEMMA PollStepInv == IInv /\ PollInv /\ [Next]_vars => PollInv'
<1> SUFFICES ASSUME IInv, PollInv, [Next]_vars PROVE PollInv'
  OBVIOUS
<1>0. cpc # "idle" => bc_mtx \notin Workers /\ bc_mtx # None
  BY BlockIfAssumption DEF IInv, MutexInv
<1>1. ASSUME NEW w \in Workers, WorkerStep(w) PROVE PollInv'
  <2>1. UNCHANGED <<cpc, ctgt>>
    BY <1>1 DEF WorkerStep, Enter, Loop, Proc, Callback, Complete, caller
  <2>2. cpc # "idle" => UNCHANGED busyq
    BY <1>0, <1>1 DEF WorkerStep, Enter, Loop, Proc, Callback, Complete, caller, queues
  <2> QED BY <2>1, <2>2 DEF PollInv
<1>2. ASSUME NEW r \in Reqs, CallStep(r) PROVE PollInv'
  <2>1. CASE CancelBusy(r)
    <3>1. PICK e \in busyq : ctgt' = [req |-> r, elem |-> e]
      BY <2>1 DEF CancelBusy
    <3>2. ctgt'.elem \in busyq'
      BY <2>1, <3>1 DEF CancelBusy, queues
    <3> QED BY <3>2 DEF PollInv
  <2>2. CASE cpc' = "idle"
    BY <2>2 DEF PollInv
  <2> QED BY <1>2, <2>1, <2>2 DEF CallStep, Request, RequestE2BIG, CancelPending, CancelUnknown, Open
<1>3. CASE CancelPoll \/ CancelWoken \/ SigcontHandler
  BY <1>3 DEF PollInv, CancelPoll, CancelWoken, SigcontHandler, queues
<1>4. CASE Close \/ UNCHANGED vars
  BY <1>4 DEF PollInv, Close, queues, caller, vars
<1> QED BY <1>1, <1>2, <1>3, <1>4 DEF Next, Terminated

\* With the single i/o thread of BLOCKIF_NUMTHR, blockif_cancel returns EBUSY
\* only when no thread is processing the request: the thread still owns the
\* element that was polled, so it cannot be busy with another one.
THEOREM CancelStops ==
  ASSUME \A v, w \in Workers : v = w
  PROVE  Spec => EBUSYMeansStopped
<1>1. ASSUME IInv, PollInv, [Next]_vars
      PROVE  [cpc = "poll" /\ cpc' = "idle" =>
                \A e \in Elems : be[e].req = ctgt.req => be[e].status # "BUSY"]_vars
  <2>1. SUFFICES ASSUME Next, cpc = "poll", cpc' = "idle", NEW e \in Elems, be[e].status = "BUSY"
                 PROVE  FALSE
    BY <1>1 DEF vars
  <2>2. bc_mtx # None
    BY <1>1, <2>1, BlockIfAssumption DEF IInv, MutexInv
  <2>3. CancelPoll
    <3>1. ASSUME NEW w \in Workers, WorkerStep(w) PROVE FALSE
      BY <2>1, <3>1 DEF WorkerStep, Enter, Loop, Proc, Callback, Complete, caller
    <3>2. ASSUME NEW r \in Reqs, CallStep(r) PROVE FALSE
      BY <2>1, <3>2, Zenon DEF CallStep, Request, RequestE2BIG, CancelPending, CancelUnknown, CancelBusy, Open
    <3>3. ~CancelWoken /\ ~SigcontHandler /\ ~Close /\ ~Terminated
      BY <2>1 DEF CancelWoken, SigcontHandler, Close, Terminated, Open, vars
    <3> QED BY <2>1, <3>1, <3>2, <3>3 DEF Next
  <2>4. be[ctgt.elem].status # "BUSY"
    BY <2>1, <2>3 DEF CancelPoll, StillBusy
  <2>5. e \in busyq /\ ctgt.elem \in busyq
    BY <1>1, <2>1 DEF IInv, QueuesPartition, PollInv
  <2>6. \E v, w \in Workers : cur[v] = e /\ cur[w] = ctgt.elem
    BY <1>1, <2>5 DEF IInv, BusyOwned
  <2> QED BY <2>1, <2>4, <2>6
<1>2. Spec => []PollInv
  BY Invariance, PollInitInv, PollStepInv, PTL DEF Spec
<1> QED BY <1>1, <1>2, Invariance, PTL DEF Spec, EBUSYMeansStopped
=============================================================================
