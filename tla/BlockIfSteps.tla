---------------------------- MODULE BlockIfSteps ----------------------------
(***************************************************************************)
(* The first half of the proof that IInv of BlockIf is inductive: what     *)
(* TAILQ_REMOVE does to a queue, the initial state, and the steps that do  *)
(* not complete, cancel or accept a request.                               *)
(***************************************************************************)
EXTENDS BlockIf, TLAPS

\* What TAILQ_REMOVE returns.
LEMMA RemoveAtProps ==
  ASSUME NEW S, NEW q \in Seq(S), NEW k \in DOMAIN q
  PROVE  /\ TAILQ_REMOVE(q, k) \in Seq(S)
         /\ DOMAIN TAILQ_REMOVE(q, k) = 1..(Len(q) - 1)
         /\ \A j \in 1..(Len(q) - 1) :
              TAILQ_REMOVE(q, k)[j] = IF j < k THEN q[j] ELSE q[j + 1]
<1> DEFINE a == SubSeq(q, 1, k - 1)
           b == SubSeq(q, k + 1, Len(q))
<1>0. k \in 1..Len(q) /\ Len(q) \in Nat
  OBVIOUS
<1>1. a \in Seq(S) /\ Len(a) = k - 1 /\ \A j \in 1..(k - 1) : a[j] = q[j]
  BY <1>0
<1>2. b \in Seq(S) /\ Len(b) = Len(q) - k /\ \A j \in 1..(Len(q) - k) : b[j] = q[k + j]
  BY <1>0
<1>3. TAILQ_REMOVE(q, k) = a \o b
  BY DEF TAILQ_REMOVE
<1> HIDE DEF a, b
<1>4. /\ a \o b \in Seq(S)
      /\ Len(a \o b) = Len(a) + Len(b)
      /\ \A j \in 1..(Len(a) + Len(b)) :
           (a \o b)[j] = IF j <= Len(a) THEN a[j] ELSE b[j - Len(a)]
  <2>1. a \in Seq(S) /\ b \in Seq(S)
    BY <1>1, <1>2
  <2>2. a \o b \in Seq(S)
    BY ONLY <2>1
  <2>3. Len(a \o b) = Len(a) + Len(b)
    BY ONLY <2>1
  <2>4. \A j \in 1..(Len(a) + Len(b)) :
          (a \o b)[j] = IF j <= Len(a) THEN a[j] ELSE b[j - Len(a)]
    BY ONLY <2>1
  <2> QED BY <2>2, <2>3, <2>4
<1>5. ASSUME NEW j \in 1..(Len(q) - 1)
      PROVE  (a \o b)[j] = IF j < k THEN q[j] ELSE q[j + 1]
  <2>1. CASE j < k
    <3>1. j \in 1..(Len(a) + Len(b)) /\ j <= Len(a) /\ j \in 1..(k - 1)
      BY <1>0, <1>1, <1>2, <2>1
    <3> QED BY ONLY <1>1, <1>4, <2>1, <3>1
  <2>2. CASE ~(j < k)
    <3>0. j \in 1..(Len(a) + Len(b)) /\ ~(j <= Len(a)) /\ Len(a) = k - 1
      BY <1>0, <1>1, <1>2, <2>2
    <3>1. (a \o b)[j] = b[j - (k - 1)]
      BY ONLY <1>4, <3>0
    <3>2. j - (k - 1) \in 1..(Len(q) - k)
      BY <1>0, <2>2
    <3>3. b[j - (k - 1)] = q[k + (j - (k - 1))]
      BY <1>2, <3>2
    <3>4. k + (j - (k - 1)) = j + 1
      BY <1>0
    <3> QED BY <3>1, <3>3, <3>4, <2>2
  <2> QED BY <2>1, <2>2, Zenon
<1>6. Len(a \o b) = Len(q) - 1
  BY <1>0, <1>1, <1>2, <1>4
<1> QED BY <1>3, <1>4, <1>5, <1>6

LEMMA AheadInQueue ==
  ASSUME NEW q \in Seq(Elems)
  PROVE  \A i \in DOMAIN q : \A j \in 1..(i - 1) : j \in DOMAIN q
  OBVIOUS

\* p is q without x: the others stay once each, in their order.
RemovedFrom(p, q, x) ==
  /\ p \in Seq(Elems)
  /\ \A i, j \in DOMAIN p : p[i] = p[j] => i = j
  /\ \A t : (\E i \in DOMAIN p : p[i] = t) <=> (t # x /\ \E i \in DOMAIN q : q[i] = t)
  /\ \A i \in DOMAIN p : \E m \in DOMAIN q :
       /\ q[m] # x /\ p[i] = q[m]
       /\ \A n \in 1..(m - 1) : q[n] # x => \E j \in 1..(i - 1) : p[j] = q[n]

\* Removing the k-th element of a queue that holds each element once.
LEMMA RemoveAtOnce ==
  ASSUME NEW q \in Seq(Elems), NEW k \in DOMAIN q,
         \A i, j \in DOMAIN q : q[i] = q[j] => i = j
  PROVE  RemovedFrom(TAILQ_REMOVE(q, k), q, q[k])
<1> DEFINE p == TAILQ_REMOVE(q, k)
<1>1. /\ p \in Seq(Elems)
      /\ DOMAIN p = 1..(Len(q) - 1)
      /\ \A j \in 1..(Len(q) - 1) : p[j] = IF j < k THEN q[j] ELSE q[j + 1]
  BY RemoveAtProps
<1>2. k \in 1..Len(q) /\ Len(q) \in Nat /\ DOMAIN q = 1..Len(q)
  OBVIOUS
<1> HIDE DEF p
<1>3. \A i, j \in DOMAIN p : p[i] = p[j] => i = j
  BY <1>1, <1>2
<1>4. ASSUME NEW e PROVE (\E i \in DOMAIN p : p[i] = e) <=> (e # q[k] /\ \E i \in DOMAIN q : q[i] = e)
  <2>1. ASSUME NEW i \in DOMAIN p, p[i] = e PROVE e # q[k] /\ \E m \in DOMAIN q : q[m] = e
    <3> DEFINE m == IF i < k THEN i ELSE i + 1
    <3>1. m \in DOMAIN q /\ m # k /\ p[i] = q[m]
      BY <1>1, <1>2
    <3> QED BY <2>1, <3>1
  <2>2. ASSUME e # q[k], NEW m \in DOMAIN q, q[m] = e PROVE \E i \in DOMAIN p : p[i] = e
    <3>1. CASE m < k
      BY <1>1, <1>2, <2>2, <3>1
    <3>2. CASE m > k
      <4>1. m - 1 \in DOMAIN p /\ p[m - 1] = q[m]
        BY <1>1, <1>2, <3>2
      <4> QED BY <4>1, <2>2
    <3> QED BY <3>1, <3>2, <2>2, <1>2
  <2> QED BY <2>1, <2>2
<1>5. ASSUME NEW i \in DOMAIN p
      PROVE  \E m \in DOMAIN q :
               /\ q[m] # q[k] /\ p[i] = q[m]
               /\ \A n \in 1..(m - 1) : q[n] # q[k] => \E j \in 1..(i - 1) : p[j] = q[n]
  <2> DEFINE m == IF i < k THEN i ELSE i + 1
  <2>1. m \in DOMAIN q /\ m # k /\ p[i] = q[m] /\ i \in Int /\ m \in Int
    BY <1>1, <1>2
  <2>2. ASSUME NEW n \in 1..(m - 1), q[n] # q[k] PROVE \E j \in 1..(i - 1) : p[j] = q[n]
    <3>1. CASE n < k
      BY <1>1, <1>2, <2>1, <3>1
    <3>2. CASE n > k
      <4>1. n - 1 \in 1..(i - 1) /\ n - 1 \in 1..(Len(q) - 1) /\ ~(n - 1 < k)
        BY <1>1, <1>2, <2>1, <3>2
      <4>2. p[n - 1] = q[n]
        BY <1>1, <1>2, <4>1
      <4> QED BY <4>1, <4>2
    <3> QED BY <3>1, <3>2, <2>2, <1>2
  <2>3. q[m] # q[k]
    BY <2>1
  <2> QED BY <2>1, <2>2, <2>3
<1> QED BY <1>1, <1>3, <1>4, <1>5, Zenon DEF p, RemovedFrom

-----------------------------------------------------------------------------
LEMMA InitInv == Init => IInv
<1> SUFFICES ASSUME Init PROVE IInv
  OBVIOUS
<1> USE BlockIfAssumption DEF Init
<1>1. TypeOK
  <2>1. be \in [Elems -> [req : Reqs \cup {None}, status : Status, block : Nat]]
    BY DEF FreeElem, Status
  <2>2. br_offset \in [Reqs -> Offsets]
    OBVIOUS
  <2>3. pendq \in Seq(Elems) /\ freeq \subseteq Elems /\ busyq \subseteq Elems /\ inflight \subseteq Reqs
    OBVIOUS
  <2>4. /\ pc \in [Workers -> {"woken", "loop", "proc", "callback", "done", "wait", "exit"}]
        /\ cur \in [Workers -> Elems \cup {None}]
    OBVIOUS
  <2>5. /\ bc_mtx = None /\ bc_closing = FALSE /\ cpc = "idle" /\ ctgt = None
        /\ ret = "none" /\ bse_pending = FALSE
    OBVIOUS
  <2> QED BY ONLY <2>1, <2>2, <2>3, <2>4, <2>5, Zenon DEF TypeOK
<1>2. DOMAIN pendq = {}
  OBVIOUS
<1>3. QueuesPartition /\ BlockedHasBlocker /\ PendOnce
  BY <1>2 DEF QueuesPartition, BlockedHasBlocker, PendOnce, InPend, FreeElem
<1>4. CallbackExactlyOnce
  BY DEF CallbackExactlyOnce, Owing, FreeElem
<1>5. WorkerInv /\ BusyOwned /\ MutexInv /\ ReqInv /\ AwakeInv /\ ExitInv
  BY DEF WorkerInv, BusyOwned, MutexInv, ReqInv, AwakeInv, ExitInv, FreeElem
<1> QED BY <1>1, <1>3, <1>4, <1>5 DEF IInv

\* A step that leaves the queues, the requests and the threads' elements alone,
\* and moves no thread to or from its callback, only has to respect the mutex.
LEMMA QuietStep ==
  ASSUME IInv, UNCHANGED <<queues, br_offset, cur, inflight>>, TypeOK',
         \A w \in Workers : pc'[w] # pc[w] =>
            /\ pc[w] \in {"woken", "loop", "wait"}
            /\ pc'[w] \in {"woken", "loop"}
  PROVE  /\ QueuesPartition' /\ BlockedHasBlocker' /\ CallbackExactlyOnce' /\ PendOnce'
         /\ WorkerInv' /\ BusyOwned' /\ ReqInv' /\ AwakeInv'
<1> USE DEF queues
<1>1. QueuesPartition' /\ BlockedHasBlocker' /\ PendOnce' /\ BusyOwned' /\ ReqInv'
  BY DEF IInv, QueuesPartition, BlockedHasBlocker, PendOnce, BusyOwned, ReqInv, InPend, Blocks
<1>2. \A w \in Workers : \A x \in {"proc", "callback", "done"} : pc'[w] = x <=> pc[w] = x
  OBVIOUS
<1>3. \A e : Owing(e)' <=> Owing(e)
  BY <1>2 DEF Owing
<1>4. CallbackExactlyOnce'
  BY <1>3 DEF IInv, CallbackExactlyOnce
<1>5. WorkerInv'
  BY <1>2 DEF IInv, WorkerInv
<1>6. AwakeInv'
  BY DEF IInv, AwakeInv
<1> QED BY <1>1, <1>4, <1>5, <1>6

LEMMA EnterInv == ASSUME IInv, NEW w \in Workers, Enter(w) PROVE IInv'
<1> USE BlockIfAssumption DEF Enter, queues, caller
<1>1. TypeOK'
  BY DEF IInv, TypeOK
<1>2. MutexInv'
  BY DEF IInv, TypeOK, MutexInv
<1>3. \A v \in Workers : pc'[v] # pc[v] => pc[v] = "woken" /\ pc'[v] = "loop"
  BY DEF IInv, TypeOK
<1>4. ExitInv'
  BY DEF IInv, TypeOK, ExitInv
<1> QED BY <1>4, <1>1, <1>2, <1>3, QuietStep DEF IInv

LEMMA CancelPollInv == ASSUME IInv, CancelPoll \/ CancelWoken \/ SigcontHandler PROVE IInv'
<1> USE BlockIfAssumption DEF CancelPoll, CancelWoken, SigcontHandler, queues
<1>1. TypeOK'
  BY Zenon DEF IInv, TypeOK
<1>2. MutexInv'
  BY DEF IInv, TypeOK, MutexInv
<1>3. ExitInv'
  BY DEF IInv, TypeOK, ExitInv
<1> QED BY <1>3, <1>1, <1>2, QuietStep DEF IInv

LEMMA CloseInv == ASSUME IInv, Close PROVE IInv'
<1> USE BlockIfAssumption DEF Close, Broadcast, Open, queues, caller
<1>1. TypeOK'
  BY DEF IInv, TypeOK
<1>2. MutexInv'
  BY DEF IInv, TypeOK, MutexInv
<1>3. \A v \in Workers : pc'[v] # pc[v] => pc[v] = "wait" /\ pc'[v] = "woken"
  OBVIOUS
<1>4. ExitInv'
  BY DEF ExitInv
<1> QED BY <1>4, <1>1, <1>2, <1>3, QuietStep DEF IInv

LEMMA QuietCallInv ==
  ASSUME IInv, NEW r \in Reqs, RequestE2BIG(r) \/ CancelUnknown(r) \/ CancelBusy(r)
  PROVE  IInv'
<1> USE BlockIfAssumption DEF RequestE2BIG, CancelUnknown, CancelBusy, Open, queues
<1>1. TypeOK'
  BY DEF IInv, TypeOK
<1>2. MutexInv'
  BY DEF IInv, TypeOK, MutexInv
<1>3. ExitInv'
  BY DEF IInv, TypeOK, ExitInv
<1> QED BY <1>3, <1>1, <1>2, QuietStep DEF IInv

LEMMA ProcInv == ASSUME IInv, NEW w \in Workers, Proc(w) PROVE IInv'
<1> USE BlockIfAssumption DEF Proc, ProcStatus, queues, caller
<1>0. cur[w] \in Elems /\ be[cur[w]].status = "BUSY"
  BY DEF IInv, TypeOK, WorkerInv
<1>1. TypeOK'
  <2>1. be' \in [Elems -> [req : Reqs \cup {None}, status : Status, block : Nat]]
    <3> DEFINE R == [req : Reqs \cup {None}, status : Status, block : Nat]
    <3>1. be \in [Elems -> R] /\ "DONE" \in Status
      BY DEF IInv, TypeOK, Status
    <3>2. [be[cur[w]] EXCEPT !.status = "DONE"] \in R
      BY <1>0, <3>1
    <3>3. be' = [be EXCEPT ![cur[w]] = [be[cur[w]] EXCEPT !.status = "DONE"]]
      OBVIOUS
    <3> HIDE DEF R
    <3>4. be' \in [Elems -> R]
      BY ONLY <1>0, <3>1, <3>2, <3>3
    <3> QED BY <3>4 DEF R
  <2>2. pc' \in [Workers -> {"woken", "loop", "proc", "callback", "done", "wait", "exit"}]
    BY DEF IInv, TypeOK
  <2> QED BY <2>1, <2>2 DEF IInv, TypeOK
<1>2. \A e \in Elems : /\ be'[e].req = be[e].req /\ be'[e].block = be[e].block
                      /\ e # cur[w] => be'[e] = be[e]
  BY DEF IInv, TypeOK
<1>3. be'[cur[w]].status = "DONE"
  BY <1>0 DEF IInv, TypeOK
<1>4. QueuesPartition'
  BY <1>0, <1>2, <1>3 DEF IInv, QueuesPartition, InPend
<1>5. BlockedHasBlocker'
  <2>1. \A i \in DOMAIN pendq : pendq[i] \in Elems
    BY DEF IInv, TypeOK
  <2>2. \A e \in Elems : be'[e].status = "BLOCK" => be[e].status = "BLOCK"
    BY <1>2, <1>3
  <2>3. \A i \in DOMAIN pendq : \A j \in 1..(i - 1) : j \in DOMAIN pendq
    BY DEF IInv, TypeOK
  <2>4. busyq \subseteq Elems
    BY DEF IInv, TypeOK
  <2> QED BY <1>2, <2>1, <2>2, <2>3, <2>4 DEF IInv, BlockedHasBlocker, Blocks
<1>6. \A e \in Elems : Owing(e)' <=> Owing(e)
  <2>1. \A e \in Elems \ {cur[w]} : Owing(e)' <=> Owing(e)
    BY <1>0, <1>2 DEF Owing, IInv, TypeOK
  <2>2. Owing(cur[w])' /\ Owing(cur[w])
    BY <1>0 DEF Owing, IInv, TypeOK
  <2> QED BY <2>1, <2>2
<1>7. CallbackExactlyOnce'
  BY <1>2, <1>6 DEF IInv, CallbackExactlyOnce, TypeOK
<1>8. WorkerInv'
  BY <1>0, <1>2, <1>3 DEF IInv, TypeOK, WorkerInv
<1>9. MutexInv' /\ ReqInv' /\ AwakeInv' /\ PendOnce' /\ BusyOwned'
  <2>1. MutexInv' /\ PendOnce' /\ BusyOwned'
    BY DEF IInv, TypeOK, MutexInv, PendOnce, BusyOwned
  <2>2. ReqInv'
    BY <1>0, <1>2, <1>3 DEF IInv, ReqInv
  <2>3. AwakeInv'
    BY DEF IInv, TypeOK, AwakeInv
  <2> QED BY <2>1, <2>2, <2>3
<1>10. ExitInv'
  BY DEF IInv, TypeOK, ExitInv
<1> QED BY <1>10, <1>1, <1>4, <1>5, <1>7, <1>8, <1>9 DEF IInv

LEMMA CallbackInv == ASSUME IInv, NEW w \in Workers, Callback(w) PROVE IInv'
<1> USE BlockIfAssumption DEF Callback, queues, caller
<1>0. cur[w] \in Elems /\ be[cur[w]].status = "DONE" /\ be[cur[w]].req \in Reqs
  BY DEF IInv, TypeOK, WorkerInv, ReqInv
<1>1. TypeOK'
  BY <1>0 DEF IInv, TypeOK
<1>2. QueuesPartition' /\ BlockedHasBlocker' /\ PendOnce' /\ BusyOwned' /\ ReqInv'
  BY DEF IInv, QueuesPartition, BlockedHasBlocker, PendOnce, BusyOwned, ReqInv, InPend, Blocks
<1>3. WorkerInv' /\ MutexInv'
  BY <1>0 DEF IInv, TypeOK, WorkerInv, MutexInv
<1>4. AwakeInv'
  BY DEF IInv, TypeOK, AwakeInv
<1>5. Owing(cur[w]) /\ ~Owing(cur[w])'
  <2>1. Owing(cur[w])
    BY DEF Owing
  <2>2. \A v \in Workers : cur[v] = cur[w] => v = w
    BY <1>0 DEF IInv, WorkerInv
  <2>3. ~Owing(cur[w])'
    BY <1>0, <2>2 DEF Owing, IInv, TypeOK
  <2> QED BY <2>1, <2>3
<1>6. \A e \in Elems \ {cur[w]} : Owing(e)' <=> Owing(e)
  BY <1>0 DEF Owing, IInv, TypeOK
<1>7. CallbackExactlyOnce'
  BY <1>0, <1>5, <1>6 DEF IInv, CallbackExactlyOnce
<1>8. ExitInv'
  BY DEF IInv, TypeOK, ExitInv
<1> QED BY <1>8, <1>1, <1>2, <1>3, <1>4, <1>7 DEF IInv

\* The typing of a queue element, and of an update of one.
ElemType == [req : Reqs \cup {None}, status : Status, block : Nat]

LEMMA StatusUpdate ==
  ASSUME NEW b \in [Elems -> ElemType], NEW e \in Elems, NEW st \in Status
  PROVE  LET c == [b EXCEPT ![e].status = st] IN
         /\ c \in [Elems -> ElemType]
         /\ \A t \in Elems : /\ c[t].req = b[t].req /\ c[t].block = b[t].block
                             /\ t # e => c[t] = b[t]
         /\ c[e].status = st
<1> DEFINE r == [b[e] EXCEPT !.status = st]
           c == [b EXCEPT ![e] = r]
<1>1. /\ r \in ElemType /\ r.req = b[e].req /\ r.block = b[e].block /\ r.status = st
  BY DEF ElemType
<1> HIDE DEF r
<1>2. /\ c \in [Elems -> ElemType]
      /\ c[e] = r
      /\ \A t \in Elems : t # e => c[t] = b[t]
  BY <1>1
<1> HIDE DEF c
<1>3. /\ \A t \in Elems : /\ c[t].req = b[t].req /\ c[t].block = b[t].block
                          /\ t # e => c[t] = b[t]
      /\ c[e].status = st
  BY <1>1, <1>2
<1> QED BY <1>2, <1>3 DEF c, r

LEMMA LoopInv == ASSUME IInv, NEW w \in Workers, Loop(w) PROVE IInv'
<1> USE BlockIfAssumption
<1>0. cur[w] = None
  BY DEF IInv, TypeOK, WorkerInv, Loop
<1>1. CASE Runnable = {} /\ UNCHANGED <<queues, cur>>
           /\ pc' = [pc EXCEPT ![w] = IF bc_closing THEN "exit" ELSE "wait"]
  <2> USE <1>1 DEF Loop, queues, caller
  <2>1. TypeOK'
    BY DEF IInv, TypeOK
  <2>2. QueuesPartition' /\ BlockedHasBlocker' /\ PendOnce' /\ BusyOwned' /\ ReqInv'
    BY DEF IInv, QueuesPartition, BlockedHasBlocker, PendOnce, BusyOwned, ReqInv, InPend, Blocks
  <2>3. \A v \in Workers : \A x \in {"proc", "callback", "done"} : pc'[v] = x <=> pc[v] = x
    BY DEF IInv, TypeOK
  <2>4. \A e : Owing(e)' <=> Owing(e)
    BY <2>3 DEF Owing
  <2>5. CallbackExactlyOnce'
    BY <2>4 DEF IInv, CallbackExactlyOnce
  <2>6. WorkerInv'
    BY <2>3 DEF IInv, WorkerInv
  <2>7. MutexInv'
    BY DEF IInv, TypeOK, MutexInv
  <2>8. AwakeInv'
    \* The head of pendq is blocked, hence has a blocker on busyq, whose thread is awake.
    <3>1. SUFFICES ASSUME pendq # <<>> PROVE \E v \in Workers : pc'[v] \notin {"wait", "exit"}
      BY DEF AwakeInv
    <3>2. 1 \in DOMAIN pendq /\ pendq[1] \in Elems
      BY <3>1 DEF IInv, TypeOK
    <3>3. InPend(pendq[1]) /\ be[pendq[1]].status # "PEND"
      BY <3>2 DEF InPend, Runnable
    <3>4. be[pendq[1]].status = "BLOCK"
      BY <3>2, <3>3 DEF IInv, QueuesPartition
    <3>5. 1..(1 - 1) = {}
      OBVIOUS
    <3>6. PICK t \in busyq : TRUE
      BY <3>2, <3>4, <3>5 DEF IInv, BlockedHasBlocker
    <3>7. PICK v \in Workers : cur[v] = t
      BY <3>6 DEF IInv, BusyOwned
    <3>8. cur[v] # None
      BY <3>6, <3>7 DEF IInv, TypeOK
    <3>9. pc[v] \in {"proc", "callback", "done"}
      BY <3>8 DEF IInv, WorkerInv
    <3>10. pc'[v] \in {"proc", "callback", "done"}
      BY <2>3, <3>9
    <3> QED BY <3>10
  <2>9. ExitInv'
    BY DEF IInv, TypeOK, ExitInv
  <2> QED BY <2>1, <2>2, <2>5, <2>6, <2>7, <2>8, <2>9 DEF IInv
<1>2. CASE blockif_dequeue(w) /\ pc' = [pc EXCEPT ![w] = "proc"]
  <2>1. PICK k \in Runnable :
          /\ pendq' = TAILQ_REMOVE(pendq, k)
          /\ be' = [be EXCEPT ![pendq[k]].status = "BUSY"]
          /\ busyq' = busyq \cup {pendq[k]}
          /\ cur' = [cur EXCEPT ![w] = pendq[k]]
    BY <1>2, Zenon DEF blockif_dequeue
  <2> DEFINE e == pendq[k]
  <2>2. k \in DOMAIN pendq /\ e \in Elems /\ be[e].status = "PEND" /\ InPend(e)
    BY <2>1 DEF Runnable, IInv, TypeOK, InPend
  <2>3. /\ be' \in [Elems -> ElemType]
        /\ \A t \in Elems : /\ be'[t].req = be[t].req /\ be'[t].block = be[t].block
                            /\ t # e => be'[t] = be[t]
        /\ be'[e].status = "BUSY"
    <3>1. be \in [Elems -> ElemType] /\ "BUSY" \in Status
      BY DEF IInv, TypeOK, Status, ElemType
    <3> QED BY <2>1, <2>2, <3>1, StatusUpdate
  <2>4. /\ pendq' \in Seq(Elems)
        /\ PendOnce'
        /\ \A t : InPend(t)' <=> (t # e /\ InPend(t))
        /\ \A i \in DOMAIN pendq' : \E m \in DOMAIN pendq :
              /\ pendq[m] # e /\ pendq'[i] = pendq[m]
              /\ \A n \in 1..(m - 1) : pendq[n] # e => \E j \in 1..(i - 1) : pendq'[j] = pendq[n]
    <3>1. pendq \in Seq(Elems) /\ \A i, j \in DOMAIN pendq : pendq[i] = pendq[j] => i = j
      BY DEF IInv, TypeOK, PendOnce
    <3>2. RemovedFrom(TAILQ_REMOVE(pendq, k), pendq, pendq[k])
      BY ONLY <2>2, <3>1, RemoveAtOnce
    <3>3. RemovedFrom(pendq', pendq, e)
      BY <2>1, <3>2
    <3> QED BY ONLY <3>3, Zenon DEF RemovedFrom, PendOnce, InPend
  <2> HIDE DEF e
  <2>5. /\ freeq' = freeq /\ busyq' = busyq \cup {e}
        /\ cur' = [cur EXCEPT ![w] = e] /\ pc' = [pc EXCEPT ![w] = "proc"]
        /\ pc[w] = "loop" /\ bc_mtx = w /\ bc_mtx' = None
        /\ UNCHANGED <<br_offset, bc_closing, cpc, ctgt, ret, bse_pending, inflight>>
    BY <1>2, <2>1, Zenon DEF e, blockif_dequeue, Loop, caller
  <2>6. TypeOK'
    BY <2>2, <2>3, <2>4, <2>5 DEF IInv, TypeOK, ElemType
  <2>7. QueuesPartition'
    <3>1. QueuesPartition
      BY DEF IInv
    <3>2. \A t : InPend(t)' <=> (t # e /\ InPend(t))
      BY <2>4
    <3>3. ASSUME NEW t \in Elems
          PROVE  /\ (t \in freeq') <=> be'[t].status = "FREE"
                 /\ InPend(t)' <=> be'[t].status \in {"BLOCK", "PEND"}
                 /\ (t \in busyq') <=> be'[t].status \in {"BUSY", "DONE"}
      <4>1. CASE t = e
        BY ONLY <4>1, <3>1, <3>2, <2>2, <2>3, <2>5 DEF QueuesPartition
      <4>2. CASE t # e
        <5>1. be'[t] = be[t]
          BY <2>3, <4>2
        <5> QED BY ONLY <5>1, <4>2, <3>1, <3>2, <3>3, <2>5 DEF QueuesPartition
      <4> QED BY <4>1, <4>2
    <3> QED BY <3>3, Zenon DEF QueuesPartition
  <2>8. BlockedHasBlocker'
    <3> SUFFICES ASSUME NEW i \in DOMAIN pendq', be'[pendq'[i]].status = "BLOCK"
                 PROVE  LET off == br_offset[be'[pendq'[i]].req] IN
                        \/ \E j \in 1..(i - 1) : be'[pendq'[j]].block = off
                        \/ \E t \in busyq' : be'[t].block = off
      BY <2>5 DEF BlockedHasBlocker, Blocks
    <3>1. PICK m \in DOMAIN pendq :
            /\ pendq[m] # e /\ pendq'[i] = pendq[m]
            /\ \A n \in 1..(m - 1) : pendq[n] # e => \E j \in 1..(i - 1) : pendq'[j] = pendq[n]
      BY <2>4
    <3>2. pendq[m] \in Elems /\ pendq[m] # e
      BY <3>1 DEF IInv, TypeOK
    <3> DEFINE off == br_offset[be[pendq[m]].req]
    <3>3. be[pendq[m]].status = "BLOCK" /\ be'[pendq'[i]].req = be[pendq[m]].req
      BY <3>1, <3>2, <2>3
    <3>4. \/ \E n \in 1..(m - 1) : be[pendq[n]].block = off
          \/ \E t \in busyq : be[t].block = off
      BY <3>3 DEF IInv, BlockedHasBlocker, Blocks
    <3>5. CASE \E t \in busyq : be[t].block = off
      BY <3>3, <3>5, <2>3, <2>5 DEF IInv, TypeOK
    <3>6. ASSUME NEW n \in 1..(m - 1), be[pendq[n]].block = off
          PROVE  \/ \E j \in 1..(i - 1) : be'[pendq'[j]].block = off
                 \/ \E t \in busyq' : be'[t].block = off
      <4>1. n \in DOMAIN pendq /\ pendq[n] \in Elems
        BY DEF IInv, TypeOK
      <4>2. be'[pendq[n]].block = off
        BY <4>1, <3>6, <2>3
      <4>3. CASE pendq[n] = e
        BY <4>2, <4>3, <2>5
      <4>4. CASE pendq[n] # e
        BY <4>2, <4>4, <3>1
      <4> QED BY <4>3, <4>4
    <3> QED BY <3>3, <3>4, <3>5, <3>6
  <2>9. \A t \in Elems : Owing(t)' <=> Owing(t)
    <3> SUFFICES ASSUME NEW t \in Elems PROVE Owing(t)' <=> Owing(t)
      OBVIOUS
    <3>1. CASE t # e
      BY <3>1, <1>0, <2>2, <2>3, <2>5 DEF Owing, IInv, TypeOK
    <3>2. CASE t = e
      BY <3>2, <2>2, <2>3 DEF Owing
    <3> QED BY <3>1, <3>2
  <2>10. CallbackExactlyOnce'
    <3>1. CallbackExactlyOnce /\ inflight' = inflight /\ \A t \in Elems : be'[t].req = be[t].req
      BY <2>3, <2>5, Zenon DEF IInv
    <3> QED BY ONLY <2>9, <3>1, Zenon DEF CallbackExactlyOnce
  <2>11. WorkerInv'
    <3>1. e # None
      BY <2>2
    <3>2. ASSUME NEW v \in Workers PROVE cur[v] # e
      BY <2>2, <3>1 DEF IInv, WorkerInv
    <3>3. /\ cur'[w] = e /\ pc'[w] = "proc"
          /\ \A v \in Workers \ {w} : cur'[v] = cur[v] /\ pc'[v] = pc[v]
      BY <2>5 DEF IInv, TypeOK
    <3>4. \A v \in Workers : cur[v] # None => cur[v] \in Elems
      BY DEF IInv, TypeOK
    <3>5. \A v \in Workers \ {w} :
            /\ pc'[v] \in {"proc", "callback", "done"} <=> cur'[v] # None
            /\ pc'[v] = "proc" => be'[cur'[v]].status = "BUSY"
            /\ pc'[v] \in {"callback", "done"} => be'[cur'[v]].status = "DONE"
      BY <2>3, <3>2, <3>3, <3>4 DEF IInv, WorkerInv
    <3>6. \A v, x \in Workers : cur'[v] = cur'[x] /\ cur'[v] # None => v = x
      BY <3>2, <3>3 DEF IInv, WorkerInv
    <3> QED BY <2>3, <3>1, <3>3, <3>5, <3>6 DEF WorkerInv
  <2>12. BusyOwned'
    BY <1>0, <2>5 DEF IInv, TypeOK, BusyOwned
  <2>13. MutexInv'
    BY <2>5 DEF IInv, TypeOK, MutexInv
  <2>14. ReqInv'
    BY <2>2, <2>3 DEF IInv, ReqInv
  <2>15. AwakeInv'
    BY <2>5 DEF IInv, TypeOK, AwakeInv
  <2>16. ExitInv'
    BY <2>5 DEF IInv, TypeOK, ExitInv
  <2> QED BY <2>16, <2>4, <2>6, <2>7, <2>8, <2>10, <2>11, <2>12, <2>13, <2>14, <2>15 DEF IInv
<1> QED BY <1>1, <1>2 DEF Loop
=============================================================================
