------------------------------ MODULE Callout ------------------------------
(***************************************************************************)
(* The timer service of src/lib/vmm/vmm_callout.c: callers arm, stop and   *)
(* drain callouts; one thread sleeps until the nearest timeout and runs    *)
(* the handler.                                                            *)
(*                                                                         *)
(* A critical section of callout_mtx is one action.  Each callout belongs  *)
(* to a device with a lock of its own (VLAPIC_TIMER_LOCK, VHPET_LOCK, ...) *)
(* that is held around callout_reset and callout_stop and in the handler;  *)
(* callout_drain is called without it.  callout_reset signals callout_cnd  *)
(* after it has released callout_mtx, so the signal is a step of its own.  *)
(* Ghost state: armed, the callouts that were reset and neither fired nor  *)
(* stopped since.                                                          *)
(***************************************************************************)
EXTENDS Integers, Sequences

CONSTANTS Callouts, Callers,
          Delays,      \* what callout_reset adds to the present time
          MaxTime,     \* the clock stops here
          None

ASSUME CalloutAssumption == /\ MaxTime \in Nat /\ Delays \subseteq Nat
                            /\ None \notin Callouts

VARIABLES queue,       \* callout_queue; "queued" is membership
          timeout, flags,
          work,
          now,         \* mach_absolute_time
          pc, cur,     \* the callout thread's place and callout
          wake,        \* when its timed wait ends
          signalling,  \* the callout whose reset a caller is about to signal
          draining,    \* the callout a caller waits for in callout_drain
          armed

vars == <<queue, timeout, flags, work, now, pc, cur, wake, signalling, draining, armed>>

Flags == {"ACTIVE", "PENDING", "COMPLETED", "WAITING"}
Queued(c) == \E i \in DOMAIN queue : queue[i] = c

Init == /\ queue = <<>> /\ timeout = [c \in Callouts |-> 0]
        /\ flags = [c \in Callouts |-> {}]
        /\ work = FALSE /\ now = 0
        /\ pc = "woken" /\ cur = None /\ wake = 0
        /\ signalling = [u \in Callers |-> None]
        /\ draining = [u \in Callers |-> None]
        /\ armed = {}

-----------------------------------------------------------------------------
(* The queue.                                                              *)

\* callout_cmp: c goes before node.
callout_cmp(t, s) == t < s

\* callout_remove: nothing unless c is queued.
Position(q, c) == CHOOSE i \in DOMAIN q : q[i] = c
callout_remove(q, c) ==
  IF \E i \in DOMAIN q : q[i] = c
  THEN SubSeq(q, 1, Position(q, c) - 1) \o SubSeq(q, Position(q, c) + 1, Len(q))
  ELSE q

\* callout_insert: before the first callout with a later timeout.
callout_insert(q, to, c) ==
  LET later == {i \in DOMAIN q : callout_cmp(to[c], to[q[i]])}
      at == IF later = {} THEN Len(q) + 1
            ELSE CHOOSE i \in later : \A j \in later : i <= j
  IN SubSeq(q, 1, at - 1) \o <<c>> \o SubSeq(q, at, Len(q))

\* pthread_cond_signal(&callout_cnd).
Woken(p) == CASE p = "wait" -> "woken" [] p = "sleep" -> "signalled" [] OTHER -> p

-----------------------------------------------------------------------------
(* The callout thread.                                                     *)

\* From the dispatch comment on: drop callout_mtx and call the handler.
Dispatch(q, fl, c) ==
  /\ flags' = [fl EXCEPT ![c] = @ \ {"PENDING"}]
  /\ pc' = "handler" /\ cur' = c
  /\ queue' = q /\ UNCHANGED wake

Sleep(q, fl, c) == /\ pc' = "sleep" /\ cur' = c /\ wake' = timeout[c]
                   /\ queue' = q /\ flags' = fl

\* The top of the loop, callout_mtx held: wait for work, or serve the head of
\* the queue.  A pending "work" only sends it round the loop once.
Scan(q, fl) ==
  \/ /\ q = <<>>
     /\ pc' = "wait" /\ cur' = None
     /\ queue' = q /\ flags' = fl /\ UNCHANGED <<work, wake>>
  \/ /\ q # <<>>
     /\ work' = FALSE
     /\ IF now >= timeout[Head(q)] THEN Dispatch(q, fl, Head(q)) ELSE Sleep(q, fl, Head(q))

others == <<timeout, now, signalling, draining, armed>>

\* The thread starts, or pthread_cond_wait returns.
ThreadWoken == pc = "woken" /\ Scan(queue, flags) /\ UNCHANGED others

\* pthread_cond_timedwait_relative_np gives up.
SleepTimeout ==
  /\ pc = "sleep" /\ now >= wake
  /\ pc' = "timedout"
  /\ UNCHANGED <<queue, flags, work, cur, wake, others>>

\* It has callout_mtx again after a timeout.
ResumeTimedout ==
  /\ pc = "timedout"
  /\ IF Queued(cur) THEN work' = FALSE /\ Dispatch(queue, flags, cur)
     ELSE Scan(queue, flags)
  /\ UNCHANGED others

\* It has callout_mtx again after a signal: on to the nearest callout when
\* there is work, else go on waiting for this one.
ResumeSignalled ==
  /\ pc = "signalled"
  /\ \/ work /\ Scan(queue, flags)
     \/ /\ ~work /\ now >= timeout[cur]
        /\ IF Queued(cur) THEN Dispatch(queue, flags, cur) /\ UNCHANGED work
           ELSE Scan(queue, flags)
     \/ /\ ~work /\ now < timeout[cur]
        /\ Sleep(queue, flags, cur) /\ UNCHANGED work
  /\ UNCHANGED others

\* c->timeout of a relative reset.
Deadline(c, d) == now + d

\* callout_reset_sbt under callout_mtx: c is armed d from now.
Rearm(c, d) ==
  LET to == [timeout EXCEPT ![c] = Deadline(c, d)]
      q == callout_insert(callout_remove(queue, c), to, c)
  IN /\ timeout' = to
     /\ queue' = q
     /\ flags' = [flags EXCEPT ![c] = {"PENDING", "ACTIVE"}]
     /\ work' = (work \/ Head(q) = c)
     /\ armed' = armed \cup {c}

\* Nobody holds the lock of the device that owns c.
Unlocked(c) == \A u \in Callers : signalling[u] # c

\* What makes a handler return at once: "callout was reset", "callout was
\* stopped".
Stale_ResetOnly(c) == "PENDING" \in flags[c]
Stale(c) == "PENDING" \in flags[c] \/ "ACTIVE" \notin flags[c]

\* A handler, device lock held: nothing if the callout was reset or stopped,
\* else callout_deactivate, fire and perhaps reset.
Handler ==
  /\ pc = "handler" /\ Unlocked(cur)
  /\ \/ /\ Stale(cur) /\ pc' = "return"
        /\ UNCHANGED <<queue, timeout, flags, work, armed>>
     \/ /\ ~Stale(cur) /\ pc' = "fired"
        /\ flags' = [flags EXCEPT ![cur] = @ \ {"ACTIVE"}]
        /\ armed' = armed \ {cur}
        /\ UNCHANGED <<queue, timeout, work>>
     \/ /\ ~Stale(cur) /\ pc' = "fired"
        /\ \E d \in Delays : now + d <= MaxTime /\ Rearm(cur, d)
  /\ UNCHANGED <<now, cur, wake, signalling, draining>>

\* A callout whose handler returned leaves the queue unless it was reset.
Finished_NotReset(c) == TRUE
Finished(c) == "PENDING" \notin flags[c] \/ "WAITING" \in flags[c]

\* The handler returned; callout_mtx is taken again and the loop goes on.
HandlerReturned ==
  /\ pc \in {"fired", "return"}
  /\ IF Queued(cur) /\ Finished(cur)
       THEN Scan(callout_remove(queue, cur), [flags EXCEPT ![cur] = @ \cup {"COMPLETED"}])
       ELSE Scan(queue, flags)
  /\ UNCHANGED others

-----------------------------------------------------------------------------
(* The callers.                                                            *)

Idle(u) == signalling[u] = None /\ draining[u] = None

\* Whether callout_reset has to wake the thread.
NeedsSignal_Never(c) == FALSE
NeedsSignal(c) == Head(queue') = c

callout_reset_sbt(u, c, d) ==
  /\ Idle(u) /\ Unlocked(c) /\ now + d <= MaxTime
  /\ \A v \in Callers : draining[v] # c
  /\ Rearm(c, d)
  /\ signalling' = [signalling EXCEPT ![u] = IF NeedsSignal(c) THEN c ELSE None]
  /\ UNCHANGED <<now, pc, cur, wake, draining>>

\* The pthread_cond_signal at the end of callout_reset_sbt.
ResetSignal(u) ==
  /\ signalling[u] # None
  /\ signalling' = [signalling EXCEPT ![u] = None]
  /\ pc' = Woken(pc)
  /\ UNCHANGED <<queue, timeout, flags, work, now, cur, wake, draining, armed>>

\* callout_stop_safe_locked from callout_remove on.
callout_stop(u, c) ==
  /\ Idle(u) /\ Unlocked(c)
  /\ \A v \in Callers : draining[v] # c
  /\ queue' = callout_remove(queue, c)
  /\ flags' = [flags EXCEPT ![c] = {}]
  /\ armed' = armed \ {c}
  /\ UNCHANGED <<timeout, work, now, pc, cur, wake, signalling, draining>>

\* callout_drain of a callout that is pending or whose handler has not
\* finished: set CALLOUT_WAITING, wake the thread, wait on c->wait.
Undone(c) == \/ "PENDING" \in flags[c]
             \/ "ACTIVE" \in flags[c] /\ "COMPLETED" \notin flags[c]
callout_drain(u, c) ==
  /\ Idle(u)
  /\ \A v \in Callers : draining[v] # c
  /\ Undone(c)
  /\ flags' = [flags EXCEPT ![c] = @ \cup {"WAITING"}]
  /\ work' = TRUE
  /\ pc' = Woken(pc)
  /\ draining' = [draining EXCEPT ![u] = c]
  /\ UNCHANGED <<queue, timeout, now, cur, wake, signalling, armed>>

\* callout_drain of a callout that is done: as callout_stop.
DrainDone(u, c) ==
  /\ Idle(u) /\ ~Undone(c)
  /\ \A v \in Callers : draining[v] # c
  /\ queue' = callout_remove(queue, c)
  /\ flags' = [flags EXCEPT ![c] = {}]
  /\ armed' = armed \ {c}
  /\ UNCHANGED <<timeout, work, now, pc, cur, wake, signalling, draining>>

\* pthread_cond_wait(&c->wait) returns; nothing in the code signals it, so
\* only a spurious wakeup does.
SpuriousWakeup(u) ==
  LET c == draining[u] IN
  /\ c # None /\ "COMPLETED" \in flags[c]
  /\ queue' = callout_remove(queue, c)
  /\ flags' = [flags EXCEPT ![c] = {}]
  /\ armed' = armed \ {c}
  /\ draining' = [draining EXCEPT ![u] = None]
  /\ UNCHANGED <<timeout, work, now, pc, cur, wake, signalling>>

Tick == /\ now < MaxTime
        /\ now' = now + 1
        /\ UNCHANGED <<queue, timeout, flags, work, pc, cur, wake, signalling, draining, armed>>

-----------------------------------------------------------------------------
ThreadStep == \/ ThreadWoken \/ SleepTimeout \/ ResumeTimedout \/ ResumeSignalled
              \/ Handler \/ HandlerReturned
CallerStep(u) == \/ \E c \in Callouts, d \in Delays : callout_reset_sbt(u, c, d)
                 \/ ResetSignal(u)
                 \/ \E c \in Callouts : callout_stop(u, c) \/ callout_drain(u, c) \/ DrainDone(u, c)
                 \/ SpuriousWakeup(u)
Next == ThreadStep \/ Tick \/ \E u \in Callers : CallerStep(u)
Spec == Init /\ [][Next]_vars

\* The thread runs when it can, time passes, and a caller that has released
\* callout_mtx goes on to its signal.  Nothing forces a spurious wakeup, or
\* any call.  Handler waits for a device lock others take again and again.
FairSpec == /\ Spec /\ WF_vars(Tick) /\ SF_vars(Handler)
            /\ WF_vars(ThreadWoken) /\ WF_vars(SleepTimeout) /\ WF_vars(ResumeTimedout)
            /\ WF_vars(ResumeSignalled) /\ WF_vars(HandlerReturned)
            /\ \A u \in Callers : WF_vars(ResetSignal(u))

-----------------------------------------------------------------------------
(* Properties.                                                             *)

\* The types of the variables.
TypeOK ==
  /\ queue \in Seq(Callouts) /\ timeout \in [Callouts -> 0..MaxTime]
  /\ flags \in [Callouts -> SUBSET Flags] /\ work \in BOOLEAN /\ now \in 0..MaxTime
  /\ pc \in {"woken", "wait", "sleep", "timedout", "signalled", "handler", "fired", "return"}
  /\ cur \in Callouts \cup {None} /\ wake \in 0..MaxTime
  /\ signalling \in [Callers -> Callouts \cup {None}]
  /\ draining \in [Callers -> Callouts \cup {None}]
  /\ armed \subseteq Callouts

\* callout_queue holds each callout once, nearest timeout first, although
\* callout_reset_sbt stores the new timeout while the callout is still linked.
QueueSorted == \A i, j \in DOMAIN queue :
                 i < j => queue[i] # queue[j] /\ timeout[queue[i]] <= timeout[queue[j]]

\* The abort() at the top of the thread's loop is never reached: a callout
\* on the queue is pending, unless the thread is in its handler, and a pending
\* one is on the queue, unless callout_drain waits for it.
QueuedPending == \A c \in Callouts :
                   /\ Queued(c) => "PENDING" \in flags[c] \/ (pc \in {"handler", "fired", "return"} /\ cur = c)
                   /\ "PENDING" \in flags[c] => Queued(c) \/ "WAITING" \in flags[c]

\* No reset is lost: an armed callout is on the queue, whatever the thread was
\* doing with it when it was reset, unless callout_drain takes it off.
ArmedQueued == \A c \in armed : Queued(c) \/ \E u \in Callers : draining[u] = c

\* The thread never waits for work while there is some: the signal of
\* callout_reset_sbt, sent without callout_mtx, is not lost.
NoLostWakeup == pc = "wait" => queue = <<>> \/ \E u \in Callers : signalling[u] # None

\* What the service keeps, whatever its callers do between its steps.
QueueSound == TypeOK /\ QueueSorted /\ QueuedPending /\ ArmedQueued /\ NoLostWakeup

\* The inductive invariant behind QueueSound: the thread has a callout at hand
\* once it has seen one, CALLOUT_WAITING is set for a callout only while someone
\* drains it, an armed callout is an active one, and a callout that was armed
\* again during its handler is pending when the handler is done.
CurInv == pc \notin {"woken", "wait"} => cur \in Callouts
WaitInv == \A c \in Callouts : "WAITING" \in flags[c] => \E u \in Callers : draining[u] = c
ActiveInv == \A c \in Callouts : c \in armed <=> "ACTIVE" \in flags[c]
HandledInv == pc \in {"fired", "return"} /\ cur \in armed => "PENDING" \in flags[cur]
CalloutInv == QueueSound /\ CurInv /\ WaitInv /\ ActiveInv /\ HandledInv

\* A handler fires only for a callout that was reset and neither stopped nor
\* fired since, so callout_stop under the device lock silences the callout
\* even when its handler is already on its way.
FiresOnlyArmed == [][pc = "handler" /\ pc' = "fired" => cur \in armed]_vars

\* Every callout that is due is eventually handled, or stopped or reset: the
\* thread never sleeps for ever on a callout that is no longer the nearest.
DueServed == \A c \in Callouts :
  Queued(c) /\ now >= timeout[c] ~> (~Queued(c) \/ now < timeout[c] \/ (pc = "handler" /\ cur = c))
=============================================================================
