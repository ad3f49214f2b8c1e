------------------------------- MODULE Mevent -------------------------------
(***************************************************************************)
(* The event loop of the main thread (mevent.c): other threads queue       *)
(* changes of an event on the change list and write a byte to a pipe; the  *)
(* loop turns the list into kqueue changes, applies them, waits, and calls *)
(* the handlers of what was reported.                                      *)
(***************************************************************************)
EXTENDS Integers, FiniteSets

CONSTANTS
  Events,       \* descriptor and type of each event
  MEVENT_MAX    \* how many bytes of the pipe one read takes

VARIABLES
  mev,      \* mev[e]: the list e is on ("none" when it has no struct mevent)
            \* and me_state
  kq,       \* kq[e]: "none", or registered and "on" or "off"
  pipe,     \* bytes written to the pipe and not read
  loop      \* where mevent_dispatch is, with the changes built and the
            \* reported events it has not handled

meventVars == <<mev, kq, pipe, loop>>

Changed == {e \in Events : mev[e].list = "change"}

\* The state after mevent_dispatch has processed the events added before it.
MeventInit(added) ==
  /\ mev = [e \in Events |-> [list |-> IF e \in added THEN "global" ELSE "none", state |-> "ADD"]]
  /\ kq = [e \in Events |-> IF e \in added THEN "on" ELSE "none"]
  /\ pipe = 0
  /\ loop = [pc |-> "wait", changes |-> [e \in {} |-> "ADD"], reported |-> {}]

\* Faulty variant: the loop is not woken.
Notified_Never(p, self) == p

\* mevent_notify, called when an event moves to the change list: the loop
\* itself writes nothing.
Notified(p, self) == IF self = "loop" THEN p ELSE p + 1

\* The event is refused (NULL) while any list holds one for the descriptor.
mevent_add(e, self) ==
  IF mev[e].list # "none" THEN UNCHANGED <<mev, pipe>>
  ELSE /\ mev' = [mev EXCEPT ![e] = [list |-> "change", state |-> "ADD"]]
       /\ pipe' = Notified(pipe, self)

mevent_update(e, state, self) ==
  IF mev[e].state \in {"DEL_PENDING", state} THEN UNCHANGED <<mev, pipe>>
  ELSE /\ mev' = [mev EXCEPT ![e] = [list |-> "change", state |-> state]]
       /\ pipe' = IF mev[e].list = "change" THEN pipe ELSE Notified(pipe, self)

mevent_delete(e, self) ==
  /\ mev' = [mev EXCEPT ![e] = [list |-> "change", state |-> "DEL_PENDING"]]
  /\ pipe' = IF mev[e].list = "change" THEN pipe ELSE Notified(pipe, self)

mevent_build ==
  /\ loop.pc = "build"
  /\ loop' = [loop EXCEPT !.pc = IF Changed = {} THEN "wait" ELSE "apply",
                          !.changes = [e \in Changed |-> mev[e].state]]
  /\ mev' = [e \in Events |->
               IF e \notin Changed THEN mev[e]
               ELSE [mev[e] EXCEPT !.list = IF @ = "change" /\ mev[e].state = "DEL_PENDING"
                                            THEN "none" ELSE "global"]]
  /\ UNCHANGED <<kq, pipe>>

\* kevent with a change list; enabling, disabling or deleting what is not
\* registered is an error the loop only reports.
mevent_kq_flags(now, state) ==
  CASE state = "ADD" -> "on"
    [] state = "ENABLE" -> IF now = "none" THEN now ELSE "on"
    [] state = "DISABLE" -> IF now = "none" THEN now ELSE "off"
    [] state = "DEL_PENDING" -> "none"

KqChange ==
  /\ loop.pc = "apply"
  /\ kq' = [e \in Events |-> IF e \in DOMAIN loop.changes
                             THEN mevent_kq_flags(kq[e], loop.changes[e]) ELSE kq[e]]
  /\ loop' = [loop EXCEPT !.pc = "wait", !.changes = [e \in {} |-> "ADD"]]
  /\ UNCHANGED <<mev, pipe>>

\* The blocking kevent returns every ready event; ready is a predicate on
\* the sources of the events.
KqReady(ready) == {e \in ready : kq[e] = "on"}

KqWait(ready) ==
  /\ loop.pc = "wait" /\ (pipe > 0 \/ KqReady(ready) # {})
  /\ loop' = [loop EXCEPT !.pc = "handle",
                          !.reported = KqReady(ready) \cup (IF pipe > 0 THEN {"pipe"} ELSE {})]
  /\ UNCHANGED <<mev, kq, pipe>>

\* mevent_handle: the next handler is chosen by the kernel's order.
Handling(e) == loop.pc = "handle" /\ e \in loop.reported
Handled(e) ==
  loop' = [loop EXCEPT !.reported = @ \ {e}, !.pc = IF loop.reported = {e} THEN "build" ELSE @]

\* The read loop goes round again after a full buffer, and would then block:
\* the descriptor is a blocking one.
mevent_pipe_read ==
  /\ Handling("pipe") /\ pipe % MEVENT_MAX # 0
  /\ pipe' = 0 /\ Handled("pipe")
  /\ UNCHANGED <<mev, kq>>

\* The loop waits and nothing it has not seen is queued for it.
Settled == loop.pc = "wait" /\ pipe = 0
=============================================================================
