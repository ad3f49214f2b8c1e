----------------------------- MODULE TaskSwitch -----------------------------
(***************************************************************************)
(* Hardware task switches of a 32-bit guest, emulated by the process       *)
(* (task_switch.c): the checks of the new TSS, the busy bits in the GDT,   *)
(* the state saved in the old TSS and loaded from the new one, and the     *)
(* point from which faults belong to the new task.                         *)
(*                                                                         *)
(* A TSS is what a switch changes in it: eip, the NT flag, the link.  The  *)
(* guest is external.  It jumps only from a task that is not nested, and   *)
(* runs an instruction again whose emulation met a page fault.  Ghost      *)
(* state: pos, where each task has to go on; nest, the tasks suspended by  *)
(* calls and gates, below the one that runs.                               *)
(***************************************************************************)
EXTENDS Integers, Sequences

CONSTANT Tasks, FirstTask

ASSUME TaskAssumption == FirstTask \in Tasks

VARIABLE tsk

NoTask == "none"
\* Instructions are one long, and eips are counted modulo 2.
EipAfter(r, n) == (r + n) % 2

TaskInit ==
  tsk = [pc |-> "guest", tr |-> FirstTask, rip |-> 0, nt |-> FALSE, cs |-> FirstTask, ss |-> FirstTask,
         busy |-> [t \in Tasks |-> t = FirstTask], link |-> [t \in Tasks |-> NoTask],
         eip |-> [t \in Tasks |-> 0], flag |-> [t \in Tasks |-> FALSE],
         reason |-> "none", to |-> NoTask, good |-> TRUE, exc |-> "none", retry |-> FALSE,
         pos |-> [t \in Tasks |-> 0], nest |-> <<FirstTask>>]

\* What a helper's answer does: 0 without a fault goes on, a page fault enters
\* the guest, and any other answer than EFAULT fails the assertion.
CHKERR(s, error) ==
  IF error = "injected" THEN [s EXCEPT !.pc = "assert"]
  ELSE [s EXCEPT !.pc = "guest", !.exc = "PF"]

\* An exception about a selector: the instruction is over, or never started.
sel_exception(s, vector) == [s EXCEPT !.pc = "guest", !.exc = vector, !.retry = FALSE]

\* A descriptor is outside the limit of its table (the helper injects an
\* exception and returns 1), or its page faults.
read_tss_descriptor(s) == {CHKERR(s, "PF")} \cup (IF s.good THEN {} ELSE {CHKERR(s, "injected")})

Copy_setup(s) == {CHKERR(s, "PF")}

\* The new TSS: wrong type, absent or too short, or in the wrong busy state.
VerifyTss(s) ==
  IF ~ s.good THEN {sel_exception(s, "TS"), sel_exception(s, "NP")}
  ELSE IF (s.reason = "IRET") # s.busy[s.to] THEN {sel_exception(s, IF s.reason = "IRET" THEN "TS" ELSE "GP")}
  ELSE {}

ClearBusy(s) == IF s.reason \in {"IRET", "JMP"} THEN [s EXCEPT !.busy[s.tr] = FALSE] ELSE s
SetBusy(s) == IF s.reason # "IRET" THEN [s EXCEPT !.busy[s.to] = TRUE] ELSE s

\* An event has no instruction to skip.
InstLength(s) == IF s.reason = "IDT_GATE" THEN 0 ELSE 1

\* Faulty variant: a task left with IRET is saved with NT still set.
tss32_save_KeepsNT(s) == [s EXCEPT !.eip[s.tr] = EipAfter(s.rip, InstLength(s)), !.flag[s.tr] = s.nt]

tss32_save(s) ==
  [s EXCEPT !.eip[s.tr] = EipAfter(s.rip, InstLength(s)), !.flag[s.tr] = s.nt /\ s.reason # "IRET"]

\* TR and rip: from here on faults belong to the new task.
Commit(s) ==
  [s EXCEPT !.tr = s.to, !.rip = s.eip[s.to], !.retry = FALSE,
            !.pos[s.tr] = EipAfter(@, InstLength(s)),
            !.nest = CASE s.reason = "IRET" -> SubSeq(@, 1, Len(@) - 1)
                       [] s.reason = "JMP"  -> [@ EXCEPT ![Len(@)] = s.to]
                       [] OTHER             -> Append(@, s.to)]

\* A segment of the new task: its selector or descriptor is wrong, or the page
\* of the descriptor faults.
validate_seg_desc(s) == {CHKERR(s, "injected"), CHKERR(s, "PF")}

\* The registers first, the link of a nested task, then the descriptors: CS and
\* SS together once both are valid.
tss32_restore(s, ot) ==
  LET nested == s.reason \notin {"IRET", "JMP"}
      t == [s EXCEPT !.nt = s.flag[s.to] \/ nested, !.link[s.to] = IF nested THEN ot ELSE @]
  IN [early |-> validate_seg_desc(t), loaded |-> [t EXCEPT !.cs = s.to, !.ss = s.to]]

push_errcode(s) == {CHKERR(s, "PF")}

\* The whole handler: every result it can have from state s.
TaskSwitched(s) ==
  LET cleared   == ClearBusy(s)
      saved     == tss32_save(cleared)
      committed == Commit(SetBusy(saved))
      restored  == tss32_restore(committed, s.tr)
  IN read_tss_descriptor(s) \cup VerifyTss(s)
       \cup (IF VerifyTss(s) # {} THEN {}
             ELSE Copy_setup(s)                                    \* either TSS, or the old descriptor's write
                  \cup (IF s.reason # "IRET" THEN Copy_setup(saved) ELSE {})
                  \cup restored.early
                  \cup validate_seg_desc(restored.loaded)
                  \cup (IF s.reason = "IDT_GATE" THEN push_errcode(restored.loaded) ELSE {})
                  \cup {[restored.loaded EXCEPT !.pc = "guest"]})

TaskSwitchExit == tsk.pc = "switch" /\ tsk' \in TaskSwitched(tsk)

-----------------------------------------------------------------------------
(* The guest.                                                              *)

TaskRuns == tsk.pc = "guest" /\ tsk.exc = "none"

TaskStep ==
  /\ TaskRuns /\ ~ tsk.retry
  /\ tsk' = [tsk EXCEPT !.rip = EipAfter(@, 1), !.pos[tsk.tr] = EipAfter(@, 1)]

\* A switch exits, to a TSS whose descriptor is good or not; one whose emulation
\* faulted is tried again.
TaskSwitchStart(reason, t, good) ==
  /\ TaskRuns
  /\ tsk.retry => reason = tsk.reason /\ t = tsk.to /\ good = tsk.good
  /\ CASE reason = "IRET" -> tsk.nt /\ t = tsk.link[tsk.tr]
       [] reason = "JMP"  -> ~ tsk.nt
       [] OTHER           -> TRUE
  /\ tsk' = [tsk EXCEPT !.pc = "switch", !.reason = reason, !.to = t, !.good = good, !.retry = TRUE]

\* The guest's handler returns, which loads CS and SS from their selectors.
TaskFaultHandled ==
  /\ tsk.pc = "guest" /\ tsk.exc # "none"
  /\ tsk' = [tsk EXCEPT !.exc = "none", !.cs = tsk.tr, !.ss = tsk.tr]

TaskNext ==
  \/ TaskSwitchExit \/ TaskStep \/ TaskFaultHandled
  \/ \E reason \in {"CALL", "JMP", "IRET", "IDT_GATE"}, t \in Tasks, good \in BOOLEAN :
       TaskSwitchStart(reason, t, good)

TaskSpec == TaskInit /\ [][TaskNext]_tsk

-----------------------------------------------------------------------------
\* Whatever switches are made and wherever their emulation faults, once the
\* guest runs again: the busy tasks are those that run or are suspended, the
\* links lead from the running task through the suspended ones, NT says whether
\* there is one, and every task goes on where it stopped.  CS and SS always
\* belong to the same task, as the checks of a VM entry demand.
TaskChain ==
  /\ tsk.cs = tsk.ss
  /\ TaskRuns /\ ~ tsk.retry =>
       LET n == Len(tsk.nest)
       IN /\ tsk.tr = tsk.nest[n] /\ tsk.nt = (n > 1)
          /\ \A t \in Tasks : tsk.busy[t] = (\E i \in 1 .. n : tsk.nest[i] = t)
          /\ \A i \in 2 .. n : tsk.link[tsk.nest[i]] = tsk.nest[i - 1] /\ tsk.flag[tsk.nest[i - 1]] = (i > 2)
          /\ tsk.rip = tsk.pos[tsk.tr]
          /\ \A t \in Tasks \ {tsk.tr} : tsk.eip[t] = tsk.pos[t]
=============================================================================
