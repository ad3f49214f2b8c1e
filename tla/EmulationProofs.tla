-------------------------- MODULE EmulationProofs --------------------------
(***************************************************************************)
(* Proofs about two parts of Cpu that the hypervisor emulates.             *)
(*                                                                         *)
(* TaskSwitch: the links, the busy bits and the saved state describe the   *)
(* tasks that are suspended.  TasksInv adds what holds of a switch that    *)
(* faulted and is to be made again.                                        *)
(*                                                                         *)
(* PageWalk: a walk overwrites no change, starts again a bounded number of *)
(* times, and undisturbed does what the processor would.  PwInv counts the *)
(* restarts still to come, and says what is marked at each level.          *)
(***************************************************************************)
EXTENDS TaskSwitch, PageWalk, TLAPS

-----------------------------------------------------------------------------
(* Task switches.                                                          *)

\* The fields of the record and their types.
TaskFields(D) ==
  /\ "pc" \in D /\ "tr" \in D /\ "rip" \in D /\ "nt" \in D /\ "cs" \in D /\ "ss" \in D
  /\ "busy" \in D /\ "link" \in D /\ "eip" \in D /\ "flag" \in D
  /\ "reason" \in D /\ "to" \in D /\ "good" \in D /\ "exc" \in D /\ "retry" \in D
  /\ "pos" \in D /\ "nest" \in D
TaskShape(s) == TaskFields(DOMAIN s)
TaskTypes(s) ==
  /\ TaskShape(s)
  /\ s.tr \in Tasks /\ s.nt \in BOOLEAN /\ s.good \in BOOLEAN /\ s.retry \in BOOLEAN
  /\ s.busy \in [Tasks -> BOOLEAN] /\ s.flag \in [Tasks -> BOOLEAN]
  /\ s.link \in [Tasks -> Tasks \cup {NoTask}] /\ s.eip \in [Tasks -> Int] /\ s.pos \in [Tasks -> Int]
  /\ s.nest \in Seq(Tasks) /\ s.rip \in Int

\* t runs, or is suspended by the tasks above it.
Live(s, t) == \E i \in 1 .. Len(s.nest) : s.nest[i] = t

\* What TaskChain says of a state, except for the busy bit of the running task;
\* no task is suspended twice, and a task that is not in use is not nested.
Chained(s) ==
  /\ Len(s.nest) >= 1 /\ s.tr = s.nest[Len(s.nest)] /\ (s.nt <=> Len(s.nest) > 1)
  /\ \A i, j \in 1 .. Len(s.nest) : s.nest[i] = s.nest[j] => i = j
  /\ \A t \in Tasks \ {s.tr} : s.busy[t] <=> Live(s, t)
  /\ \A t \in Tasks : ~ Live(s, t) => ~ s.flag[t]
  /\ \A i \in 2 .. Len(s.nest) : /\ s.link[s.nest[i]] = s.nest[i - 1]
                                 /\ s.flag[s.nest[i - 1]] <=> i > 2
  /\ s.rip = s.pos[s.tr]
  /\ \A t \in Tasks \ {s.tr} : s.eip[t] = s.pos[t]

\* A jump whose emulation faulted after the busy bit was cleared.  Its checks
\* have passed, and will pass again.
HalfJumped(s) == s.retry /\ s.good /\ s.reason = "JMP" /\ s.to \in Tasks \ {s.tr} /\ ~ s.busy[s.to]

\* A switch that is being emulated.
Switching(s) ==
  /\ s.retry /\ s.exc = "none" /\ s.to \in Tasks /\ s.reason \in {"CALL", "JMP", "IRET", "IDT_GATE"}
  /\ s.reason = "IRET" => s.nt /\ s.to = s.link[s.tr]
  /\ s.reason = "JMP" => ~ s.nt

TaskInv(s) ==
  /\ TaskTypes(s) /\ s.cs = s.ss
  /\ s.pc # "assert" => Chained(s) /\ (s.busy[s.tr] \/ HalfJumped(s))
  /\ s.pc = "switch" => Switching(s)
TasksInv == TaskInv(tsk)

\* TaskChain follows.
LEMMA TaskInvChain == TasksInv => TaskChain
<1> SUFFICES ASSUME TasksInv PROVE TaskChain
  OBVIOUS
<1>1. TaskTypes(tsk) /\ tsk.cs = tsk.ss
  BY DEF TasksInv, TaskInv
<1>2. ASSUME TaskRuns, ~ tsk.retry PROVE Chained(tsk) /\ tsk.busy[tsk.tr]
  BY <1>2 DEF TasksInv, TaskInv, TaskRuns, HalfJumped
<1>3. ASSUME TaskRuns, ~ tsk.retry
      PROVE  /\ tsk.tr = tsk.nest[Len(tsk.nest)] /\ tsk.nt = (Len(tsk.nest) > 1)
             /\ tsk.rip = tsk.pos[tsk.tr] /\ \A t \in Tasks \ {tsk.tr} : tsk.eip[t] = tsk.pos[t]
  BY <1>1, <1>2, <1>3 DEF Chained, TaskTypes
<1>4. ASSUME TaskRuns, ~ tsk.retry, NEW t \in Tasks
      PROVE  tsk.busy[t] = (\E i \in 1 .. Len(tsk.nest) : tsk.nest[i] = t)
  <2>1. tsk.busy[t] <=> Live(tsk, t)
    <3>1. Len(tsk.nest) \in Nat
      BY <1>1 DEF TaskTypes
    <3>2. Live(tsk, tsk.tr)
      BY <1>2, <1>4, <3>1 DEF Live, Chained
    <3> QED BY <1>2, <1>4, <3>2 DEF Chained
  <2>2. tsk.busy[t] \in BOOLEAN
    BY <1>1 DEF TaskTypes
  <2> QED BY <2>1, <2>2, Zenon DEF Live
<1>5. ASSUME TaskRuns, ~ tsk.retry, NEW i \in 2 .. Len(tsk.nest)
      PROVE  /\ tsk.link[tsk.nest[i]] = tsk.nest[i - 1]
             /\ tsk.flag[tsk.nest[i - 1]] = (i > 2)
  <2>1. Len(tsk.nest) \in Nat /\ i - 1 \in 1 .. Len(tsk.nest) /\ tsk.nest[i - 1] \in Tasks
    BY <1>1 DEF TaskTypes
  <2>2. tsk.flag[tsk.nest[i - 1]] \in BOOLEAN
    BY <1>1, <2>1 DEF TaskTypes
  <2> QED BY <1>2, <1>5, <2>2 DEF Chained
<1> QED BY <1>1, <1>3, <1>4, <1>5, Zenon DEF TaskChain

\* The first task runs, and none is suspended.
LEMMA TaskInitInv == TaskInit => TasksInv
<1> SUFFICES ASSUME TaskInit PROVE TaskInv(tsk)
  BY DEF TasksInv
<1> USE TaskAssumption DEF TaskInit
<1>1. TaskShape(tsk) /\ tsk.pc = "guest" /\ tsk.cs = tsk.ss
  BY DEF TaskShape, TaskFields
<1>2. /\ tsk.tr = FirstTask /\ tsk.rip = 0 /\ tsk.nest = <<FirstTask>>
      /\ tsk.nt = FALSE /\ tsk.good = TRUE /\ tsk.retry = FALSE
      /\ tsk.busy = [t \in Tasks |-> t = FirstTask] /\ tsk.flag = [t \in Tasks |-> FALSE]
      /\ tsk.link = [t \in Tasks |-> NoTask]
      /\ tsk.eip = [t \in Tasks |-> 0] /\ tsk.pos = [t \in Tasks |-> 0]
  OBVIOUS
<1> DEFINE s == tsk
<1> HIDE DEF TaskInit, s
<1>3. s.nest \in Seq(Tasks) /\ Len(s.nest) = 1 /\ s.nest[1] = FirstTask
  BY <1>2 DEF s
<1>4. TaskTypes(s)
  <2>1. s.busy \in [Tasks -> BOOLEAN] /\ s.flag \in [Tasks -> BOOLEAN]
    BY <1>2 DEF s
  <2>2. s.link \in [Tasks -> Tasks \cup {NoTask}] /\ s.eip \in [Tasks -> Int] /\ s.pos \in [Tasks -> Int]
    BY <1>2 DEF s
  <2>3. s.nt \in BOOLEAN /\ s.good \in BOOLEAN /\ s.retry \in BOOLEAN
    BY <1>2, Zenon DEF s
  <2>4. s.tr \in Tasks /\ s.rip \in Int
    BY <1>2 DEF s
  <2> QED BY <1>1, <1>3, <2>1, <2>2, <2>3, <2>4 DEF TaskTypes, s
<1>5. \A t : Live(s, t) <=> t = FirstTask
  BY <1>3 DEF Live
<1>6. \A t \in Tasks : (s.busy[t] <=> t = FirstTask) /\ ~ s.flag[t] /\ s.eip[t] = s.pos[t]
  BY <1>2 DEF s
<1>7. s.tr = FirstTask /\ s.rip = s.pos[s.tr] /\ ~ s.nt
  BY <1>2 DEF s
<1>8. Chained(s)
  BY <1>3, <1>5, <1>6, <1>7 DEF Chained
<1> QED BY <1>1, <1>4, <1>6, <1>7, <1>8 DEF TaskInv, s

\* A state the guest can go on from, or an exception be delivered in.
TaskSound(s) ==
  TaskTypes(s) /\ s.cs = s.ss /\ Chained(s) /\ (s.busy[s.tr] \/ HalfJumped(s))

\* The chain is a matter of these fields.
LEMMA ChainedSame ==
  ASSUME NEW s, NEW c, Chained(s),
         c.nest = s.nest, c.tr = s.tr, c.nt <=> s.nt, c.busy = s.busy, c.link = s.link,
         c.flag = s.flag, c.rip = s.rip, c.pos = s.pos, c.eip = s.eip
  PROVE  Chained(c)
<1>1. \A t : Live(c, t) <=> Live(s, t)
  BY DEF Live
<1> QED BY <1>1 DEF Chained

\* Wherever a helper of the switch answers, the guest is entered again or the
\* process ends.
LEMMA Answered ==
  ASSUME NEW s, TaskSound(s), NEW e
  PROVE  TaskInv(CHKERR(s, e)) /\ TaskInv([s EXCEPT !.pc = "guest"])
<1>1. ASSUME NEW c, TaskShape(c), c.pc \in {"guest", "assert"},
             c.nest = s.nest, c.tr = s.tr, c.nt = s.nt, c.busy = s.busy, c.link = s.link,
             c.flag = s.flag, c.rip = s.rip, c.pos = s.pos, c.eip = s.eip, c.cs = s.cs, c.ss = s.ss,
             c.good = s.good, c.retry = s.retry, c.to = s.to, c.reason = s.reason
      PROVE  TaskInv(c)
  <2>1. Chained(c)
    BY <1>1, ChainedSame DEF TaskSound
  <2>2. TaskTypes(c) /\ c.cs = c.ss
    BY <1>1 DEF TaskSound, TaskTypes
  <2>3. c.busy[c.tr] \/ HalfJumped(c)
    BY <1>1 DEF TaskSound, HalfJumped
  <2> QED BY <1>1, <2>1, <2>2, <2>3 DEF TaskInv
<1>2. TaskShape(s)
  BY DEF TaskSound, TaskTypes
<1>3. TaskInv([s EXCEPT !.pc = "guest"])
  <2> DEFINE c == [s EXCEPT !.pc = "guest"]
  <2>1. /\ TaskShape(c) /\ c.pc = "guest" /\ c.nest = s.nest /\ c.tr = s.tr /\ c.nt = s.nt
        /\ c.busy = s.busy /\ c.link = s.link /\ c.flag = s.flag /\ c.rip = s.rip /\ c.pos = s.pos
        /\ c.eip = s.eip /\ c.cs = s.cs /\ c.ss = s.ss /\ c.good = s.good /\ c.retry = s.retry
        /\ c.to = s.to /\ c.reason = s.reason
    BY <1>2, Zenon DEF TaskShape, TaskFields
  <2> HIDE DEF c
  <2>2. TaskInv(c)
    BY <1>1, <2>1
  <2> QED BY <2>2 DEF c
<1>4. TaskInv(CHKERR(s, e))
  <2> DEFINE c == CHKERR(s, e)
  <2>1. /\ TaskShape(c) /\ c.pc \in {"guest", "assert"} /\ c.nest = s.nest /\ c.tr = s.tr /\ c.nt = s.nt
        /\ c.busy = s.busy /\ c.link = s.link /\ c.flag = s.flag /\ c.rip = s.rip /\ c.pos = s.pos
        /\ c.eip = s.eip /\ c.cs = s.cs /\ c.ss = s.ss /\ c.good = s.good /\ c.retry = s.retry
        /\ c.to = s.to /\ c.reason = s.reason
    BY <1>2, Zenon DEF TaskShape, TaskFields, CHKERR
  <2> HIDE DEF c
  <2>2. TaskInv(c)
    BY <1>1, <2>1
  <2> QED BY <2>2 DEF c
<1> QED BY <1>3, <1>4

\* A selector the checks refuse: the switch is over, and a jump that is half
\* done is never refused.
LEMMA Rejected ==
  ASSUME NEW s, TaskSound(s), s.busy[s.tr], NEW v
  PROVE  TaskInv(sel_exception(s, v))
<1> DEFINE c == sel_exception(s, v)
<1>1. TaskShape(s)
  BY DEF TaskSound, TaskTypes
<1>2. /\ TaskShape(c) /\ c.pc = "guest" /\ c.nest = s.nest /\ c.tr = s.tr /\ c.nt = s.nt
      /\ c.busy = s.busy /\ c.link = s.link /\ c.flag = s.flag /\ c.rip = s.rip /\ c.pos = s.pos
      /\ c.eip = s.eip /\ c.cs = s.cs /\ c.ss = s.ss /\ c.good = s.good /\ c.retry = FALSE
      /\ c.to = s.to /\ c.reason = s.reason
  BY <1>1, Zenon DEF TaskShape, TaskFields, sel_exception
<1> HIDE DEF c
<1>3. Chained(c)
  BY <1>2, ChainedSame DEF TaskSound
<1>4. c.retry \in BOOLEAN
  BY <1>2, Zenon
<1>5. TaskTypes(c) /\ c.cs = c.ss
  BY <1>2, <1>4 DEF TaskSound, TaskTypes
<1> QED BY <1>2, <1>3, <1>5 DEF TaskInv, c

\* What saving the old task changes: its busy bit, if it is left for good, and
\* its TSS.
SavedAs(s, c) ==
  /\ TaskShape(c)
  /\ c.pc = s.pc /\ c.tr = s.tr /\ c.rip = s.rip /\ c.nt = s.nt /\ c.cs = s.cs /\ c.ss = s.ss
  /\ c.link = s.link /\ c.reason = s.reason /\ c.to = s.to /\ c.good = s.good
  /\ c.exc = s.exc /\ c.retry = s.retry /\ c.pos = s.pos /\ c.nest = s.nest
  /\ c.busy = IF s.reason \in {"IRET", "JMP"} THEN [s.busy EXCEPT ![s.tr] = FALSE] ELSE s.busy
  /\ c.eip = [s.eip EXCEPT ![s.tr] = EipAfter(s.rip, InstLength(s))]
  /\ c.flag = [s.flag EXCEPT ![s.tr] = s.nt /\ s.reason # "IRET"]

\* tss32_save after the busy bit has been cleared.
LEMMA Saved ==
  ASSUME NEW s, TaskTypes(s), NEW c, c = tss32_save(ClearBusy(s))
  PROVE  SavedAs(s, c)
<1> DEFINE d == ClearBusy(s)
<1>1. /\ TaskShape(d)
      /\ d.pc = s.pc /\ d.tr = s.tr /\ d.rip = s.rip /\ d.nt = s.nt /\ d.cs = s.cs /\ d.ss = s.ss
      /\ d.link = s.link /\ d.reason = s.reason /\ d.to = s.to /\ d.good = s.good
      /\ d.exc = s.exc /\ d.retry = s.retry /\ d.pos = s.pos /\ d.nest = s.nest
      /\ d.eip = s.eip /\ d.flag = s.flag
      /\ d.busy = IF s.reason \in {"IRET", "JMP"} THEN [s.busy EXCEPT ![s.tr] = FALSE] ELSE s.busy
  BY Zenon DEF TaskTypes, TaskShape, TaskFields, ClearBusy
<1>2. InstLength(d) = InstLength(s)
  BY <1>1 DEF InstLength
<1> HIDE DEF d
<1>3. c = [d EXCEPT !.eip = [d.eip EXCEPT ![d.tr] = EipAfter(d.rip, InstLength(d))],
                    !.flag = [d.flag EXCEPT ![d.tr] = d.nt /\ d.reason # "IRET"]]
  BY <1>1, Zenon DEF tss32_save, TaskShape, TaskFields, d
<1>4. /\ TaskShape(c)
      /\ c.pc = d.pc /\ c.tr = d.tr /\ c.rip = d.rip /\ c.nt = d.nt /\ c.cs = d.cs /\ c.ss = d.ss
      /\ c.link = d.link /\ c.reason = d.reason /\ c.to = d.to /\ c.good = d.good
      /\ c.exc = d.exc /\ c.retry = d.retry /\ c.pos = d.pos /\ c.nest = d.nest /\ c.busy = d.busy
  BY <1>1, <1>3, Zenon DEF TaskShape, TaskFields
<1>5. /\ c.eip = [d.eip EXCEPT ![d.tr] = EipAfter(d.rip, InstLength(d))]
      /\ c.flag = [d.flag EXCEPT ![d.tr] = d.nt /\ d.reason # "IRET"]
  BY <1>1, <1>3, Zenon DEF TaskShape, TaskFields
<1> QED BY <1>1, <1>2, <1>4, <1>5 DEF SavedAs

\* What the whole switch changes from s, with sv the state when the old task had
\* been saved.
LoadedAs(s, sv, c) ==
  /\ TaskShape(c)
  /\ c.tr = s.to /\ c.rip = sv.eip[s.to] /\ c.retry = FALSE /\ c.good = s.good
  /\ c.cs = c.ss \/ (c.cs = s.cs /\ c.ss = s.ss)
  /\ c.eip = sv.eip /\ c.flag = sv.flag
  /\ c.pos = [s.pos EXCEPT ![s.tr] = EipAfter(s.pos[s.tr], InstLength(s))]
  /\ c.busy = IF s.reason # "IRET" THEN [sv.busy EXCEPT ![s.to] = TRUE] ELSE sv.busy
  /\ s.reason = "IRET" => c.nest = SubSeq(s.nest, 1, Len(s.nest) - 1)
  /\ s.reason = "JMP" => c.nest = [s.nest EXCEPT ![Len(s.nest)] = s.to]
  /\ s.reason \notin {"IRET", "JMP"} => c.nest = Append(s.nest, s.to)
  /\ c.nt = (sv.flag[s.to] \/ s.reason \notin {"IRET", "JMP"})
  /\ c.link = [s.link EXCEPT ![s.to] = IF s.reason \notin {"IRET", "JMP"} THEN s.tr ELSE s.link[s.to]]

\* The states in which faults of the new task's first descriptors are delivered,
\* and in which it runs.
LEMMA Loaded ==
  ASSUME NEW s, TaskTypes(s), NEW sv, SavedAs(s, sv),
         NEW k, k = Commit(SetBusy(sv)), NEW c,
         LET nested == k.reason \notin {"IRET", "JMP"}
             t == [k EXCEPT !.nt = k.flag[k.to] \/ nested, !.link[k.to] = IF nested THEN s.tr ELSE @]
         IN c = t \/ c = [t EXCEPT !.cs = k.to, !.ss = k.to]
  PROVE  LoadedAs(s, sv, c)
<1>1. /\ TaskShape(sv)
      /\ sv.tr = s.tr /\ sv.cs = s.cs /\ sv.ss = s.ss /\ sv.link = s.link /\ sv.reason = s.reason
      /\ sv.to = s.to /\ sv.good = s.good /\ sv.pos = s.pos /\ sv.nest = s.nest
  BY DEF SavedAs
<1> DEFINE b == SetBusy(sv)
<1>2. /\ TaskShape(b)
      /\ b.tr = sv.tr /\ b.cs = sv.cs /\ b.ss = sv.ss /\ b.link = sv.link /\ b.reason = sv.reason
      /\ b.to = sv.to /\ b.good = sv.good /\ b.pos = sv.pos /\ b.nest = sv.nest
      /\ b.eip = sv.eip /\ b.flag = sv.flag
      /\ b.busy = IF sv.reason # "IRET" THEN [sv.busy EXCEPT ![sv.to] = TRUE] ELSE sv.busy
  BY <1>1, Zenon DEF TaskShape, TaskFields, SetBusy
<1>3. InstLength(b) = InstLength(s)
  BY <1>1, <1>2 DEF InstLength
<1>4. k = Commit(b)
  OBVIOUS
<1> HIDE DEF b
<1> DEFINE pos == [b.pos EXCEPT ![b.tr] = EipAfter(b.pos[b.tr], InstLength(b))]
           nest == CASE b.reason = "IRET" -> SubSeq(b.nest, 1, Len(b.nest) - 1)
                     [] b.reason = "JMP"  -> [b.nest EXCEPT ![Len(b.nest)] = b.to]
                     [] OTHER             -> Append(b.nest, b.to)
<1>5. k = [b EXCEPT !.tr = b.to, !.rip = b.eip[b.to], !.retry = FALSE, !.pos = pos, !.nest = nest]
  BY <1>2, <1>4, Zenon DEF Commit, TaskShape, TaskFields
<1>6. /\ s.reason = "IRET" => nest = SubSeq(s.nest, 1, Len(s.nest) - 1)
      /\ s.reason = "JMP" => nest = [s.nest EXCEPT ![Len(s.nest)] = s.to]
      /\ s.reason \notin {"IRET", "JMP"} => nest = Append(s.nest, s.to)
  BY <1>1, <1>2
<1> HIDE DEF nest, pos
<1>7. /\ TaskShape(k)
      /\ k.tr = b.to /\ k.rip = b.eip[b.to] /\ k.retry = FALSE /\ k.pos = pos /\ k.nest = nest
      /\ k.cs = b.cs /\ k.ss = b.ss /\ k.link = b.link /\ k.reason = b.reason /\ k.to = b.to
      /\ k.good = b.good /\ k.eip = b.eip /\ k.flag = b.flag /\ k.busy = b.busy
  <2>1. TaskShape(k)
    BY ONLY <1>2, <1>5, Zenon DEF TaskShape, TaskFields
  <2>2. k.tr = b.to /\ k.rip = b.eip[b.to] /\ k.retry = FALSE /\ k.pos = pos /\ k.nest = nest
    BY ONLY <1>2, <1>5, Zenon DEF TaskShape, TaskFields
  <2>3. /\ k.cs = b.cs /\ k.ss = b.ss /\ k.link = b.link /\ k.reason = b.reason /\ k.to = b.to
        /\ k.good = b.good
    BY ONLY <1>2, <1>5, Zenon DEF TaskShape, TaskFields
  <2>4. k.eip = b.eip /\ k.flag = b.flag /\ k.busy = b.busy
    BY ONLY <1>2, <1>5, Zenon DEF TaskShape, TaskFields
  <2> QED BY <2>1, <2>2, <2>3, <2>4
<1> DEFINE nested == k.reason \notin {"IRET", "JMP"}
           nt == k.flag[k.to] \/ nested
           link == [k.link EXCEPT ![k.to] = IF nested THEN s.tr ELSE k.link[k.to]]
           t == [k EXCEPT !.nt = nt, !.link = link]
<1>8. c = t \/ c = [t EXCEPT !.cs = k.to, !.ss = k.to]
  BY <1>7, Zenon DEF TaskShape, TaskFields
<1> HIDE DEF nt, link
<1>9. /\ TaskShape(t)
      /\ t.nt = nt /\ t.link = link
      /\ t.tr = k.tr /\ t.rip = k.rip /\ t.retry = k.retry /\ t.pos = k.pos /\ t.nest = k.nest
      /\ t.cs = k.cs /\ t.ss = k.ss /\ t.good = k.good /\ t.eip = k.eip /\ t.flag = k.flag /\ t.busy = k.busy
  BY <1>7, Zenon DEF TaskShape, TaskFields
<1> HIDE DEF t
<1>10. /\ TaskShape(c)
       /\ c.nt = t.nt /\ c.link = t.link
       /\ c.tr = t.tr /\ c.rip = t.rip /\ c.retry = t.retry /\ c.pos = t.pos /\ c.nest = t.nest
       /\ c.good = t.good /\ c.eip = t.eip /\ c.flag = t.flag /\ c.busy = t.busy
       /\ c.cs = c.ss \/ (c.cs = t.cs /\ c.ss = t.ss)
  <2>1. CASE c = t
    BY <1>9, <2>1
  <2>2. CASE c = [t EXCEPT !.cs = k.to, !.ss = k.to]
    <3>1. TaskShape(c) /\ c.cs = c.ss
      BY ONLY <1>9, <2>2, Zenon DEF TaskShape, TaskFields
    <3>2. /\ c.nt = t.nt /\ c.link = t.link
          /\ c.tr = t.tr /\ c.rip = t.rip /\ c.retry = t.retry /\ c.pos = t.pos
      BY ONLY <1>9, <2>2, Zenon DEF TaskShape, TaskFields
    <3>3. /\ c.nest = t.nest /\ c.good = t.good /\ c.eip = t.eip /\ c.flag = t.flag /\ c.busy = t.busy
      BY ONLY <1>9, <2>2, Zenon DEF TaskShape, TaskFields
    <3> QED BY <3>1, <3>2, <3>3
  <2> QED BY <1>8, <2>1, <2>2
<1>11. /\ c.nt = (sv.flag[s.to] \/ s.reason \notin {"IRET", "JMP"})
       /\ c.link = [s.link EXCEPT ![s.to] = IF s.reason \notin {"IRET", "JMP"} THEN s.tr ELSE s.link[s.to]]
  BY <1>1, <1>2, <1>7, <1>9, <1>10 DEF nt, link
<1>12. c.pos = [s.pos EXCEPT ![s.tr] = EipAfter(s.pos[s.tr], InstLength(s))]
  BY <1>1, <1>2, <1>3, <1>7, <1>9, <1>10 DEF pos
<1> QED BY <1>1, <1>2, <1>6, <1>7, <1>9, <1>10, <1>11, <1>12 DEF LoadedAs

\* The checks of the new TSS passed, so it is not the running task's, and it is
\* the suspended one's for an IRET.
LEMMA Passed ==
  ASSUME NEW s, TaskSound(s), Switching(s), (s.reason = "IRET") <=> s.busy[s.to]
  PROVE  /\ s.to # s.tr /\ Len(s.nest) \in Nat
         /\ s.reason = "IRET" => Len(s.nest) > 1 /\ s.to = s.nest[Len(s.nest) - 1]
         /\ s.reason = "JMP" => Len(s.nest) = 1
         /\ s.reason # "IRET" => ~ Live(s, s.to)
         /\ s.reason # "JMP" => s.busy[s.tr]
<1>1. Len(s.nest) \in Nat /\ Len(s.nest) >= 1 /\ s.nest \in Seq(Tasks)
  BY DEF TaskSound, TaskTypes, Chained
<1>2. CASE s.reason = "IRET"
  <2>1. Len(s.nest) > 1 /\ s.to = s.link[s.tr]
    BY <1>2 DEF Switching, TaskSound, Chained
  <2>2. s.to = s.nest[Len(s.nest) - 1] /\ s.tr = s.nest[Len(s.nest)]
    BY <1>1, <2>1 DEF TaskSound, Chained
  <2>3. s.to # s.tr
    <3>1. Len(s.nest) - 1 \in 1 .. Len(s.nest) /\ Len(s.nest) \in 1 .. Len(s.nest)
      BY <1>1, <2>1
    <3>2. Len(s.nest) - 1 # Len(s.nest)
      BY <1>1
    <3> QED BY <2>2, <3>1, <3>2 DEF TaskSound, Chained
  <2> QED BY <1>1, <1>2, <2>1, <2>2, <2>3 DEF TaskSound, HalfJumped
<1>3. CASE s.reason # "IRET"
  <2>1. ~ s.busy[s.to] /\ s.to \in Tasks
    BY <1>3 DEF Switching
  <2>2. s.to # s.tr
    BY <2>1 DEF TaskSound, HalfJumped
  <2>3. ~ Live(s, s.to)
    BY <2>1, <2>2 DEF TaskSound, Chained
  <2>4. s.reason = "JMP" => Len(s.nest) = 1
    <3>1. s.reason = "JMP" => ~ (Len(s.nest) > 1)
      BY DEF Switching, TaskSound, Chained
    <3>2. \A m \in Nat : m >= 1 /\ ~ (m > 1) => m = 1
      OBVIOUS
    <3> QED BY <1>1, <3>1, <3>2, Zenon
  <2> QED BY <1>1, <1>3, <2>2, <2>3, <2>4 DEF TaskSound, HalfJumped
<1> QED BY <1>2, <1>3

\* A fault between the save and the commit: the old task can go on, or switch again.
LEMMA SavedSound ==
  ASSUME NEW s, TaskSound(s), Switching(s), s.good, s.reason # "IRET", ~ s.busy[s.to],
         NEW c, SavedAs(s, c)
  PROVE  TaskSound(c)
<1>1. /\ s.to # s.tr /\ s.to \in Tasks /\ s.tr \in Tasks
      /\ Len(s.nest) \in Nat /\ s.nest \in Seq(Tasks) /\ TaskTypes(s) /\ Chained(s)
  BY Passed, Zenon DEF TaskSound, TaskTypes, Switching
<1>2. EipAfter(s.rip, InstLength(s)) \in Int
  BY <1>1 DEF EipAfter, InstLength, TaskTypes
<1>3. TaskTypes(c)
  <2>1. c.busy \in [Tasks -> BOOLEAN]
    BY <1>1 DEF SavedAs, TaskTypes
  <2>2. c.flag \in [Tasks -> BOOLEAN]
    BY <1>1 DEF SavedAs, TaskTypes
  <2>3. c.eip \in [Tasks -> Int]
    BY <1>1, <1>2 DEF SavedAs, TaskTypes
  <2> QED BY <1>1, <2>1, <2>2, <2>3 DEF SavedAs, TaskTypes
<1>4. /\ \A t \in Tasks \ {s.tr} : /\ c.busy[t] <=> s.busy[t]
                                   /\ c.flag[t] <=> s.flag[t]
                                   /\ c.eip[t] = s.eip[t]
      /\ s.reason # "JMP" => c.busy = s.busy
  BY <1>1 DEF SavedAs, TaskTypes
<1>5. /\ c.nest = s.nest /\ c.tr = s.tr /\ c.nt = s.nt /\ c.link = s.link /\ c.rip = s.rip /\ c.pos = s.pos
      /\ c.cs = s.cs /\ c.ss = s.ss /\ c.retry = s.retry /\ c.good = s.good /\ c.reason = s.reason
      /\ c.to = s.to
  BY DEF SavedAs
<1>6. Live(s, s.tr) /\ \A t : Live(c, t) <=> Live(s, t)
  BY <1>1, <1>5 DEF Live, Chained
<1>7. \A i \in 2 .. Len(s.nest) : s.nest[i - 1] \in Tasks \ {s.tr}
  <2> TAKE i \in 2 .. Len(s.nest)
  <2>1. /\ i - 1 \in 1 .. Len(s.nest) /\ Len(s.nest) \in 1 .. Len(s.nest) /\ i - 1 # Len(s.nest)
        /\ s.nest[i - 1] \in Tasks
    BY <1>1
  <2> QED BY <1>1, <2>1 DEF Chained
<1>8. Chained(c)
  <2>1. /\ Len(c.nest) >= 1 /\ c.tr = c.nest[Len(c.nest)] /\ (c.nt <=> Len(c.nest) > 1)
        /\ \A i, j \in 1 .. Len(c.nest) : c.nest[i] = c.nest[j] => i = j
        /\ c.rip = c.pos[c.tr]
    BY <1>1, <1>5 DEF Chained
  <2>2. /\ \A t \in Tasks \ {c.tr} : c.busy[t] <=> Live(c, t)
        /\ \A t \in Tasks : ~ Live(c, t) => ~ c.flag[t]
        /\ \A t \in Tasks \ {c.tr} : c.eip[t] = c.pos[t]
    BY <1>1, <1>4, <1>5, <1>6 DEF Chained
  <2>3. \A i \in 2 .. Len(c.nest) : /\ c.link[c.nest[i]] = c.nest[i - 1]
                                    /\ c.flag[c.nest[i - 1]] <=> i > 2
    BY <1>1, <1>4, <1>5, <1>7 DEF Chained
  <2> QED BY <2>1, <2>2, <2>3 DEF Chained
<1>9. c.busy[c.tr] \/ HalfJumped(c)
  <2>1. CASE s.reason = "JMP"
    BY <1>1, <1>4, <1>5, <2>1 DEF HalfJumped, Switching
  <2>2. CASE s.reason # "JMP"
    BY <1>4, <1>5, <2>2, Passed
  <2> QED BY <2>1, <2>2
<1> QED BY <1>3, <1>5, <1>8, <1>9 DEF TaskSound

\* The new task runs, and the old one is suspended or no longer in use.
LEMMA LoadedSound ==
  ASSUME NEW s, TaskSound(s), Switching(s), (s.reason = "IRET") <=> s.busy[s.to],
         NEW sv, SavedAs(s, sv), NEW c, LoadedAs(s, sv, c)
  PROVE  TaskSound(c)
<1> DEFINE n == Len(s.nest)
           r == s.reason
<1>1. /\ s.to # s.tr /\ s.to \in Tasks /\ s.tr \in Tasks /\ n \in Nat /\ n >= 1
      /\ s.nest \in Seq(Tasks) /\ TaskTypes(s) /\ Chained(s)
      /\ r = "IRET" => n > 1 /\ s.to = s.nest[n - 1]
      /\ r = "JMP" => n = 1
      /\ r # "IRET" => ~ Live(s, s.to)
      /\ r # "JMP" => s.busy[s.tr]
  BY Passed, Zenon DEF TaskSound, TaskTypes, Switching, Chained
<1>2. EipAfter(s.rip, InstLength(s)) \in Int /\ s.rip = s.pos[s.tr]
  BY <1>1 DEF EipAfter, InstLength, TaskTypes, Chained
<1>3. /\ \A t \in Tasks : c.eip[t] = IF t = s.tr THEN EipAfter(s.rip, InstLength(s)) ELSE s.eip[t]
      /\ \A t \in Tasks : c.pos[t] = IF t = s.tr THEN EipAfter(s.rip, InstLength(s)) ELSE s.pos[t]
      /\ c.eip \in [Tasks -> Int] /\ c.pos \in [Tasks -> Int]
      /\ c.rip = s.eip[s.to] /\ c.rip \in Int /\ c.tr = s.to
  BY <1>1, <1>2 DEF SavedAs, LoadedAs, TaskTypes
<1>4. /\ \A t \in Tasks : c.flag[t] <=> IF t = s.tr THEN s.nt /\ r # "IRET" ELSE s.flag[t]
      /\ c.flag \in [Tasks -> BOOLEAN]
      /\ c.nt <=> s.flag[s.to] \/ r \notin {"IRET", "JMP"}
      /\ c.nt \in BOOLEAN
  <2> DEFINE b == s.nt /\ r # "IRET"
  <2>1. c.flag = [s.flag EXCEPT ![s.tr] = b] /\ s.flag \in [Tasks -> BOOLEAN] /\ b \in BOOLEAN
    BY <1>1, Zenon DEF SavedAs, LoadedAs, TaskTypes
  <2>2. c.nt = (c.flag[s.to] \/ r \notin {"IRET", "JMP"})
    BY Zenon DEF LoadedAs
  <2> HIDE DEF b, r
  <2>3. c.flag \in [Tasks -> BOOLEAN] /\ c.flag[s.tr] = b /\ \A t \in Tasks : t # s.tr => c.flag[t] = s.flag[t]
    BY <1>1, <2>1
  <2>4. c.flag[s.to] = s.flag[s.to]
    BY <1>1, <2>3
  <2>5. c.nt \in BOOLEAN /\ (c.nt <=> s.flag[s.to] \/ r \notin {"IRET", "JMP"})
    BY <2>2, <2>4, Zenon
  <2>6. c.flag[s.tr] <=> s.nt /\ r # "IRET"
    BY <2>3, Zenon DEF b
  <2> QED BY <2>3, <2>5, <2>6
<1>5. /\ \A t \in Tasks : c.busy[t] <=> (IF t = s.to THEN r # "IRET" \/ s.busy[t]
                                         ELSE IF t = s.tr THEN r \notin {"IRET", "JMP"} /\ s.busy[t] ELSE s.busy[t])
      /\ c.busy \in [Tasks -> BOOLEAN]
  <2> DEFINE u == sv.busy
  <2>1. /\ u = IF r \in {"IRET", "JMP"} THEN [s.busy EXCEPT ![s.tr] = FALSE] ELSE s.busy
        /\ c.busy = IF r # "IRET" THEN [u EXCEPT ![s.to] = TRUE] ELSE u
        /\ s.busy \in [Tasks -> BOOLEAN]
    BY <1>1, Zenon DEF SavedAs, LoadedAs, TaskTypes
  <2> HIDE DEF u, r
  <2>2. /\ u \in [Tasks -> BOOLEAN]
        /\ \A t \in Tasks : u[t] <=> IF t = s.tr THEN r \notin {"IRET", "JMP"} /\ s.busy[t] ELSE s.busy[t]
    BY <1>1, <2>1
  <2>3. /\ c.busy \in [Tasks -> BOOLEAN]
        /\ \A t \in Tasks : c.busy[t] <=> IF t = s.to THEN r # "IRET" \/ u[t] ELSE u[t]
    <3>1. CASE r = "IRET"
      BY <2>1, <2>2, <3>1, Zenon
    <3>2. CASE r # "IRET"
      <4>1. c.busy = [u EXCEPT ![s.to] = TRUE]
        BY <2>1, <3>2, Zenon
      <4>2. c.busy \in [Tasks -> BOOLEAN] /\ \A t \in Tasks : c.busy[t] <=> (t = s.to \/ u[t])
        BY <1>1, <2>2, <4>1
      <4> QED BY <3>2, <4>2, Zenon
    <3> QED BY <3>1, <3>2
  <2> QED BY <1>1, <2>2, <2>3
<1>6. /\ \A t \in Tasks : c.link[t] = IF t = s.to /\ r \notin {"IRET", "JMP"} THEN s.tr ELSE s.link[t]
      /\ c.link \in [Tasks -> Tasks \cup {NoTask}]
  <2> DEFINE p == IF r \notin {"IRET", "JMP"} THEN s.tr ELSE s.link[s.to]
  <2>1. c.link = [s.link EXCEPT ![s.to] = p] /\ s.link \in [Tasks -> Tasks \cup {NoTask}]
    BY <1>1, Zenon DEF LoadedAs, TaskTypes
  <2>2. p \in Tasks \cup {NoTask}
    BY <1>1, <2>1
  <2> HIDE DEF p, r
  <2>3. c.link \in [Tasks -> Tasks \cup {NoTask}] /\ \A t \in Tasks : c.link[t] = IF t = s.to THEN p ELSE s.link[t]
    BY <1>1, <2>1, <2>2
  <2> QED BY <2>3 DEF p
<1>7. c.good \in BOOLEAN /\ c.retry \in BOOLEAN /\ TaskShape(c) /\ c.cs = c.ss
  BY Zenon DEF LoadedAs, TaskSound, TaskTypes
<1>8. \A t \in Tasks \ {c.tr} : c.eip[t] = c.pos[t]
  <2>1. \A t \in Tasks \ {s.tr} : s.eip[t] = s.pos[t]
    BY <1>1 DEF Chained
  <2> QED BY <1>3, <2>1
<1>9. c.rip = c.pos[c.tr]
  BY <1>1, <1>3 DEF Chained
<1>10. c.busy[c.tr]
  BY <1>1, <1>3, <1>5
<1>11. ASSUME c.nest \in Seq(Tasks), Len(c.nest) >= 1, c.nest[Len(c.nest)] = s.to,
              s.flag[s.to] \/ r \notin {"IRET", "JMP"} <=> Len(c.nest) > 1,
              \A i, j \in 1 .. Len(c.nest) : c.nest[i] = c.nest[j] => i = j,
              \A t \in Tasks \ {s.to} : c.busy[t] <=> Live(c, t),
              \A t \in Tasks : ~ Live(c, t) => ~ c.flag[t],
              \A i \in 2 .. Len(c.nest) : /\ c.link[c.nest[i]] = c.nest[i - 1]
                                          /\ c.flag[c.nest[i - 1]] <=> i > 2
       PROVE  TaskSound(c)
  <2>1. TaskTypes(c)
    BY <1>1, <1>3, <1>4, <1>5, <1>6, <1>7, <1>11, Zenon DEF TaskTypes
  <2>2. Chained(c)
    BY <1>3, <1>4, <1>8, <1>9, <1>11 DEF Chained
  <2> QED BY <1>7, <1>10, <2>1, <2>2 DEF TaskSound
<1>12. \A i \in 1 .. n : s.nest[i] \in Tasks
  BY <1>1
<1>13. \A t : Live(s, t) <=> \E i \in 1 .. n : s.nest[i] = t
  BY DEF Live
<1>14. /\ \A i, j \in 1 .. n : s.nest[i] = s.nest[j] => i = j
       /\ s.tr = s.nest[n] /\ (s.nt <=> n > 1)
       /\ \A t \in Tasks \ {s.tr} : s.busy[t] <=> Live(s, t)
       /\ \A t \in Tasks : ~ Live(s, t) => ~ s.flag[t]
       /\ \A i \in 2 .. n : s.link[s.nest[i]] = s.nest[i - 1] /\ (s.flag[s.nest[i - 1]] <=> i > 2)
  BY <1>1 DEF Chained
<1> HIDE DEF n, r
<1>15. CASE r = "IRET"
  <2>1. /\ c.nest = SubSeq(s.nest, 1, n - 1)
        /\ c.nest \in Seq(Tasks) /\ Len(c.nest) = n - 1 /\ \A i \in 1 .. n - 1 : c.nest[i] = s.nest[i]
    <3> DEFINE q == s.nest
    <3>1. c.nest = SubSeq(q, 1, n - 1)
      BY <1>15 DEF LoadedAs, n, r
    <3>2. q \in Seq(Tasks) /\ n = Len(q) /\ n \in Nat /\ n > 1
      BY <1>1, <1>15 DEF n
    <3> HIDE DEF q
    <3>3. /\ SubSeq(q, 1, n - 1) \in Seq(Tasks) /\ Len(SubSeq(q, 1, n - 1)) = n - 1
          /\ \A i \in 1 .. n - 1 : SubSeq(q, 1, n - 1)[i] = q[i]
      BY ONLY <3>2
    <3> QED BY <3>1, <3>3 DEF q
  <2>2. n - 1 \in 1 .. n /\ n \in 1 .. n /\ \A i \in 1 .. n - 1 : i \in 1 .. n /\ i # n
    BY <1>1, <1>15
  <2>3. \A t \in Tasks : Live(c, t) <=> Live(s, t) /\ t # s.tr
    <3> TAKE t \in Tasks
    <3>1. Live(c, t) <=> \E i \in 1 .. n - 1 : s.nest[i] = t
      BY <2>1, <2>2, Zenon DEF Live
    <3>2. (\E i \in 1 .. n - 1 : s.nest[i] = t) => Live(s, t) /\ t # s.tr
      BY <1>13, <1>14, <2>2
    <3>3. Live(s, t) /\ t # s.tr => \E i \in 1 .. n - 1 : s.nest[i] = t
      <4>1. \A i \in 1 .. n : i # n => i \in 1 .. n - 1
        BY <1>1
      <4> QED BY <1>13, <1>14, <4>1
    <3> QED BY <3>1, <3>2, <3>3
  <2>4. s.flag[s.to] <=> n > 2
    BY <1>1, <1>14, <1>15
  <2>5. \A t \in Tasks \ {s.to} : c.busy[t] <=> Live(c, t)
    BY <1>5, <1>14, <1>15, <2>3
  <2>6. \A t \in Tasks : ~ Live(c, t) => ~ c.flag[t]
    BY <1>4, <1>14, <1>15, <2>3
  <2>7. \A i \in 2 .. n - 1 : /\ c.link[c.nest[i]] = c.nest[i - 1]
                              /\ c.flag[c.nest[i - 1]] <=> i > 2
    <3> TAKE i \in 2 .. n - 1
    <3>1. /\ i \in 2 .. n /\ i \in 1 .. n - 1 /\ i - 1 \in 1 .. n - 1
          /\ i \in 1 .. n /\ i - 1 \in 1 .. n /\ i - 1 # n
      BY <1>1
    <3>2. c.nest[i] = s.nest[i] /\ c.nest[i - 1] = s.nest[i - 1]
      BY <2>1, <3>1
    <3>3. s.nest[i] \in Tasks /\ s.nest[i - 1] \in Tasks /\ s.nest[i - 1] # s.tr
      BY <1>12, <1>14, <2>2, <3>1
    <3> QED BY <1>4, <1>6, <1>14, <1>15, <3>1, <3>2, <3>3
  <2>8. \A i, j \in 1 .. n - 1 : c.nest[i] = c.nest[j] => i = j
    BY <1>14, <2>1, <2>2
  <2>9. c.nest[n - 1] = s.to /\ n - 1 >= 1 /\ (n > 2 <=> n - 1 > 1)
    BY <1>1, <1>15, <2>1
  <2> QED BY <1>11, <1>15, <2>1, <2>4, <2>5, <2>6, <2>7, <2>8, <2>9
<1>16. CASE r = "JMP"
  <2>1. /\ n = 1 /\ c.nest = [s.nest EXCEPT ![n] = s.to]
        /\ c.nest \in Seq(Tasks) /\ Len(c.nest) = 1 /\ c.nest[1] = s.to /\ s.tr = s.nest[1]
    BY <1>1, <1>14, <1>16 DEF LoadedAs, n, r
  <2>2. \A t : (Live(c, t) <=> t = s.to) /\ (Live(s, t) <=> t = s.tr)
    BY <1>13, <2>1 DEF Live
  <2>3. \A t \in Tasks \ {s.to} : c.busy[t] <=> Live(c, t)
    BY <1>5, <1>14, <1>16, <2>2
  <2>4. \A t \in Tasks : ~ Live(c, t) => ~ c.flag[t]
    BY <1>4, <1>14, <2>1, <2>2
  <2>5. ~ s.flag[s.to]
    BY <1>1, <1>14, <2>2
  <2>6. /\ \A i, j \in 1 .. 1 : c.nest[i] = c.nest[j] => i = j
        /\ ~ (1 > 1) /\ 1 >= 1 /\ 2 .. 1 = {}
    OBVIOUS
  <2> QED BY <1>11, <1>16, <2>1, <2>3, <2>4, <2>5, <2>6
<1>17. CASE r \notin {"IRET", "JMP"}
  <2>1. /\ c.nest = Append(s.nest, s.to)
        /\ c.nest \in Seq(Tasks) /\ Len(c.nest) = n + 1 /\ c.nest[n + 1] = s.to
        /\ \A i \in 1 .. n : c.nest[i] = s.nest[i]
    <3> DEFINE q == s.nest
    <3>1. c.nest = Append(q, s.to)
      BY <1>17 DEF LoadedAs, n, r
    <3>2. q \in Seq(Tasks) /\ n = Len(q) /\ n \in Nat /\ s.to \in Tasks
      BY <1>1 DEF n
    <3> HIDE DEF q
    <3>3. /\ Append(q, s.to) \in Seq(Tasks) /\ Len(Append(q, s.to)) = n + 1
          /\ Append(q, s.to)[n + 1] = s.to /\ \A i \in 1 .. n : Append(q, s.to)[i] = q[i]
      BY ONLY <3>2
    <3> QED BY <3>1, <3>3, Zenon DEF q
  <2>2. \A i : i \in 1 .. n + 1 <=> i \in 1 .. n \/ i = n + 1
    BY <1>1
  <2>3. \A t \in Tasks : Live(c, t) <=> Live(s, t) \/ t = s.to
    BY <1>13, <2>1, <2>2 DEF Live
  <2>4. \A i \in 1 .. n : s.nest[i] # s.to
    BY <1>1, <1>13, <1>17
  <2>5. \A t \in Tasks \ {s.to} : c.busy[t] <=> Live(c, t)
    <3>1. Live(s, s.tr) /\ s.busy[s.tr]
      BY <1>1, <1>13, <1>14, <1>17
    <3>2. \A t \in Tasks \ {s.to} : c.busy[t] <=> s.busy[t]
      BY <1>5, <1>17, <3>1
    <3>3. ASSUME NEW t \in Tasks \ {s.to} PROVE c.busy[t] <=> Live(c, t)
      <4>1. CASE t = s.tr
        BY <2>3, <3>1, <3>2, <4>1, Zenon
      <4>2. CASE t # s.tr
        <5>1. t \in Tasks \ {s.tr} /\ t \in Tasks /\ t # s.to
          BY <4>2
        <5>2. s.busy[t] <=> Live(s, t)
          BY <1>14, <5>1, Zenon
        <5> QED BY <2>3, <3>2, <5>1, <5>2, Zenon
      <4> QED BY <4>1, <4>2
    <3> QED BY <3>3
  <2>6. \A t \in Tasks : ~ Live(c, t) => ~ c.flag[t]
    <3>1. Live(s, s.tr)
      BY <1>1, <1>13, <1>14
    <3> QED BY <1>4, <1>14, <2>3, <3>1
  <2>7. \A i \in 2 .. n + 1 : /\ c.link[c.nest[i]] = c.nest[i - 1]
                              /\ c.flag[c.nest[i - 1]] <=> i > 2
    <3> TAKE i \in 2 .. n + 1
    <3>1. CASE i = n + 1
      <4>1. c.nest[i - 1] = s.tr /\ c.nest[i] = s.to /\ (i > 2 <=> n > 1)
        BY <1>1, <1>14, <2>1, <3>1
      <4> QED BY <1>1, <1>4, <1>6, <1>14, <1>17, <4>1
    <3>2. CASE i \in 2 .. n
      <4>1. i \in 1 .. n /\ i - 1 \in 1 .. n /\ i - 1 # n /\ n \in 1 .. n
        BY <1>1, <3>2
      <4>2. c.nest[i] = s.nest[i] /\ c.nest[i - 1] = s.nest[i - 1]
        BY <2>1, <4>1
      <4>3. s.nest[i] \in Tasks \ {s.to} /\ s.nest[i - 1] \in Tasks \ {s.tr}
        BY <1>12, <1>14, <2>4, <4>1
      <4> QED BY <1>4, <1>6, <1>14, <3>2, <4>2, <4>3
    <3> QED BY <1>1, <3>1, <3>2
  <2>8. \A i, j \in 1 .. n + 1 : c.nest[i] = c.nest[j] => i = j
    BY <1>14, <2>1, <2>2, <2>4
  <2>9. n + 1 >= 1 /\ n + 1 > 1
    BY <1>1
  <2> QED BY <1>11, <1>17, <2>1, <2>5, <2>6, <2>7, <2>8, <2>9
<1> QED BY <1>15, <1>16, <1>17

\* Whatever the handler of a switch meets, it leaves the tasks in order.
LEMMA SwitchExitInv == ASSUME TasksInv, TaskSwitchExit PROVE TasksInv'
<1> DEFINE s == tsk
           sv == tss32_save(ClearBusy(s))
           k == Commit(SetBusy(sv))
           res == tss32_restore(k, s.tr)
           early == [k EXCEPT !.nt = k.flag[k.to] \/ k.reason \notin {"IRET", "JMP"},
                              !.link[k.to] = IF k.reason \notin {"IRET", "JMP"} THEN s.tr ELSE @]
           full == [early EXCEPT !.cs = k.to, !.ss = k.to]
<1>1. TaskSound(s) /\ Switching(s) /\ TaskTypes(s) /\ s.pc = "switch"
  BY DEF TasksInv, TaskInv, TaskSound, TaskSwitchExit
<1>2. tsk' \in TaskSwitched(s)
  BY DEF TaskSwitchExit
<1>3. SavedAs(s, sv)
  BY <1>1, Saved
<1>4. res.early = validate_seg_desc(early) /\ res.loaded = full
  BY DEF tss32_restore
<1>5. LoadedAs(s, sv, early) /\ LoadedAs(s, sv, full)
  BY <1>1, <1>3, Loaded, Zenon
<1>6. \/ tsk' \in read_tss_descriptor(s) \cup VerifyTss(s)
      \/ /\ VerifyTss(s) = {}
         /\ \/ tsk' \in Copy_setup(s)
            \/ s.reason # "IRET" /\ tsk' \in Copy_setup(sv)
            \/ tsk' \in res.early
            \/ tsk' \in validate_seg_desc(res.loaded)
            \/ tsk' \in push_errcode(res.loaded)
            \/ tsk' = [res.loaded EXCEPT !.pc = "guest"]
  BY <1>2, Zenon DEF TaskSwitched
<1> HIDE DEF s, sv, k, res, early, full
<1>7. TaskInv(CHKERR(s, "PF")) /\ TaskInv(CHKERR(s, "injected"))
  BY <1>1, Answered, Zenon
<1>8. ASSUME VerifyTss(s) = {} PROVE s.good /\ ((s.reason = "IRET") <=> s.busy[s.to])
  <2>1. s.busy[s.to] \in BOOLEAN
    BY <1>1 DEF TaskTypes, Switching
  <2> QED BY <1>8, <2>1 DEF VerifyTss
<1>9. ASSUME NEW v, sel_exception(s, v) \in VerifyTss(s) PROVE TaskInv(sel_exception(s, v))
  <2>1. ~ s.good \/ (s.reason = "IRET") # s.busy[s.to]
    BY <1>9 DEF VerifyTss
  <2>2. s.busy[s.tr]
    <3>1. ASSUME HalfJumped(s) PROVE FALSE
      <4>1. s.good /\ s.reason = "JMP" /\ s.to \in Tasks /\ ~ s.busy[s.to]
        BY <3>1 DEF HalfJumped
      <4>2. s.busy[s.to] \in BOOLEAN
        BY <1>1, <4>1 DEF TaskTypes
      <4> QED BY <2>1, <4>1, <4>2
    <3> QED BY <1>1, <3>1 DEF TaskSound
  <2> QED BY <1>1, <2>2, Rejected
<1>10. CASE tsk' \in read_tss_descriptor(s)
  <2>1. tsk' = CHKERR(s, "PF") \/ tsk' = CHKERR(s, "injected")
    BY <1>10 DEF read_tss_descriptor
  <2> QED BY <1>7, <2>1 DEF TasksInv
<1>11. CASE tsk' \in VerifyTss(s)
  <2>1. PICK v : tsk' = sel_exception(s, v)
    BY <1>11 DEF VerifyTss
  <2> QED BY <1>9, <1>11, <2>1 DEF TasksInv
<1>12. CASE VerifyTss(s) = {} /\ tsk' \in Copy_setup(s)
  BY <1>7, <1>12 DEF Copy_setup, TasksInv
<1>13. CASE VerifyTss(s) = {} /\ s.reason # "IRET" /\ tsk' \in Copy_setup(sv)
  <2>1. TaskSound(sv)
    BY <1>1, <1>3, <1>8, <1>13, SavedSound
  <2> QED BY <1>13, <2>1, Answered, Zenon DEF Copy_setup, TasksInv
<1>14. CASE /\ VerifyTss(s) = {}
            /\ \/ tsk' \in res.early
               \/ tsk' \in validate_seg_desc(res.loaded)
               \/ tsk' \in push_errcode(res.loaded)
               \/ tsk' = [res.loaded EXCEPT !.pc = "guest"]
  <2>1. TaskSound(early) /\ TaskSound(full)
    BY <1>1, <1>3, <1>5, <1>8, <1>14, LoadedSound
  <2>2. \/ \E e : tsk' = CHKERR(early, e) \/ tsk' = CHKERR(full, e)
        \/ tsk' = [full EXCEPT !.pc = "guest"]
    BY <1>4, <1>14, Zenon DEF validate_seg_desc, push_errcode
  <2>3. TaskInv(tsk')
    BY <2>1, <2>2, Answered, Zenon
  <2> QED BY <2>3 DEF TasksInv
<1> QED BY <1>6, <1>10, <1>11, <1>12, <1>13, <1>14

\* The guest executes an instruction, starts a switch, or returns from its fault handler.
LEMMA TaskGuestInv ==
  ASSUME TasksInv,
         \/ TaskStep \/ TaskFaultHandled
         \/ \E reason \in {"CALL", "JMP", "IRET", "IDT_GATE"}, t \in Tasks, good \in BOOLEAN :
              TaskSwitchStart(reason, t, good)
  PROVE  TasksInv'
<1> DEFINE s == tsk
           c == tsk'
<1>1. TaskSound(s) /\ TaskShape(s) /\ TaskTypes(s) /\ Chained(s) /\ s.pc = "guest"
  BY Zenon DEF TasksInv, TaskInv, TaskSound, TaskTypes, TaskStep, TaskFaultHandled, TaskSwitchStart, TaskRuns
<1>2. CASE TaskStep
  <2> DEFINE pos == [s.pos EXCEPT ![s.tr] = EipAfter(s.pos[s.tr], 1)]
  <2>1. ~ s.retry /\ s.tr \in Tasks /\ s.rip = s.pos[s.tr] /\ s.rip \in Int
    BY <1>1, <1>2 DEF TaskStep, TaskTypes, Chained
  <2>2. c = [s EXCEPT !.rip = EipAfter(s.rip, 1), !.pos = pos]
    BY <1>1, <1>2, Zenon DEF TaskStep, TaskShape, TaskFields
  <2> HIDE DEF pos, s, c
  <2>3. /\ TaskShape(c) /\ c.rip = EipAfter(s.rip, 1) /\ c.pos = pos
        /\ c.tr = s.tr /\ c.nt = s.nt /\ c.cs = s.cs /\ c.ss = s.ss /\ c.pc = s.pc
    BY ONLY <1>1, <2>2, Zenon DEF TaskShape, TaskFields
  <2>4. /\ c.busy = s.busy /\ c.link = s.link /\ c.flag = s.flag /\ c.eip = s.eip /\ c.nest = s.nest
        /\ c.good = s.good /\ c.retry = s.retry
    BY ONLY <1>1, <2>2, Zenon DEF TaskShape, TaskFields
  <2>5. EipAfter(s.rip, 1) \in Int
    BY <2>1 DEF EipAfter
  <2>6. /\ pos \in [Tasks -> Int] /\ pos[s.tr] = EipAfter(s.rip, 1)
        /\ \A t \in Tasks : t # s.tr => pos[t] = s.pos[t]
    BY <1>1, <2>1, <2>5 DEF pos, TaskTypes
  <2>7. TaskTypes(c)
    BY <1>1, <2>3, <2>4, <2>5, <2>6 DEF TaskTypes
  <2>8. \A t : Live(c, t) <=> Live(s, t)
    BY <2>4 DEF Live
  <2>9. Chained(c)
    <3>1. /\ Len(c.nest) >= 1 /\ c.tr = c.nest[Len(c.nest)] /\ (c.nt <=> Len(c.nest) > 1)
          /\ \A i, j \in 1 .. Len(c.nest) : c.nest[i] = c.nest[j] => i = j
      BY <1>1, <2>3, <2>4 DEF Chained
    <3>2. /\ \A t \in Tasks \ {c.tr} : c.busy[t] <=> Live(c, t)
          /\ \A t \in Tasks : ~ Live(c, t) => ~ c.flag[t]
          /\ \A i \in 2 .. Len(c.nest) : /\ c.link[c.nest[i]] = c.nest[i - 1]
                                         /\ c.flag[c.nest[i - 1]] <=> i > 2
      BY <1>1, <2>3, <2>4, <2>8 DEF Chained
    <3>3. c.rip = c.pos[c.tr]
      BY <2>3, <2>6
    <3>4. \A t \in Tasks \ {c.tr} : c.eip[t] = c.pos[t]
      <4>1. \A t \in Tasks \ {s.tr} : s.eip[t] = s.pos[t]
        BY <1>1 DEF Chained
      <4> QED BY <2>3, <2>4, <2>6, <4>1
    <3> QED BY <3>1, <3>2, <3>3, <3>4 DEF Chained
  <2>10. c.cs = c.ss /\ c.busy[c.tr] /\ c.pc = "guest"
    BY <1>1, <2>1, <2>3, <2>4 DEF TaskSound, HalfJumped
  <2> QED BY <2>7, <2>9, <2>10 DEF TasksInv, TaskInv, c
<1>3. CASE TaskFaultHandled
  <2>1. c = [s EXCEPT !.exc = "none", !.cs = s.tr, !.ss = s.tr]
    BY <1>3 DEF TaskFaultHandled
  <2> HIDE DEF s, c
  <2>2. /\ TaskShape(c) /\ c.rip = s.rip /\ c.pos = s.pos
        /\ c.tr = s.tr /\ c.nt = s.nt /\ c.cs = c.ss /\ c.pc = s.pc
    BY ONLY <1>1, <2>1, Zenon DEF TaskShape, TaskFields
  <2>3. /\ c.busy = s.busy /\ c.link = s.link /\ c.flag = s.flag /\ c.eip = s.eip /\ c.nest = s.nest
        /\ c.good = s.good /\ c.retry = s.retry /\ c.reason = s.reason /\ c.to = s.to
    BY ONLY <1>1, <2>1, Zenon DEF TaskShape, TaskFields
  <2>4. TaskTypes(c)
    BY <1>1, <2>2, <2>3 DEF TaskTypes
  <2>5. Chained(c)
    BY <1>1, <2>2, <2>3, ChainedSame
  <2>6. c.busy[c.tr] \/ HalfJumped(c)
    BY <1>1, <2>2, <2>3 DEF TaskSound, HalfJumped
  <2> QED BY <1>1, <2>2, <2>4, <2>5, <2>6 DEF TasksInv, TaskInv, c
<1>4. ASSUME NEW reason \in {"CALL", "JMP", "IRET", "IDT_GATE"}, NEW t \in Tasks, NEW good \in BOOLEAN,
             TaskSwitchStart(reason, t, good)
      PROVE  TasksInv'
  <2>1. /\ c = [s EXCEPT !.pc = "switch", !.reason = reason, !.to = t, !.good = good, !.retry = TRUE]
        /\ s.exc = "none"
        /\ s.retry => reason = s.reason /\ t = s.to /\ good = s.good
        /\ reason = "IRET" => s.nt /\ t = s.link[s.tr]
        /\ reason = "JMP" => ~ s.nt
    BY <1>4 DEF TaskSwitchStart, TaskRuns
  <2> HIDE DEF s, c
  <2>2. /\ TaskShape(c) /\ c.rip = s.rip /\ c.pos = s.pos
        /\ c.tr = s.tr /\ c.nt = s.nt /\ c.cs = s.cs /\ c.ss = s.ss /\ c.pc = "switch"
    BY ONLY <1>1, <2>1, Zenon DEF TaskShape, TaskFields
  <2>3. /\ c.busy = s.busy /\ c.link = s.link /\ c.flag = s.flag /\ c.eip = s.eip /\ c.nest = s.nest
        /\ c.exc = s.exc
    BY ONLY <1>1, <2>1, Zenon DEF TaskShape, TaskFields
  <2>4. c.good = good /\ c.retry = TRUE /\ c.reason = reason /\ c.to = t
    BY ONLY <1>1, <2>1, Zenon DEF TaskShape, TaskFields
  <2>5. c.retry \in BOOLEAN /\ c.retry
    BY <2>4, Zenon
  <2>6. TaskTypes(c) /\ c.cs = c.ss
    BY <1>1, <2>2, <2>3, <2>4, <2>5 DEF TaskTypes, TaskSound
  <2>7. Chained(c)
    BY <1>1, <2>2, <2>3, ChainedSame
  <2>8. c.busy[c.tr] \/ HalfJumped(c)
    BY <1>1, <2>1, <2>2, <2>3, <2>4, <2>5 DEF TaskSound, HalfJumped
  <2>9. Switching(c)
    BY <2>1, <2>2, <2>3, <2>4, <2>5 DEF Switching
  <2> QED BY <2>2, <2>6, <2>7, <2>8, <2>9 DEF TasksInv, TaskInv, c
<1> QED BY <1>2, <1>3, <1>4

\* Whatever tasks a guest nests, and wherever the emulation of its switches faults,
\* the busy bits, the links, the NT flags and the saved eips are the ones the
\* processor would have left.
THEOREM TasksCorrect == TaskSpec => []TaskChain
<1>1. TasksInv /\ [TaskNext]_tsk => TasksInv'
  <2> SUFFICES ASSUME TasksInv, [TaskNext]_tsk PROVE TasksInv'
    OBVIOUS
  <2>1. CASE UNCHANGED tsk
    BY <2>1 DEF TasksInv
  <2> QED BY <2>1, SwitchExitInv, TaskGuestInv DEF TaskNext
<1> QED BY <1>1, TaskInitInv, TaskInvChain, PTL DEF TaskSpec

-----------------------------------------------------------------------------
(* The page walk.                                                          *)

\* The fields of the record and their types.
WalkFields(D) ==
  /\ "pc" \in D /\ "pt" \in D /\ "mode" \in D /\ "user" \in D /\ "write" \in D /\ "level" \in D
  /\ "pte" \in D /\ "restarts" \in D /\ "pt0" \in D /\ "edits" \in D /\ "clobbered" \in D
WalkShape(s) == WalkFields(DOMAIN s)
Walking == {"read", "accessed", "dirty"}
WalkTypes(s) ==
  /\ WalkShape(s)
  /\ s.pt \in [1 .. 4 -> Entries] /\ s.pt0 \in [1 .. 4 -> Entries] /\ s.pte \in Entries
  /\ s.mode \in Modes /\ s.user \in BOOLEAN /\ s.write \in BOOLEAN /\ s.level \in 0 .. 4
  /\ s.restarts \in Nat /\ s.edits \in Nat /\ s.clobbered = FALSE
  /\ s.pc \in Walking \cup {"idle", "done", "fault", "error", "noncanonical"}

\* The operators of the model, for a given mode.
Pdpte(mode, l) == mode = "PAE" /\ l = 3
LargeAt(mode, t) == {l \in 2 .. Top(mode) : t[l].ps /\ ~ Pdpte(mode, l)}
LeafAt(mode, t) ==
  IF LargeAt(mode, t) = {} THEN 1
  ELSE CHOOSE l \in LargeAt(mode, t) : \A k \in LargeAt(mode, t) : k <= l
Denied(s, e) == ~ e.v \/ (s.user /\ ~ e.u) \/ (s.write /\ ~ e.rw)
LeafOf(s) == LeafAt(s.mode, s.pt0)

Marked(e) == [e EXCEPT !.a = TRUE]
Dirtied(e) == [e EXCEPT !.d = TRUE]

\* Where the walk is: between the top and the entry of the page, which nobody
\* moves; and what it knows of the entry it has read.
PlaceOf(s) ==
  /\ \A l \in 1 .. 4 : s.pt[l].ps = s.pt0[l].ps
  /\ s.pc \in Walking => s.mode # "FLAT" /\ s.level \in LeafOf(s) .. Top(s.mode)
  /\ s.pc \in {"accessed", "dirty"} => s.pte.ps = s.pt0[s.level].ps
  /\ s.pc = "accessed" => ~ s.pte.a /\ ~ Pdpte(s.mode, s.level)
  /\ s.pc = "dirty" => s.level = LeafOf(s) /\ LeafOf(s) # 4
  /\ s.pc = "idle" => s.restarts = 0

\* The restarts that are still to come: the entry read is no longer the entry, or
\* the accessed bit of the page's entry is still to be set.
Stale(s) == IF s.pc \in {"accessed", "dirty"} /\ s.pt[s.level] # s.pte THEN 1 ELSE 0
Fresh(s) == IF s.pt[LeafOf(s)].a THEN 0 ELSE 1
CountOf(s) == s.restarts + Stale(s) + Fresh(s) <= 2 * s.edits + 1

\* An undisturbed walk: the entries above have passed and are marked, those it
\* has not come to are as they were, or marked by a walk that started again.
Passes(s, l) == IF Pdpte(s.mode, l) THEN s.pt0[l].v ELSE ~ Denied(s, s.pt0[l])
Above(s, l) == /\ Passes(s, l)
               /\ ~ Pdpte(s.mode, l) => s.pt[l] = Marked(s.pt0[l])
Untouched(s, l) == l < LeafOf(s) \/ l > Top(s.mode) \/ Pdpte(s.mode, l)
Calm(s) ==
  /\ s.pc \in Walking =>
       /\ \A l \in 1 .. 4 : /\ s.pt[l] = s.pt0[l] \/ s.pt[l] = Marked(s.pt0[l])
                            /\ Untouched(s, l) => s.pt[l] = s.pt0[l]
       /\ \A l \in 1 .. Top(s.mode) : l > s.level => Above(s, l)
  /\ s.pc = "accessed" => s.pte = s.pt[s.level] /\ ~ Denied(s, s.pt0[s.level])
  /\ s.pc = "dirty" => Above(s, s.level) /\ s.write /\ ~ s.pt0[s.level].d
                       /\ (s.pte = s.pt0[s.level] \/ s.pte = s.pt[s.level])
  /\ s.pc = "fault" => LeafOf(s) = 4 \/ \E l \in LeafOf(s) .. Top(s.mode) : ~ Passes(s, l)
  /\ s.pc = "done" /\ s.mode # "FLAT" =>
       /\ LeafOf(s) # 4 /\ \A l \in LeafOf(s) .. Top(s.mode) : Passes(s, l)
       /\ \A l \in 1 .. 4 :
            IF Untouched(s, l) THEN s.pt[l] = s.pt0[l]
            ELSE s.pt[l] = IF l = LeafOf(s) /\ s.write THEN Dirtied(Marked(s.pt0[l])) ELSE Marked(s.pt0[l])
  /\ s.pc = "done" /\ s.mode = "FLAT" => s.pt = s.pt0

WalkInv(s) == WalkTypes(s) /\ PlaceOf(s) /\ CountOf(s) /\ (s.edits = 0 => Calm(s))
PwInv == WalkInv(pw)

\* An entry and its bits.
LEMMA EntryLaws ==
  ASSUME NEW e \in Entries
  PROVE  /\ Marked(e) \in Entries /\ Marked(e).a /\ (e.a => Marked(e) = e)
         /\ Marked(e).ps = e.ps /\ Marked(e).v = e.v /\ Marked(e).u = e.u /\ Marked(e).rw = e.rw
         /\ Marked(e).d = e.d
         /\ Dirtied(e) \in Entries /\ Dirtied(e).a = e.a /\ Dirtied(e).ps = e.ps /\ (e.d => Dirtied(e) = e)
         /\ Dirtied(Marked(e)) = [e EXCEPT !.a = TRUE, !.d = TRUE]
<1> USE DEF Entries, Marked, Dirtied
<1>1. Marked(e) \in Entries /\ Dirtied(e) \in Entries
  BY Zenon
<1>2. Marked(e).a /\ Marked(e).ps = e.ps /\ Marked(e).v = e.v /\ Marked(e).u = e.u /\ Marked(e).rw = e.rw
      /\ Marked(e).d = e.d
  OBVIOUS
<1>3. e.a => Marked(e) = e
  OBVIOUS
<1>4. Dirtied(e).a = e.a /\ Dirtied(e).ps = e.ps
  OBVIOUS
<1>5. e.d => Dirtied(e) = e
  OBVIOUS
<1>6. Dirtied(Marked(e)) = [e EXCEPT !.a = TRUE, !.d = TRUE]
  OBVIOUS
<1> QED BY <1>1, <1>2, <1>3, <1>4, <1>5, <1>6

\* The walk ends at the first large page, or at entry 1.
LEMMA LeafLaws ==
  ASSUME NEW mode \in Modes, NEW t
  PROVE  /\ LeafAt(mode, t) \in 1 .. 4 /\ Top(mode) \in 0 .. 4
         /\ mode # "FLAT" => LeafAt(mode, t) \in 1 .. Top(mode)
         /\ LeafAt(mode, t) # 1 => t[LeafAt(mode, t)].ps /\ ~ Pdpte(mode, LeafAt(mode, t))
         /\ ~ Pdpte(mode, LeafAt(mode, t))
         /\ \A l \in 2 .. Top(mode) : l > LeafAt(mode, t) => ~ (t[l].ps /\ ~ Pdpte(mode, l))
<1> DEFINE S == LargeAt(mode, t)
<1>1. Top(mode) \in {0, 2, 3, 4} /\ (mode # "FLAT" => Top(mode) # 0)
  BY DEF Modes, Top
<1>2. CASE S = {}
  <2>1. LeafAt(mode, t) = 1
    BY <1>2 DEF LeafAt
  <2>2. \A l \in 2 .. Top(mode) : ~ (t[l].ps /\ ~ Pdpte(mode, l))
    BY <1>2 DEF LargeAt
  <2> QED BY <1>1, <2>1, <2>2 DEF Pdpte
<1>3. CASE S # {}
  <2>1. S \subseteq {2, 3, 4}
    BY <1>1 DEF LargeAt
  <2>2. \E l \in S : \A k \in S : k <= l
    <3>1. CASE 4 \in S
      BY <2>1, <3>1
    <3>2. CASE 4 \notin S /\ 3 \in S
      BY <2>1, <3>2
    <3>3. CASE S = {2}
      BY <3>3
    <3> HIDE DEF S
    <3> QED BY <1>3, <2>1, <3>1, <3>2, <3>3, Zenon
  <2>3. LeafAt(mode, t) \in S /\ \A k \in S : k <= LeafAt(mode, t)
    BY <1>3, <2>2 DEF LeafAt
  <2>4. LeafAt(mode, t) \in 2 .. Top(mode) /\ t[LeafAt(mode, t)].ps /\ ~ Pdpte(mode, LeafAt(mode, t))
    BY <2>3 DEF LargeAt
  <2>5. \A l \in 2 .. Top(mode) : l > LeafAt(mode, t) => ~ (t[l].ps /\ ~ Pdpte(mode, l))
    <3> SUFFICES ASSUME NEW l \in 2 .. Top(mode), l > LeafAt(mode, t), t[l].ps, ~ Pdpte(mode, l) PROVE FALSE
      OBVIOUS
    <3>1. l \in S
      BY DEF LargeAt
    <3> QED BY <1>1, <2>3, <2>4, <3>1
  <2> QED BY <1>1, <2>4, <2>5
<1> QED BY <1>2, <1>3

\* Where the walk goes after an entry that let it pass.
LEMMA DescendCases ==
  ASSUME NEW s, WalkTypes(s), s.mode = pw.mode, s.mode # "FLAT",
         s.level \in LeafOf(s) .. Top(s.mode), s.pte.ps = s.pt0[s.level].ps
  PROVE  \/ /\ Descend(s) = [s EXCEPT !.pc = "dirty"]
            /\ s.level = LeafOf(s) /\ s.level # 4 /\ s.write /\ ~ s.pte.d
         \/ /\ Descend(s) = [s EXCEPT !.pc = "done"]
            /\ s.level = LeafOf(s) /\ s.level # 4 /\ (s.write => s.pte.d)
         \/ Descend(s) = [s EXCEPT !.pc = "fault"] /\ s.level = LeafOf(s) /\ s.level = 4
         \/ /\ Descend(s) = [s EXCEPT !.pc = "read", !.level = s.level - 1]
            /\ s.level > LeafOf(s)
<1>1. /\ LeafOf(s) \in 1 .. Top(s.mode) /\ Top(s.mode) \in 0 .. 4 /\ s.level \in 1 .. 4
      /\ LeafOf(s) # 1 => s.pt0[LeafOf(s)].ps /\ ~ Pdpte(s.mode, LeafOf(s))
      /\ \A l \in 2 .. Top(s.mode) : l > LeafOf(s) => ~ (s.pt0[l].ps /\ ~ Pdpte(s.mode, l))
  BY LeafLaws DEF LeafOf, WalkTypes
<1>2. IsPdpte(s.level) <=> Pdpte(s.mode, s.level)
  BY DEF IsPdpte, Pdpte
<1>3. CASE s.level = 1
  BY <1>1, <1>3 DEF Descend
<1>4. CASE s.level # 1 /\ s.pte.ps /\ ~ Pdpte(s.mode, s.level)
  <2>2. s.pt0[s.level].ps
    BY <1>4, Zenon
  <2>3. s.level \in 2 .. Top(s.mode) /\ (s.level > LeafOf(s) \/ s.level = LeafOf(s))
    BY <1>1, <1>4
  <2>1. s.level = LeafOf(s)
    BY <1>1, <1>4, <2>2, <2>3, Zenon
  <2> QED BY <1>2, <1>4, <2>1 DEF Descend
<1>5. CASE s.level # 1 /\ ~ (s.pte.ps /\ ~ Pdpte(s.mode, s.level))
  <2>1. s.level > LeafOf(s)
    BY <1>1, <1>5
  <2> QED BY <1>2, <1>5, <2>1 DEF Descend
<1> QED BY <1>3, <1>4, <1>5

\* The walk has passed the entry at its level and marked it.
PassedTo(s) ==
  /\ \A l \in 1 .. 4 : /\ s.pt[l] = s.pt0[l] \/ s.pt[l] = Marked(s.pt0[l])
                       /\ Untouched(s, l) => s.pt[l] = s.pt0[l]
  /\ \A l \in 1 .. Top(s.mode) : l > s.level => Above(s, l)
  /\ Above(s, s.level) /\ (s.pte = s.pt0[s.level] \/ s.pte = s.pt[s.level])

\* The same walk over the same tables; the same with other values of pc and level.
SameWalk(s, c) ==
  /\ WalkShape(c)
  /\ c.pt = s.pt /\ c.pt0 = s.pt0 /\ c.mode = s.mode /\ c.user = s.user /\ c.write = s.write
  /\ c.edits = s.edits /\ c.clobbered = s.clobbered
Moved(s, c, pc, level) == SameWalk(s, c) /\ c.pc = pc /\ c.level = level /\ c.pte = s.pte

\* What is said of an entry depends on the tables, the mode and the rights.
LEMMA MovedLaws ==
  ASSUME NEW s, NEW c, SameWalk(s, c)
  PROVE  /\ LeafOf(c) = LeafOf(s) /\ Fresh(c) = Fresh(s)
         /\ \A l : /\ Passes(c, l) <=> Passes(s, l)
                   /\ Above(c, l) <=> Above(s, l)
                   /\ Untouched(c, l) <=> Untouched(s, l)
<1> USE DEF SameWalk
<1>1. LeafOf(c) = LeafOf(s)
  BY DEF LeafOf
<1>2. \A e : Denied(c, e) <=> Denied(s, e)
  BY DEF Denied
<1>3. \A l : Passes(c, l) <=> Passes(s, l)
  BY <1>2 DEF Passes
<1> QED BY <1>1, <1>3 DEF Fresh, Above, Untouched

\* On from an entry that let the walk pass.
LEMMA DescendInv ==
  ASSUME NEW s, WalkTypes(s), s.mode = pw.mode, s.mode # "FLAT",
         s.level \in LeafOf(s) .. Top(s.mode), s.pte.ps = s.pt0[s.level].ps,
         \A l \in 1 .. 4 : s.pt[l].ps = s.pt0[l].ps,
         s.restarts + (IF s.level = LeafOf(s) /\ s.pt[s.level] # s.pte THEN 1 ELSE 0) + Fresh(s)
           <= 2 * s.edits + 1,
         s.edits = 0 => PassedTo(s)
  PROVE  WalkInv(Descend(s))
<1>1. /\ LeafOf(s) \in 1 .. Top(s.mode) /\ Top(s.mode) \in 0 .. 4 /\ s.level \in 1 .. 4
      /\ ~ Pdpte(s.mode, LeafOf(s)) /\ s.restarts \in Nat /\ s.edits \in Nat
      /\ Fresh(s) \in 0 .. 1 /\ WalkShape(s)
  BY LeafLaws DEF LeafOf, WalkTypes, Fresh
<1>2. ASSUME NEW c, NEW p \in Walking \cup {"done", "fault"}, NEW k \in 0 .. 4, Moved(s, c, p, k),
             c.restarts = s.restarts
      PROVE  WalkTypes(c) /\ \A l \in 1 .. 4 : c.pt[l].ps = c.pt0[l].ps
  BY <1>2 DEF WalkTypes, Moved, SameWalk
<1>3. ASSUME Descend(s) = [s EXCEPT !.pc = "dirty"],
             s.level = LeafOf(s), s.level # 4, s.write, ~ s.pte.d
      PROVE  WalkInv(Descend(s))
  <2> DEFINE c == Descend(s)
  <2>1. Moved(s, c, "dirty", s.level) /\ c.restarts = s.restarts
    BY ONLY <1>1, <1>3, Zenon DEF WalkShape, WalkFields, Moved, SameWalk
  <2> HIDE DEF c
  <2>2. WalkTypes(c) /\ \A l \in 1 .. 4 : c.pt[l].ps = c.pt0[l].ps
    <3>1. s.level \in 0 .. 4 /\ "dirty" \in Walking \cup {"done", "fault"}
      BY <1>1 DEF Walking
    <3> QED BY <1>2, <2>1, <3>1, Zenon
  <2>3. /\ LeafOf(c) = LeafOf(s) /\ Fresh(c) = Fresh(s)
        /\ \A l : /\ Passes(c, l) <=> Passes(s, l)
                  /\ Above(c, l) <=> Above(s, l)
                  /\ Untouched(c, l) <=> Untouched(s, l)
    BY <2>1, MovedLaws DEF Moved
  <2>4. PlaceOf(c)
    BY <1>3, <2>1, <2>2, <2>3 DEF PlaceOf, Moved, SameWalk
  <2>5. CountOf(c)
    <3>1. Stale(c) = IF s.level = LeafOf(s) /\ s.pt[s.level] # s.pte THEN 1 ELSE 0
      BY <1>3, <2>1 DEF Stale, Moved, SameWalk
    <3> QED BY <2>1, <2>3, <3>1 DEF CountOf, Moved, SameWalk
  <2>6. ASSUME s.edits = 0 PROVE Calm(c)
    <3>1. ~ s.pt0[s.level].d
      <4>1. s.pt0[s.level] \in Entries
        BY <1>1 DEF WalkTypes
      <4>2. Marked(s.pt0[s.level]).d = s.pt0[s.level].d
        BY <4>1, EntryLaws, Zenon
      <4>3. s.pte = s.pt0[s.level] \/ s.pte = Marked(s.pt0[s.level])
        BY <1>1, <1>3, <2>6 DEF PassedTo, Above
      <4> QED BY <1>3, <4>2, <4>3
    <3> QED BY <1>3, <2>1, <2>3, <2>6, <3>1 DEF Calm, Moved, SameWalk, PassedTo
  <2>7. WalkInv(c)
    BY <2>1, <2>2, <2>4, <2>5, <2>6 DEF WalkInv, Moved, SameWalk
  <2> QED BY <2>7 DEF c
<1>4. ASSUME Descend(s) = [s EXCEPT !.pc = "done"],
             s.level = LeafOf(s), s.level # 4, s.write => s.pte.d
      PROVE  WalkInv(Descend(s))
  <2> DEFINE c == Descend(s)
  <2>1. Moved(s, c, "done", s.level) /\ c.restarts = s.restarts
    BY ONLY <1>1, <1>4, Zenon DEF WalkShape, WalkFields, Moved, SameWalk
  <2> HIDE DEF c
  <2>2. WalkTypes(c) /\ \A l \in 1 .. 4 : c.pt[l].ps = c.pt0[l].ps
    BY <1>1, <1>2, <2>1
  <2>3. /\ LeafOf(c) = LeafOf(s) /\ Fresh(c) = Fresh(s)
        /\ \A l : /\ Passes(c, l) <=> Passes(s, l)
                  /\ Above(c, l) <=> Above(s, l)
                  /\ Untouched(c, l) <=> Untouched(s, l)
    BY <2>1, MovedLaws DEF Moved
  <2>4. PlaceOf(c)
    BY <2>1, <2>2 DEF PlaceOf, Moved, SameWalk, Walking
  <2>5. CountOf(c)
    <3>1. Stale(c) = 0
      BY <2>1 DEF Stale, Moved, SameWalk
    <3> QED BY <1>1, <2>1, <2>3, <3>1 DEF CountOf, Moved, SameWalk
  <2>6. ASSUME s.edits = 0 PROVE Calm(c)
    <3>1. \A l \in LeafOf(s) .. Top(s.mode) : Above(s, l)
      BY <1>1, <1>4, <2>6 DEF PassedTo
    <3>2. \A l \in LeafOf(s) .. Top(s.mode) : Passes(s, l)
      BY <3>1 DEF Above
    <3>3. ASSUME NEW l \in 1 .. 4, ~ Untouched(s, l)
          PROVE  s.pt[l] = IF l = LeafOf(s) /\ s.write THEN Dirtied(Marked(s.pt0[l])) ELSE Marked(s.pt0[l])
      <4>1. s.pt[l] = Marked(s.pt0[l]) /\ s.pt0[l] \in Entries
        BY <1>1, <3>1, <3>3 DEF Untouched, Above, WalkTypes
      <4>2. CASE l = LeafOf(s) /\ s.write
        <5>1. s.pte = s.pt0[l] \/ s.pte = Marked(s.pt0[l])
          BY <1>4, <2>6, <4>1, <4>2 DEF PassedTo
        <5>2. Marked(s.pt0[l]).d
          <6>1. s.pte.d
            BY <1>4, <4>2
          <6>2. Marked(s.pt0[l]).d = s.pt0[l].d
            BY <4>1, EntryLaws, Zenon
          <6> QED BY <5>1, <6>1, <6>2, Zenon
        <5>3. Dirtied(Marked(s.pt0[l])) = Marked(s.pt0[l])
          BY <4>1, <5>2, EntryLaws, Zenon
        <5> QED BY <4>1, <4>2, <5>3
      <4> QED BY <4>1, <4>2
    <3>4. \A l \in 1 .. 4 : Untouched(s, l) => s.pt[l] = s.pt0[l]
      BY <2>6 DEF PassedTo
    <3> QED BY <1>4, <2>1, <2>3, <3>2, <3>3, <3>4 DEF Calm, Moved, SameWalk, Walking
  <2>7. WalkInv(c)
    BY <2>1, <2>2, <2>4, <2>5, <2>6 DEF WalkInv, Moved, SameWalk
  <2> QED BY <2>7 DEF c
<1>5. ASSUME Descend(s) = [s EXCEPT !.pc = "fault"], s.level = LeafOf(s), s.level = 4
      PROVE  WalkInv(Descend(s))
  <2> DEFINE c == Descend(s)
  <2>1. Moved(s, c, "fault", s.level) /\ c.restarts = s.restarts
    BY ONLY <1>1, <1>5, Zenon DEF WalkShape, WalkFields, Moved, SameWalk
  <2> HIDE DEF c
  <2>2. WalkTypes(c) /\ \A l \in 1 .. 4 : c.pt[l].ps = c.pt0[l].ps
    BY <1>1, <1>2, <2>1
  <2>3. LeafOf(c) = LeafOf(s) /\ Fresh(c) = Fresh(s)
    BY <2>1, MovedLaws DEF Moved
  <2>4. PlaceOf(c)
    BY <2>1, <2>2 DEF PlaceOf, Moved, SameWalk, Walking
  <2>5. CountOf(c)
    <3>1. Stale(c) = 0
      BY <2>1 DEF Stale, Moved, SameWalk
    <3> QED BY <1>1, <2>1, <2>3, <3>1 DEF CountOf, Moved, SameWalk
  <2>6. Calm(c)
    BY <1>5, <2>1, <2>3, Zenon DEF Calm, Moved, SameWalk, Walking
  <2>7. WalkInv(c)
    BY <2>1, <2>2, <2>4, <2>5, <2>6 DEF WalkInv, Moved, SameWalk
  <2> QED BY <2>7 DEF c
<1>6. ASSUME Descend(s) = [s EXCEPT !.pc = "read", !.level = s.level - 1], s.level > LeafOf(s)
      PROVE  WalkInv(Descend(s))
  <2> DEFINE c == Descend(s)
             k == s.level - 1
  <2>0. k \in LeafOf(s) .. Top(s.mode) /\ k \in 0 .. 4
    BY <1>1, <1>6
  <2> HIDE DEF k
  <2>1. Moved(s, c, "read", k) /\ c.restarts = s.restarts
    BY ONLY <1>1, <1>6, Zenon DEF WalkShape, WalkFields, Moved, SameWalk, k
  <2> HIDE DEF c
  <2>2. WalkTypes(c) /\ \A l \in 1 .. 4 : c.pt[l].ps = c.pt0[l].ps
    BY <1>1, <1>2, <2>0, <2>1, Zenon DEF Walking
  <2>3. /\ LeafOf(c) = LeafOf(s) /\ Fresh(c) = Fresh(s)
        /\ \A l : /\ Above(c, l) <=> Above(s, l)
                  /\ Untouched(c, l) <=> Untouched(s, l)
    BY <2>1, MovedLaws DEF Moved
  <2>4. PlaceOf(c)
    BY <2>0, <2>1, <2>2, <2>3 DEF PlaceOf, Moved, SameWalk
  <2>5. CountOf(c)
    <3>1. Stale(c) = 0
      BY <2>1 DEF Stale, Moved, SameWalk
    <3> QED BY <1>1, <2>1, <2>3, <3>1 DEF CountOf, Moved, SameWalk
  <2>6. ASSUME s.edits = 0 PROVE Calm(c)
    <3>1. \A l \in 1 .. Top(s.mode) : l > k => Above(s, l)
      <4>1. \A l \in 1 .. Top(s.mode) : l > k => l = s.level \/ l > s.level
        BY <1>1 DEF k
      <4> QED BY <2>6, <4>1 DEF PassedTo
    <3> QED BY <2>1, <2>3, <2>6, <3>1 DEF Calm, Moved, SameWalk, PassedTo
  <2>7. WalkInv(c)
    BY <2>1, <2>2, <2>4, <2>5, <2>6 DEF WalkInv, Moved, SameWalk
  <2> QED BY <2>7 DEF c
<1> QED BY <1>3, <1>4, <1>5, <1>6, DescendCases, Zenon

\* The rights of an entry do not depend on its accessed bit.
LEMMA DeniedMarked ==
  ASSUME NEW s, NEW e \in Entries
  PROVE  Denied(s, Marked(e)) <=> Denied(s, e)
<1>1. Marked(e).v = e.v /\ Marked(e).u = e.u /\ Marked(e).rw = e.rw
  BY EntryLaws, Zenon
<1> QED BY <1>1, Zenon DEF Denied

\* A translation starts.
LEMMA StartInv ==
  ASSUME PwInv, pw.pc = "idle", NEW mode \in Modes, NEW t \in Tables, NEW user \in BOOLEAN,
         NEW write \in BOOLEAN, NEW pc \in {"noncanonical", "done", "read"},
         pc = "done" => mode = "FLAT", pc = "read" => mode # "FLAT"
  PROVE  WalkInv([pw EXCEPT !.pc = pc, !.mode = mode, !.pt = t, !.pt0 = t, !.user = user,
                            !.write = write, !.level = Top(mode)])
<1> DEFINE c == [pw EXCEPT !.pc = pc, !.mode = mode, !.pt = t, !.pt0 = t, !.user = user,
                           !.write = write, !.level = Top(mode)]
<1>1. WalkShape(pw) /\ WalkTypes(pw) /\ pw.restarts = 0
  BY DEF PwInv, WalkInv, WalkTypes, PlaceOf
<1>2. /\ WalkShape(c) /\ c.pc = pc /\ c.mode = mode /\ c.pt = t /\ c.pt0 = t /\ c.user = user
      /\ c.write = write /\ c.level = Top(mode)
  BY ONLY <1>1, Zenon DEF WalkShape, WalkFields
<1>3. c.pte = pw.pte /\ c.restarts = pw.restarts /\ c.edits = pw.edits /\ c.clobbered = pw.clobbered
  BY ONLY <1>1, Zenon DEF WalkShape, WalkFields
<1>4. /\ t \in [1 .. 4 -> Entries] /\ Top(mode) \in 0 .. 4
      /\ mode # "FLAT" => LeafAt(mode, t) \in 1 .. Top(mode)
  BY WalkAssumption, LeafLaws
<1> HIDE DEF c
<1>5. WalkTypes(c)
  BY <1>1, <1>2, <1>3, <1>4 DEF WalkTypes, Walking
<1>6. PlaceOf(c)
  <2>1. c.pc \in Walking => c.mode # "FLAT" /\ c.level \in LeafOf(c) .. Top(c.mode)
    BY <1>2, <1>4 DEF Walking, LeafOf
  <2> QED BY <1>2, <2>1 DEF PlaceOf
<1>7. CountOf(c)
  <2>1. Stale(c) = 0 /\ Fresh(c) \in {0, 1}
    BY <1>2 DEF Stale, Fresh
  <2> QED BY <1>1, <1>3, <2>1 DEF CountOf, WalkTypes
<1>8. Calm(c)
  <2>1. \A l \in 1 .. Top(c.mode) : ~ (l > c.level)
    BY <1>2, <1>4
  <2> QED BY <1>2, <2>1 DEF Calm
<1>9. WalkInv(c)
  BY <1>5, <1>6, <1>7, <1>8 DEF WalkInv
<1> QED BY <1>9 DEF c

\* A level of the walk, and what it reads there.
LEMMA LevelLaws ==
  ASSUME PwInv, pw.pc \in Walking
  PROVE  /\ pw.level \in 1 .. 4 /\ pw.level \in LeafOf(pw) .. Top(pw.mode) /\ pw.mode # "FLAT"
         /\ LeafOf(pw) \in 1 .. Top(pw.mode) /\ Top(pw.mode) \in 0 .. 4
         /\ pw.pt[pw.level] \in Entries /\ pw.pt0[pw.level] \in Entries
         /\ pw.pt[pw.level].ps = pw.pt0[pw.level].ps
         /\ ~ Pdpte(pw.mode, LeafOf(pw))
         /\ Untouched(pw, pw.level) <=> Pdpte(pw.mode, pw.level)
<1>1. /\ WalkTypes(pw) /\ pw.mode # "FLAT" /\ pw.level \in LeafOf(pw) .. Top(pw.mode)
      /\ \A l \in 1 .. 4 : pw.pt[l].ps = pw.pt0[l].ps
  BY DEF PwInv, WalkInv, PlaceOf
<1>2. /\ LeafOf(pw) \in 1 .. Top(pw.mode) /\ Top(pw.mode) \in 0 .. 4
      /\ ~ Pdpte(pw.mode, LeafOf(pw))
  BY <1>1, LeafLaws DEF LeafOf, WalkTypes
<1>3. pw.level \in 1 .. 4
  BY <1>1, <1>2
<1>4. pw.pt[pw.level] \in Entries /\ pw.pt0[pw.level] \in Entries
  BY <1>1, <1>3 DEF WalkTypes
<1>5. Untouched(pw, pw.level) <=> Pdpte(pw.mode, pw.level)
  BY <1>1, <1>2, <1>3 DEF Untouched
<1> QED BY <1>1, <1>2, <1>3, <1>4, <1>5

\* The walk with the entry at its level in its hands.
ReadEntry(c) == SameWalk(pw, c) /\ c.level = pw.level /\ c.pte = pw.pt[pw.level] /\ c.restarts = pw.restarts

\* What reading an entry keeps, whatever comes next.
LEMMA ReadLaws ==
  ASSUME PwInv, pw.pc = "read", NEW c, ReadEntry(c),
         c.pc \in {"read", "fault", "accessed"}
  PROVE  /\ WalkTypes(c) /\ c.restarts + Fresh(c) <= 2 * c.edits + 1 /\ Stale(c) = 0
         /\ LeafOf(c) = LeafOf(pw) /\ Fresh(c) = Fresh(pw)
         /\ \A l : /\ Passes(c, l) <=> Passes(pw, l)
                   /\ Above(c, l) <=> Above(pw, l)
                   /\ Untouched(c, l) <=> Untouched(pw, l)
<1>1. /\ pw.pt[pw.level] \in Entries /\ WalkTypes(pw) /\ CountOf(pw)
  BY LevelLaws DEF PwInv, WalkInv, Walking
<1>2. WalkTypes(c)
  BY <1>1 DEF WalkTypes, ReadEntry, SameWalk, Walking
<1>3. /\ LeafOf(c) = LeafOf(pw) /\ Fresh(c) = Fresh(pw)
      /\ \A l : /\ Passes(c, l) <=> Passes(pw, l)
                /\ Above(c, l) <=> Above(pw, l)
                /\ Untouched(c, l) <=> Untouched(pw, l)
  BY MovedLaws DEF ReadEntry
<1>4. Stale(pw) = 0 /\ Stale(c) = 0
  BY DEF Stale, ReadEntry, SameWalk
<1>5. Fresh(pw) \in {0, 1}
  BY DEF Fresh
<1>6. c.restarts + Fresh(c) <= 2 * c.edits + 1
  BY <1>1, <1>3, <1>4, <1>5 DEF CountOf, ReadEntry, SameWalk, WalkTypes
<1> QED BY <1>2, <1>3, <1>4, <1>6

\* An undisturbed walk reads what was there, or what it has marked itself.
LEMMA CalmRead ==
  ASSUME PwInv, pw.pc = "read", pw.edits = 0
  PROVE  /\ \A l \in 1 .. 4 : /\ pw.pt[l] = pw.pt0[l] \/ pw.pt[l] = Marked(pw.pt0[l])
                              /\ Untouched(pw, l) => pw.pt[l] = pw.pt0[l]
         /\ \A l \in 1 .. Top(pw.mode) : l > pw.level => Above(pw, l)
         /\ Pdpte(pw.mode, pw.level) => pw.pt[pw.level] = pw.pt0[pw.level]
         /\ Denied(pw, pw.pt[pw.level]) <=> Denied(pw, pw.pt0[pw.level])
<1>1. /\ \A l \in 1 .. 4 : /\ pw.pt[l] = pw.pt0[l] \/ pw.pt[l] = Marked(pw.pt0[l])
                           /\ Untouched(pw, l) => pw.pt[l] = pw.pt0[l]
      /\ \A l \in 1 .. Top(pw.mode) : l > pw.level => Above(pw, l)
  BY DEF PwInv, WalkInv, Calm, Walking
<1>2. /\ pw.level \in 1 .. 4 /\ pw.pt0[pw.level] \in Entries
      /\ Untouched(pw, pw.level) <=> Pdpte(pw.mode, pw.level)
  BY LevelLaws DEF Walking
<1>3. Denied(pw, Marked(pw.pt0[pw.level])) <=> Denied(pw, pw.pt0[pw.level])
  BY <1>2, DeniedMarked
<1>4. pw.pt[pw.level] = pw.pt0[pw.level] \/ pw.pt[pw.level] = Marked(pw.pt0[pw.level])
  BY <1>1, <1>2
<1>5. Denied(pw, pw.pt[pw.level]) <=> Denied(pw, pw.pt0[pw.level])
  BY <1>3, <1>4, Zenon
<1> QED BY <1>1, <1>2, <1>5

\* The entry is read: its table is no memory, it refuses, its accessed bit is to
\* be set, or the walk goes on.
LEMMA ReadInv ==
  ASSUME PwInv, WalkRead
  PROVE  PwInv'
<1> DEFINE e == pw.pt[pw.level]
           s == [pw EXCEPT !.pte = e]
           f == [s EXCEPT !.pc = "fault"]
           a == [s EXCEPT !.pc = "accessed"]
           x == [pw EXCEPT !.pc = "error"]
<1>1. pw.pc = "read" /\ pw.pc \in Walking
  BY DEF WalkRead, Walking
<1>2. /\ pw.level \in 1 .. 4 /\ pw.level \in LeafOf(pw) .. Top(pw.mode) /\ pw.mode # "FLAT"
      /\ e \in Entries /\ pw.pt0[pw.level] \in Entries /\ e.ps = pw.pt0[pw.level].ps
      /\ LeafOf(pw) \in 1 .. Top(pw.mode) /\ Top(pw.mode) \in 0 .. 4
  BY <1>1, LevelLaws
<1>3. WalkTypes(pw) /\ WalkShape(pw) /\ CountOf(pw) /\ \A l \in 1 .. 4 : pw.pt[l].ps = pw.pt0[l].ps
  BY DEF PwInv, WalkInv, PlaceOf, WalkTypes
<1>4. ReadEntry(s) /\ s.pc = "read"
  BY ONLY <1>1, <1>3, Zenon DEF WalkShape, WalkFields, ReadEntry, SameWalk
<1>5. ReadEntry(f) /\ f.pc = "fault"
  BY ONLY <1>4, Zenon DEF WalkShape, WalkFields, ReadEntry, SameWalk
<1>6. ReadEntry(a) /\ a.pc = "accessed"
  BY ONLY <1>4, Zenon DEF WalkShape, WalkFields, ReadEntry, SameWalk
<1>7. Moved(pw, x, "error", pw.level) /\ x.restarts = pw.restarts
  BY ONLY <1>3, Zenon DEF WalkShape, WalkFields, Moved, SameWalk
<1>8. IsPdpte(pw.level) <=> Pdpte(pw.mode, pw.level)
  BY DEF IsPdpte, Pdpte
<1>9. Refused(e) <=> Denied(pw, e)
  BY DEF Refused, Denied
<1>10. \/ pw' = x
       \/ pw' = f /\ (IF Pdpte(pw.mode, pw.level) THEN ~ e.v ELSE Denied(pw, e))
       \/ pw' = a /\ ~ Pdpte(pw.mode, pw.level) /\ ~ Denied(pw, e) /\ ~ e.a
       \/ pw' = Descend(s) /\ (IF Pdpte(pw.mode, pw.level) THEN e.v ELSE ~ Denied(pw, e) /\ e.a)
  BY <1>8, <1>9, Zenon DEF WalkRead
<1> HIDE DEF e, s, f, a, x
<1>11. WalkInv(x)
  <2>1. /\ LeafOf(x) = LeafOf(pw) /\ Fresh(x) = Fresh(pw)
    BY <1>7, MovedLaws DEF Moved
  <2>2. WalkTypes(x)
    BY <1>3, <1>7 DEF WalkTypes, Moved, SameWalk
  <2>3. PlaceOf(x)
    BY <1>3, <1>7 DEF PlaceOf, Moved, SameWalk, Walking
  <2>4. CountOf(x)
    <3>1. Stale(x) = 0 /\ Stale(pw) = 0
      BY <1>1, <1>7 DEF Stale, Moved
    <3> QED BY <1>3, <1>7, <2>1, <3>1 DEF CountOf, Moved, SameWalk
  <2>5. Calm(x)
    BY <1>7 DEF Calm, Moved, Walking
  <2> QED BY <2>2, <2>3, <2>4, <2>5 DEF WalkInv
<1>12. ASSUME IF Pdpte(pw.mode, pw.level) THEN ~ e.v ELSE Denied(pw, e)
       PROVE  WalkInv(f)
  <2>1. /\ WalkTypes(f) /\ f.restarts + Fresh(f) <= 2 * f.edits + 1 /\ Stale(f) = 0
        /\ LeafOf(f) = LeafOf(pw) /\ Fresh(f) \in {0, 1}
        /\ \A l : Passes(f, l) <=> Passes(pw, l)
    BY <1>1, <1>5, ReadLaws DEF Fresh
  <2>2. PlaceOf(f)
    BY <1>3, <1>5 DEF PlaceOf, ReadEntry, SameWalk, Walking
  <2>3. CountOf(f)
    BY <2>1 DEF CountOf, WalkTypes
  <2>4. ASSUME f.edits = 0 PROVE Calm(f)
    <3>1. pw.edits = 0 /\ f.mode = pw.mode
      BY <1>5, <2>4 DEF ReadEntry, SameWalk
    <3>2. ~ Passes(pw, pw.level)
      BY <1>1, <1>12, <3>1, CalmRead DEF Passes, e
    <3> QED BY <1>2, <1>5, <2>1, <3>1, <3>2 DEF Calm, Walking
  <2> QED BY <2>1, <2>2, <2>3, <2>4 DEF WalkInv
<1>13. ASSUME ~ Pdpte(pw.mode, pw.level), ~ Denied(pw, e), ~ e.a
       PROVE  WalkInv(a)
  <2>1. /\ WalkTypes(a) /\ a.restarts + Fresh(a) <= 2 * a.edits + 1 /\ Stale(a) = 0
        /\ LeafOf(a) = LeafOf(pw) /\ Fresh(a) \in {0, 1}
        /\ \A l : /\ Above(a, l) <=> Above(pw, l)
                  /\ Untouched(a, l) <=> Untouched(pw, l)
    BY <1>1, <1>6, ReadLaws DEF Fresh
  <2>2. a.level = pw.level /\ a.pte = e /\ a.mode = pw.mode /\ a.pt = pw.pt /\ a.pt0 = pw.pt0
    BY <1>6 DEF ReadEntry, SameWalk, e
  <2>3. PlaceOf(a)
    BY <1>2, <1>3, <1>6, <1>13, <2>1, <2>2 DEF PlaceOf
  <2>4. CountOf(a)
    BY <2>1 DEF CountOf, WalkTypes
  <2>5. ASSUME a.edits = 0 PROVE Calm(a)
    <3>1. pw.edits = 0
      BY <1>6, <2>5 DEF ReadEntry, SameWalk
    <3>2. ~ Denied(pw, pw.pt0[pw.level])
      BY <1>1, <1>13, <3>1, CalmRead DEF e
    <3>3. ~ Denied(a, a.pt0[a.level])
      BY <1>6, <2>2, <3>2 DEF Denied, ReadEntry, SameWalk
    <3> QED BY <1>1, <1>6, <2>1, <2>2, <3>1, <3>3, CalmRead, Zenon DEF Calm, e
  <2> QED BY <2>1, <2>3, <2>4, <2>5 DEF WalkInv
<1>14. ASSUME IF Pdpte(pw.mode, pw.level) THEN e.v ELSE ~ Denied(pw, e) /\ e.a
       PROVE  WalkInv(Descend(s))
  <2>1. /\ WalkTypes(s) /\ s.restarts + Fresh(s) <= 2 * s.edits + 1
        /\ LeafOf(s) = LeafOf(pw) /\ Fresh(s) \in {0, 1}
        /\ \A l : /\ Passes(s, l) <=> Passes(pw, l)
                  /\ Above(s, l) <=> Above(pw, l)
                  /\ Untouched(s, l) <=> Untouched(pw, l)
    BY <1>1, <1>4, ReadLaws DEF Fresh
  <2>2. s.level = pw.level /\ s.pte = e /\ s.mode = pw.mode /\ s.pt = pw.pt /\ s.pt0 = pw.pt0 /\ s.edits = pw.edits
    BY <1>4 DEF ReadEntry, SameWalk, e
  <2>3. s.pt[s.level] = s.pte
    BY <2>2 DEF e
  <2>4. ASSUME s.edits = 0 PROVE PassedTo(s)
    <3>1. Above(pw, pw.level)
      <4>1. CASE Pdpte(pw.mode, pw.level)
        BY <1>1, <1>14, <2>2, <2>4, <4>1, CalmRead DEF Above, Passes, e
      <4>2. CASE ~ Pdpte(pw.mode, pw.level)
        <5>1. e = pw.pt0[pw.level] \/ e = Marked(pw.pt0[pw.level])
          BY <1>1, <1>2, <2>2, <2>4, CalmRead DEF e
        <5>2. e = Marked(pw.pt0[pw.level])
          <6>1. pw.pt0[pw.level].a => Marked(pw.pt0[pw.level]) = pw.pt0[pw.level]
            BY <1>2, EntryLaws, Zenon
          <6>2. e.a
            BY <1>14, <4>2
          <6> QED BY <5>1, <6>1, <6>2, Zenon
        <5>3. ~ Denied(pw, pw.pt0[pw.level])
          BY <1>1, <1>14, <2>2, <2>4, <4>2, CalmRead DEF e
        <5> QED BY <4>2, <5>2, <5>3 DEF Above, Passes, e
      <4> QED BY <4>1, <4>2
    <3> QED BY <1>1, <2>1, <2>2, <2>3, <2>4, <3>1, CalmRead DEF PassedTo
  <2>5. s.restarts + (IF s.level = LeafOf(s) /\ s.pt[s.level] # s.pte THEN 1 ELSE 0) + Fresh(s)
          <= 2 * s.edits + 1
    BY <2>1, <2>3 DEF WalkTypes
  <2> QED BY <1>2, <1>3, <2>1, <2>2, <2>4, <2>5, DescendInv
<1> QED BY <1>10, <1>11, <1>12, <1>13, <1>14 DEF PwInv

\* A failed compare and set: the entry read is no longer there, which is one of
\* the restarts to come.
LEMMA RestartInv ==
  ASSUME PwInv, pw.pc \in {"accessed", "dirty"}, pw.pt[pw.level] # pw.pte
  PROVE  WalkInv(Restart(pw))
<1> DEFINE c == Restart(pw)
<1>1. WalkTypes(pw) /\ WalkShape(pw) /\ CountOf(pw) /\ PlaceOf(pw) /\ pw.restarts \in Nat /\ pw.edits \in Nat
  BY DEF PwInv, WalkInv, WalkTypes
<1>2. /\ LeafOf(pw) \in 1 .. Top(pw.mode) /\ Top(pw.mode) \in 0 .. 4 /\ pw.mode # "FLAT"
  BY LevelLaws DEF Walking
<1>3. SameWalk(pw, c) /\ c.pc = "read" /\ c.level = Top(pw.mode) /\ c.pte = pw.pte /\ c.restarts = pw.restarts + 1
  BY ONLY <1>1, Zenon DEF WalkShape, WalkFields, SameWalk, Restart
<1> HIDE DEF c
<1>4. WalkTypes(c)
  BY <1>1, <1>2, <1>3 DEF WalkTypes, SameWalk, Walking
<1>5. /\ LeafOf(c) = LeafOf(pw) /\ Fresh(c) = Fresh(pw)
      /\ \A l : Untouched(c, l) <=> Untouched(pw, l)
  BY <1>3, MovedLaws
<1>6. PlaceOf(c)
  BY <1>1, <1>2, <1>3, <1>5 DEF PlaceOf, SameWalk
<1>7. CountOf(c)
  <2>1. Stale(c) = 0 /\ Stale(pw) = 1 /\ Fresh(pw) \in {0, 1}
    BY <1>3 DEF Stale, Fresh
  <2> QED BY <1>1, <1>3, <1>5, <2>1 DEF CountOf, SameWalk
<1>8. ASSUME c.edits = 0 PROVE Calm(c)
  <2>1. \A l \in 1 .. Top(c.mode) : ~ (l > c.level)
    BY <1>2, <1>3 DEF SameWalk
  <2>2. \A l \in 1 .. 4 : /\ c.pt[l] = c.pt0[l] \/ c.pt[l] = Marked(c.pt0[l])
                          /\ Untouched(c, l) => c.pt[l] = c.pt0[l]
    BY <1>3, <1>5, <1>8 DEF PwInv, WalkInv, Calm, Walking, SameWalk
  <2> QED BY <1>3, <2>1, <2>2 DEF Calm
<1>9. WalkInv(c)
  BY <1>4, <1>6, <1>7, <1>8 DEF WalkInv
<1> QED BY <1>9 DEF c

\* The tables with another entry at the level of the walk.
Stored(c, e) ==
  /\ WalkShape(c) /\ c.pt = [pw.pt EXCEPT ![pw.level] = e] /\ c.pt0 = pw.pt0 /\ c.mode = pw.mode
  /\ c.user = pw.user /\ c.write = pw.write /\ c.level = pw.level /\ c.pte = pw.pte
  /\ c.restarts = pw.restarts /\ c.edits = pw.edits /\ c.clobbered = pw.clobbered

\* What a store leaves alone.
LEMMA StoredLaws ==
  ASSUME PwInv, pw.pc \in Walking, NEW c, NEW e \in Entries, e.ps = pw.pt0[pw.level].ps, Stored(c, e),
         c.pc \in Walking \cup {"done"}
  PROVE  /\ WalkTypes(c) /\ \A l \in 1 .. 4 : c.pt[l].ps = c.pt0[l].ps
         /\ LeafOf(c) = LeafOf(pw) /\ c.pt[pw.level] = e
         /\ \A l \in 1 .. 4 : l # pw.level => c.pt[l] = pw.pt[l]
         /\ \A l : Passes(c, l) <=> Passes(pw, l)
         /\ \A l : Untouched(c, l) <=> Untouched(pw, l)
         /\ \A l \in 1 .. 4 : l # pw.level => (Above(c, l) <=> Above(pw, l))
<1>1. WalkTypes(pw) /\ pw.level \in 1 .. 4 /\ \A l \in 1 .. 4 : pw.pt[l].ps = pw.pt0[l].ps
  BY LevelLaws DEF PwInv, WalkInv, PlaceOf
<1>2. c.pt \in [1 .. 4 -> Entries] /\ c.pt[pw.level] = e /\ \A l \in 1 .. 4 : l # pw.level => c.pt[l] = pw.pt[l]
  BY <1>1 DEF Stored, WalkTypes
<1>3. WalkTypes(c)
  BY <1>1, <1>2 DEF Stored, WalkTypes
<1>4. \A l \in 1 .. 4 : c.pt[l].ps = c.pt0[l].ps
  BY <1>1, <1>2 DEF Stored
<1>5. LeafOf(c) = LeafOf(pw)
  BY DEF LeafOf, Stored
<1>6. \A x : Denied(c, x) <=> Denied(pw, x)
  BY DEF Denied, Stored
<1>7. \A l : Passes(c, l) <=> Passes(pw, l)
  BY <1>6 DEF Passes, Stored
<1>8. \A l : Untouched(c, l) <=> Untouched(pw, l)
  BY <1>5 DEF Untouched, Stored
<1>9. \A l \in 1 .. 4 : l # pw.level => (Above(c, l) <=> Above(pw, l))
  BY <1>2, <1>7 DEF Above, Stored
<1> QED BY <1>2, <1>3, <1>4, <1>5, <1>7, <1>8, <1>9

\* The accessed bit is set.
LEMMA SetAccessedInv ==
  ASSUME PwInv, SetAccessed
  PROVE  PwInv'
<1> DEFINE s == [pw EXCEPT !.pt[pw.level] = Marked(pw.pte)]
<1>1. pw.pc = "accessed" /\ pw.pc \in Walking
  BY DEF SetAccessed, Walking
<1>2. /\ pw.level \in 1 .. 4 /\ pw.level \in LeafOf(pw) .. Top(pw.mode) /\ pw.mode # "FLAT"
      /\ pw.pt0[pw.level] \in Entries /\ LeafOf(pw) \in 1 .. Top(pw.mode) /\ Top(pw.mode) \in 0 .. 4
      /\ Untouched(pw, pw.level) <=> Pdpte(pw.mode, pw.level)
  BY <1>1, LevelLaws
<1>3. /\ WalkTypes(pw) /\ WalkShape(pw) /\ CountOf(pw) /\ pw.pte \in Entries
      /\ pw.pte.ps = pw.pt0[pw.level].ps /\ ~ pw.pte.a /\ ~ Pdpte(pw.mode, pw.level)
  BY <1>1 DEF PwInv, WalkInv, PlaceOf, WalkTypes
<1>4. CASE pw.pt[pw.level] = pw.pte
  <2>1. pw' = Descend(s)
    BY <1>4 DEF SetAccessed, cmpset, Marked
  <2>2. Stored(s, Marked(pw.pte)) /\ s.pc = pw.pc
    BY ONLY <1>3, Zenon DEF WalkShape, WalkFields, Stored
  <2> HIDE DEF s
  <2>3. Marked(pw.pte) \in Entries /\ Marked(pw.pte).a /\ Marked(pw.pte).ps = pw.pt0[pw.level].ps
    BY <1>3, EntryLaws, Zenon
  <2>4. /\ WalkTypes(s) /\ \A l \in 1 .. 4 : s.pt[l].ps = s.pt0[l].ps
        /\ LeafOf(s) = LeafOf(pw) /\ s.pt[pw.level] = Marked(pw.pte)
        /\ \A l \in 1 .. 4 : l # pw.level => s.pt[l] = pw.pt[l]
        /\ \A l : Passes(s, l) <=> Passes(pw, l)
        /\ \A l : Untouched(s, l) <=> Untouched(pw, l)
        /\ \A l \in 1 .. 4 : l # pw.level => (Above(s, l) <=> Above(pw, l))
    BY <1>1, <2>2, <2>3, StoredLaws
  <2>5. /\ s.mode = pw.mode /\ s.level = pw.level /\ s.pte = pw.pte /\ s.pt0 = pw.pt0
        /\ s.restarts = pw.restarts /\ s.edits = pw.edits
    BY <2>2 DEF Stored
  <2>6. Marked(pw.pte) # pw.pte
    BY <1>3, <2>3, Zenon
  <2>7. s.restarts + (IF s.level = LeafOf(s) /\ s.pt[s.level] # s.pte THEN 1 ELSE 0) + Fresh(s)
          <= 2 * s.edits + 1
    <3>1. Stale(pw) = 0
      BY <1>4 DEF Stale
    <3>2. pw.restarts \in Nat /\ pw.edits \in Nat
      BY <1>3 DEF WalkTypes
    <3>3. CASE pw.level = LeafOf(pw)
      <4>1. Fresh(pw) = 1
        BY <1>3, <1>4, <3>3 DEF Fresh
      <4>2. Fresh(s) = 0
        BY <2>3, <2>4, <3>3 DEF Fresh
      <4> QED BY <1>3, <2>4, <2>5, <2>6, <3>1, <3>2, <3>3, <4>1, <4>2 DEF CountOf
    <3>4. CASE pw.level # LeafOf(pw)
      <4>1. LeafOf(pw) \in 1 .. 4
        BY <1>2
      <4>2. Fresh(s) = Fresh(pw) /\ Fresh(pw) \in {0, 1}
        BY <2>4, <3>4, <4>1 DEF Fresh
      <4> QED BY <1>3, <2>4, <2>5, <3>1, <3>2, <3>4, <4>2 DEF CountOf
    <3> QED BY <3>3, <3>4
  <2>8. ASSUME s.edits = 0 PROVE PassedTo(s)
    <3>1. /\ \A l \in 1 .. 4 : /\ pw.pt[l] = pw.pt0[l] \/ pw.pt[l] = Marked(pw.pt0[l])
                               /\ Untouched(pw, l) => pw.pt[l] = pw.pt0[l]
          /\ \A l \in 1 .. Top(pw.mode) : l > pw.level => Above(pw, l)
          /\ ~ Denied(pw, pw.pt0[pw.level])
      BY <1>1, <2>5, <2>8 DEF PwInv, WalkInv, Calm
    <3>2. pw.pte = pw.pt0[pw.level]
      <4>1. Marked(pw.pt0[pw.level]).a
        BY <1>2, EntryLaws, Zenon
      <4>2. pw.pte = pw.pt0[pw.level] \/ pw.pte = Marked(pw.pt0[pw.level])
        BY <1>2, <1>4, <3>1
      <4> QED BY <1>3, <4>1, <4>2, Zenon
    <3>3. Above(s, s.level)
      <4>1. Passes(pw, pw.level)
        BY <1>3, <3>1 DEF Passes
      <4> QED BY <2>4, <2>5, <3>2, <4>1 DEF Above
    <3>4. \A l \in 1 .. 4 : /\ s.pt[l] = s.pt0[l] \/ s.pt[l] = Marked(s.pt0[l])
                            /\ Untouched(s, l) => s.pt[l] = s.pt0[l]
      <4> SUFFICES ASSUME NEW l \in 1 .. 4
                   PROVE  /\ s.pt[l] = s.pt0[l] \/ s.pt[l] = Marked(s.pt0[l])
                          /\ Untouched(s, l) => s.pt[l] = s.pt0[l]
        OBVIOUS
      <4>1. CASE l = pw.level
        BY <1>2, <1>3, <2>4, <2>5, <3>2, <4>1
      <4>2. CASE l # pw.level
        BY <2>4, <2>5, <3>1, <4>2
      <4> QED BY <4>1, <4>2
    <3>5. \A l \in 1 .. Top(s.mode) : l > s.level => Above(s, l)
      <4>1. \A l \in 1 .. Top(s.mode) : l > s.level => l \in 1 .. 4 /\ l # pw.level
        BY <1>2, <2>5
      <4> QED BY <2>4, <2>5, <3>1, <4>1
    <3> QED BY <2>5, <3>2, <3>3, <3>4, <3>5 DEF PassedTo
  <2>9. WalkInv(Descend(s))
    BY <1>2, <1>3, <2>4, <2>5, <2>7, <2>8, DescendInv, Zenon
  <2> QED BY <2>1, <2>9 DEF PwInv
<1>5. CASE pw.pt[pw.level] # pw.pte
  <2>1. pw' = Restart(pw)
    BY <1>5 DEF SetAccessed, cmpset
  <2> QED BY <1>1, <1>5, <2>1, RestartInv DEF PwInv
<1> QED BY <1>4, <1>5

\* The dirty bit is set, and the translation is done.
LEMMA SetDirtyInv ==
  ASSUME PwInv, SetDirty
  PROVE  PwInv'
<1> DEFINE r == [pw EXCEPT !.pt[pw.level] = Dirtied(pw.pte)]
           s == [r EXCEPT !.pc = "done"]
<1>1. pw.pc = "dirty" /\ pw.pc \in Walking
  BY DEF SetDirty, Walking
<1>2. /\ pw.level \in 1 .. 4 /\ pw.mode # "FLAT" /\ ~ Pdpte(pw.mode, pw.level)
      /\ LeafOf(pw) \in 1 .. Top(pw.mode) /\ Top(pw.mode) \in 0 .. 4
      /\ pw.level = LeafOf(pw) /\ LeafOf(pw) # 4
  BY <1>1, LevelLaws, Zenon DEF PwInv, WalkInv, PlaceOf
<1>3. /\ WalkTypes(pw) /\ WalkShape(pw) /\ CountOf(pw) /\ pw.pte \in Entries
      /\ pw.pte.ps = pw.pt0[pw.level].ps
  BY <1>1 DEF PwInv, WalkInv, PlaceOf, WalkTypes
<1>4. CASE pw.pt[pw.level] = pw.pte
  <2>1. pw' = s
    BY <1>4 DEF SetDirty, cmpset, Dirtied
  <2>2. Stored(s, Dirtied(pw.pte)) /\ s.pc = "done"
    <3>1. Stored(r, Dirtied(pw.pte))
      BY ONLY <1>3, Zenon DEF WalkShape, WalkFields, Stored
    <3> HIDE DEF r
    <3> QED BY ONLY <3>1, Zenon DEF WalkShape, WalkFields, Stored
  <2> HIDE DEF s
  <2>3. Dirtied(pw.pte) \in Entries /\ Dirtied(pw.pte).a = pw.pte.a /\ Dirtied(pw.pte).ps = pw.pt0[pw.level].ps
    BY <1>3, EntryLaws, Zenon
  <2>4. /\ WalkTypes(s) /\ \A l \in 1 .. 4 : s.pt[l].ps = s.pt0[l].ps
        /\ LeafOf(s) = LeafOf(pw) /\ s.pt[pw.level] = Dirtied(pw.pte)
        /\ \A l \in 1 .. 4 : l # pw.level => s.pt[l] = pw.pt[l]
        /\ \A l : Passes(s, l) <=> Passes(pw, l)
        /\ \A l : Untouched(s, l) <=> Untouched(pw, l)
    BY <1>1, <2>2, <2>3, StoredLaws
  <2>5. /\ s.mode = pw.mode /\ s.level = pw.level /\ s.pt0 = pw.pt0 /\ s.write = pw.write
        /\ s.restarts = pw.restarts /\ s.edits = pw.edits
    BY <2>2 DEF Stored
  <2>6. PlaceOf(s)
    BY <2>2, <2>4 DEF PlaceOf, Walking
  <2>7. CountOf(s)
    <3>1. Stale(s) = 0 /\ Stale(pw) = 0
      BY <1>4, <2>2 DEF Stale
    <3>2. Fresh(s) = Fresh(pw)
      BY <1>2, <1>4, <2>3, <2>4 DEF Fresh
    <3> QED BY <1>3, <2>5, <3>1, <3>2 DEF CountOf
  <2>8. ASSUME s.edits = 0 PROVE Calm(s)
    <3>1. /\ \A l \in 1 .. 4 : Untouched(pw, l) => pw.pt[l] = pw.pt0[l]
          /\ \A l \in 1 .. Top(pw.mode) : l > pw.level => Above(pw, l)
          /\ Above(pw, pw.level) /\ pw.write
      BY <1>1, <2>5, <2>8, Zenon DEF PwInv, WalkInv, Calm
    <3>2. \A l \in LeafOf(pw) .. Top(pw.mode) : Above(pw, l)
      <4>1. \A l \in LeafOf(pw) .. Top(pw.mode) : l \in 1 .. Top(pw.mode) /\ (l = pw.level \/ l > pw.level)
        BY <1>2
      <4> QED BY <3>1, <4>1
    <3>3. \A l \in LeafOf(s) .. Top(s.mode) : Passes(s, l)
      BY <2>4, <2>5, <3>2, Zenon DEF Above
    <3>4. ASSUME NEW l \in 1 .. 4
          PROVE  IF Untouched(s, l) THEN s.pt[l] = s.pt0[l]
                 ELSE s.pt[l] = IF l = LeafOf(s) /\ s.write THEN Dirtied(Marked(s.pt0[l])) ELSE Marked(s.pt0[l])
      <4>1. CASE l = pw.level
        <5>1. ~ Untouched(s, l)
          BY <1>2, <2>4, <4>1 DEF Untouched
        <5>2. pw.pte = Marked(pw.pt0[l])
          BY <1>2, <1>4, <3>1, <4>1 DEF Above
        <5> QED BY <1>2, <2>4, <2>5, <3>1, <4>1, <5>1, <5>2
      <4>2. CASE l # pw.level /\ Untouched(pw, l)
        BY <2>4, <2>5, <3>1, <4>2
      <4>3. CASE l # pw.level /\ ~ Untouched(pw, l)
        <5>1. pw.pt[l] = Marked(pw.pt0[l])
          BY <1>2, <3>2, <4>3 DEF Untouched, Above
        <5> QED BY <1>2, <2>4, <2>5, <4>3, <5>1
      <4> QED BY <4>1, <4>2, <4>3
    <3> QED BY <1>2, <2>2, <2>4, <2>5, <3>3, <3>4, Zenon DEF Calm, Walking
  <2>9. WalkInv(s)
    BY <2>4, <2>6, <2>7, <2>8 DEF WalkInv
  <2> QED BY <2>1, <2>9 DEF PwInv
<1>5. CASE pw.pt[pw.level] # pw.pte
  <2>1. pw' = Restart(pw)
    BY <1>5 DEF SetDirty, cmpset
  <2> QED BY <1>1, <1>5, <2>1, RestartInv DEF PwInv
<1> QED BY <1>4, <1>5

\* The entries that another vcpu may store are entries, of the same page size.
LEMMA EditedEntry ==
  ASSUME NEW o \in Entries,
         NEW e \in {[o EXCEPT !.frame = 1], [o EXCEPT !.frame = Outside], [o EXCEPT !.v = FALSE],
                    [o EXCEPT !.rw = FALSE], [o EXCEPT !.a = FALSE, !.d = FALSE]}
  PROVE  e \in Entries /\ e.ps = o.ps
<1>1. [o EXCEPT !.frame = 1] \in Entries /\ [o EXCEPT !.frame = Outside] \in Entries
  BY DEF Entries, Outside
<1>2. [o EXCEPT !.v = FALSE] \in Entries /\ [o EXCEPT !.rw = FALSE] \in Entries
  BY Zenon DEF Entries
<1>3. [o EXCEPT !.a = FALSE, !.d = FALSE] \in Entries
  BY Zenon DEF Entries
<1>4. e \in Entries
  BY <1>1, <1>2, <1>3, Zenon
<1>5. /\ [o EXCEPT !.frame = 1].ps = o.ps /\ [o EXCEPT !.frame = Outside].ps = o.ps
      /\ [o EXCEPT !.v = FALSE].ps = o.ps /\ [o EXCEPT !.rw = FALSE].ps = o.ps
      /\ [o EXCEPT !.a = FALSE, !.d = FALSE].ps = o.ps
  BY DEF Entries
<1>6. e.ps = o.ps
  BY <1>5, Zenon
<1> QED BY <1>4, <1>6

\* Another vcpu changes an entry, which is worth two restarts.
LEMMA OtherVcpuInv ==
  ASSUME PwInv, NEW l \in 1 .. Top(pw.mode), OtherVcpu(l)
  PROVE  PwInv'
<1>1. pw.pc \in Walking
  BY DEF OtherVcpu, Walking
<1>2. /\ WalkTypes(pw) /\ WalkShape(pw) /\ CountOf(pw) /\ PlaceOf(pw) /\ l \in 1 .. 4
      /\ pw.restarts \in Nat /\ pw.edits \in Nat
  <2>1. Top(pw.mode) \in 0 .. 4
    BY <1>1, LevelLaws
  <2>2. l \in 1 .. 4
    BY <2>1
  <2> QED BY <2>2, Zenon DEF PwInv, WalkInv, WalkTypes
<1>3. pw.pt[l] \in Entries
  BY <1>2 DEF WalkTypes
<1>4. PICK e \in {[pw.pt[l] EXCEPT !.frame = 1], [pw.pt[l] EXCEPT !.frame = Outside], [pw.pt[l] EXCEPT !.v = FALSE],
                  [pw.pt[l] EXCEPT !.rw = FALSE], [pw.pt[l] EXCEPT !.a = FALSE, !.d = FALSE]} :
        pw' = [pw EXCEPT !.pt[l] = e, !.edits = @ + 1]
  BY Zenon DEF OtherVcpu
<1>5. e \in Entries /\ e.ps = pw.pt[l].ps
  BY <1>3, <1>4, EditedEntry, Zenon
<1>6. /\ WalkShape(pw') /\ pw'.pt = [pw.pt EXCEPT ![l] = e] /\ pw'.edits = pw.edits + 1 /\ pw'.pc = pw.pc
      /\ pw'.pt0 = pw.pt0 /\ pw'.mode = pw.mode /\ pw'.user = pw.user /\ pw'.write = pw.write
  BY ONLY <1>2, <1>4, Zenon DEF WalkShape, WalkFields
<1>7. /\ pw'.level = pw.level /\ pw'.pte = pw.pte /\ pw'.restarts = pw.restarts /\ pw'.clobbered = pw.clobbered
  BY ONLY <1>2, <1>4, Zenon DEF WalkShape, WalkFields
<1> DEFINE c == pw'
<1>8. WalkTypes(c)
  BY <1>2, <1>5, <1>6, <1>7 DEF WalkTypes
<1>9. \A k \in 1 .. 4 : c.pt[k].ps = c.pt0[k].ps
  <2>1. \A k \in 1 .. 4 : c.pt[k] = IF k = l THEN e ELSE pw.pt[k]
    BY <1>2, <1>6 DEF WalkTypes
  <2> QED BY <1>2, <1>5, <1>6, <2>1 DEF PlaceOf
<1>10. LeafOf(c) = LeafOf(pw)
  BY <1>6 DEF LeafOf
<1>11. PlaceOf(c)
  BY <1>1, <1>2, <1>6, <1>7, <1>9, <1>10 DEF PlaceOf, Walking
<1>12. CountOf(c)
  <2>1. Stale(pw) \in {0, 1} /\ Fresh(pw) \in {0, 1} /\ Stale(c) \in {0, 1} /\ Fresh(c) \in {0, 1}
    BY DEF Stale, Fresh
  <2> QED BY <1>2, <1>6, <1>7, <2>1 DEF CountOf
<1>13. c.edits # 0
  BY <1>2, <1>6
<1>14. WalkInv(c)
  BY <1>8, <1>11, <1>12, <1>13 DEF WalkInv
<1> QED BY <1>14 DEF PwInv

\* Before the first translation.
LEMMA WalkInitInv ==
  ASSUME WalkInit
  PROVE  PwInv
<1>1. WalkShape(pw)
  BY Zenon DEF WalkInit, WalkShape, WalkFields
<1>2. /\ pw.pc = "idle" /\ pw.mode = "FLAT" /\ pw.user = FALSE /\ pw.write = FALSE /\ pw.level = 0
      /\ pw.restarts = 0 /\ pw.edits = 0 /\ pw.clobbered = FALSE /\ pw.pt = pw.pt0
      /\ pw.pt = [l \in 1 .. 4 |-> Entry(TRUE, TRUE, TRUE, FALSE)] /\ pw.pte = Entry(FALSE, FALSE, FALSE, FALSE)
  BY DEF WalkInit
<1>3. Entry(TRUE, TRUE, TRUE, FALSE) \in Entries /\ Entry(FALSE, FALSE, FALSE, FALSE) \in Entries
  BY DEF Entry, Entries
<1>4. WalkTypes(pw)
  <2>1. pw.pt \in [1 .. 4 -> Entries] /\ pw.pt0 \in [1 .. 4 -> Entries] /\ pw.pte \in Entries
    BY <1>2, <1>3, Zenon
  <2>2. pw.user \in BOOLEAN /\ pw.write \in BOOLEAN
    BY <1>2, Zenon
  <2>3. pw.mode \in Modes /\ pw.level \in 0 .. 4 /\ pw.restarts \in Nat /\ pw.edits \in Nat
    BY <1>2 DEF Modes
  <2> QED BY <1>1, <1>2, <2>1, <2>2, <2>3, Zenon DEF WalkTypes
<1>5. PlaceOf(pw)
  BY <1>2 DEF PlaceOf, Walking
<1>6. CountOf(pw)
  <2>1. Stale(pw) = 0 /\ Fresh(pw) \in {0, 1}
    BY <1>2 DEF Stale, Fresh
  <2> QED BY <1>2, <2>1 DEF CountOf
<1>7. Calm(pw)
  BY <1>2 DEF Calm, Walking
<1> QED BY <1>4, <1>5, <1>6, <1>7 DEF PwInv, WalkInv

\* The invariant gives what the processor would do.
LEMMA WalkInvSound ==
  ASSUME PwInv
  PROVE  WalkSound
<1>1. /\ WalkTypes(pw) /\ CountOf(pw) /\ (pw.edits = 0 => Calm(pw)) /\ pw.restarts \in Nat /\ pw.edits \in Nat
      /\ pw.pt \in [1 .. 4 -> Entries] /\ pw.pt0 \in [1 .. 4 -> Entries]
  BY DEF PwInv, WalkInv, WalkTypes
<1>2. \A l : IsPdpte(l) <=> Pdpte(pw.mode, l)
  BY DEF IsPdpte, Pdpte
<1>3. Leaf(pw.pt0) = LeafOf(pw)
  <2> DEFINE large == {l \in 2 .. Top(pw.mode) : pw.pt0[l].ps /\ ~ IsPdpte(l)}
             Last(L) == IF L = {} THEN 1 ELSE CHOOSE l \in L : \A k \in L : k <= l
  <2>1. large = LargeAt(pw.mode, pw.pt0)
    BY <1>2 DEF LargeAt
  <2>2. Leaf(pw.pt0) = Last(large)
    BY DEF Leaf
  <2>3. LeafOf(pw) = Last(LargeAt(pw.mode, pw.pt0))
    BY DEF LeafOf, LeafAt
  <2> HIDE DEF large, Last
  <2> QED BY <2>1, <2>2, <2>3
<1>4. Permitted(pw.pt0) <=> LeafOf(pw) # 4 /\ \A l \in LeafOf(pw) .. Top(pw.mode) : Passes(pw, l)
  <2>1. \A x : Refused(x) <=> Denied(pw, x)
    BY DEF Refused, Denied
  <2> QED BY <1>2, <1>3, <2>1 DEF Permitted, Passes
<1>5. pw.restarts <= 2 * pw.edits + 1
  <2>1. Stale(pw) \in {0, 1} /\ Fresh(pw) \in {0, 1}
    BY DEF Stale, Fresh
  <2> QED BY <1>1, <2>1 DEF CountOf
<1>6. ASSUME pw.edits = 0, pw.mode # "FLAT", pw.pc \in {"done", "fault"}
      PROVE  (pw.pc = "done") = Permitted(pw.pt0)
  <2>1. CASE pw.pc = "done"
    <3>1. Permitted(pw.pt0)
      BY <1>1, <1>4, <1>6, <2>1 DEF Calm
    <3> QED BY <2>1, <3>1, Zenon DEF Permitted
  <2>2. CASE pw.pc = "fault"
    <3>1. ~ Permitted(pw.pt0)
      BY <1>1, <1>4, <1>6, <2>2, Zenon DEF Calm
    <3> QED BY <2>2, <3>1, Zenon DEF Permitted
  <2> QED BY <1>6, <2>1, <2>2
<1>7. ASSUME pw.edits = 0, pw.pc = "done"
      PROVE  pw.pt = [l \in 1 .. 4 |->
                  IF l < Leaf(pw.pt0) \/ l > Top(pw.mode) \/ IsPdpte(l) THEN pw.pt0[l]
                  ELSE [pw.pt0[l] EXCEPT !.a = TRUE, !.d = @ \/ (l = Leaf(pw.pt0) /\ pw.write)]]
  <2>1. ASSUME NEW l \in 1 .. 4
        PROVE  pw.pt[l] = IF l < Leaf(pw.pt0) \/ l > Top(pw.mode) \/ IsPdpte(l) THEN pw.pt0[l]
                          ELSE [pw.pt0[l] EXCEPT !.a = TRUE, !.d = @ \/ (l = Leaf(pw.pt0) /\ pw.write)]
    <3>1. CASE pw.mode = "FLAT"
      <4>1. Top(pw.mode) = 0
        BY <3>1 DEF Top
      <4>2. pw.pt = pw.pt0
        BY <1>1, <1>7, <3>1 DEF Calm
      <4> QED BY <4>1, <4>2
    <3>2. CASE pw.mode # "FLAT"
      <4>1. IF Untouched(pw, l) THEN pw.pt[l] = pw.pt0[l]
            ELSE pw.pt[l] = IF l = LeafOf(pw) /\ pw.write THEN Dirtied(Marked(pw.pt0[l])) ELSE Marked(pw.pt0[l])
        BY <1>1, <1>7, <3>2 DEF Calm
      <4>2. Untouched(pw, l) <=> (l < Leaf(pw.pt0) \/ l > Top(pw.mode) \/ IsPdpte(l))
        BY <1>2, <1>3, Zenon DEF Untouched
      <4>3. ASSUME NEW x \in Entries, NEW b \in BOOLEAN
            PROVE  [x EXCEPT !.a = TRUE, !.d = @ \/ b] = IF b THEN Dirtied(Marked(x)) ELSE Marked(x)
        <5>1. [x EXCEPT !.a = TRUE, !.d = @ \/ TRUE] = [x EXCEPT !.a = TRUE, !.d = TRUE]
          BY Zenon DEF Entries
        <5>2. [x EXCEPT !.a = TRUE, !.d = @ \/ FALSE] = Marked(x)
          BY Zenon DEF Entries, Marked
        <5>3. CASE b = TRUE
          BY <5>1, <5>3, EntryLaws, Zenon
        <5>4. CASE b = FALSE
          BY <5>2, <5>4, Zenon
        <5> QED BY <5>3, <5>4, Zenon
      <4>4. pw.pt0[l] \in Entries /\ (l = LeafOf(pw) /\ pw.write) \in BOOLEAN
        BY <1>1
      <4>5. [pw.pt0[l] EXCEPT !.a = TRUE, !.d = @ \/ (l = LeafOf(pw) /\ pw.write)]
              = IF l = LeafOf(pw) /\ pw.write THEN Dirtied(Marked(pw.pt0[l])) ELSE Marked(pw.pt0[l])
        BY <4>3, <4>4, Zenon
      <4> QED BY <1>3, <4>1, <4>2, <4>5, Zenon
    <3> QED BY <3>1, <3>2
  <2> DEFINE G(l) == IF l < Leaf(pw.pt0) \/ l > Top(pw.mode) \/ IsPdpte(l) THEN pw.pt0[l]
                     ELSE [pw.pt0[l] EXCEPT !.a = TRUE, !.d = @ \/ (l = Leaf(pw.pt0) /\ pw.write)]
  <2>2. \A l \in 1 .. 4 : pw.pt[l] = G(l)
    BY <2>1, Zenon
  <2> HIDE DEF G
  <2>3. pw.pt = [l \in 1 .. 4 |-> G(l)]
    BY <1>1, <2>2
  <2> QED BY <2>3 DEF G
<1> QED BY <1>1, <1>5, <1>6, <1>7 DEF WalkSound, WalkTypes

\* For all tables, modes and rights, and however many changes the other vcpus
\* make: the walk of vm_gla2gpa never overwrites one, starts again at most twice
\* for each and once for itself, and undisturbed does what the processor would.
THEOREM WalkCorrect == WalkSpec => []WalkSound
<1>1. WalkInit => PwInv
  BY WalkInitInv
<1>2. PwInv /\ [WalkNext]_pw => PwInv'
  <2> SUFFICES ASSUME PwInv, [WalkNext]_pw PROVE PwInv'
    OBVIOUS
  <2>1. CASE UNCHANGED pw
    BY <2>1 DEF PwInv
  <2>2. ASSUME NEW mode \in Modes, NEW t \in Tables, NEW user \in BOOLEAN, NEW write \in BOOLEAN,
               NEW canonical \in BOOLEAN, vm_gla2gpa(mode, t, user, write, canonical \/ mode # "64")
        PROVE  PwInv'
    <3> DEFINE pc == IF ~ (canonical \/ mode # "64") THEN "noncanonical" ELSE IF mode = "FLAT" THEN "done" ELSE "read"
    <3>1. pw.pc = "idle" /\ pc \in {"noncanonical", "done", "read"} /\ (pc = "done" => mode = "FLAT")
          /\ (pc = "read" => mode # "FLAT")
      BY <2>2 DEF vm_gla2gpa
    <3>2. pw' = [pw EXCEPT !.pc = pc, !.mode = mode, !.pt = t, !.pt0 = t, !.user = user,
                           !.write = write, !.level = Top(mode)]
      BY <2>2 DEF vm_gla2gpa
    <3> HIDE DEF pc
    <3>3. WalkInv(pw')
      BY <3>1, <3>2, StartInv, Zenon
    <3> QED BY <3>3 DEF PwInv
  <2>3. CASE WalkRead
    BY <2>3, ReadInv
  <2>4. CASE SetAccessed
    BY <2>4, SetAccessedInv
  <2>5. CASE SetDirty
    BY <2>5, SetDirtyInv
  <2>6. ASSUME NEW l \in 1 .. Top(pw.mode), OtherVcpu(l) PROVE PwInv'
    BY <2>6, OtherVcpuInv
  <2> QED BY <2>1, <2>2, <2>3, <2>4, <2>5, <2>6, Zenon DEF WalkNext
<1>3. PwInv => WalkSound
  BY WalkInvSound
<1> QED BY <1>1, <1>2, <1>3, PTL DEF WalkSpec
=============================================================================
