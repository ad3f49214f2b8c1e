------------------------------ MODULE VcpuRun ------------------------------
(***************************************************************************)
(* The life of the virtual cpus: the vcpu threads of src/hyperkit.c        *)
(* (vcpu_loop, spin-up of the application processors, the end of the       *)
(* process) and the run loop of src/lib/vmm/vmm.c and intel/vmx.c that     *)
(* they drive: halt, rendezvous, suspend, pause and the delivery of events.*)
(*                                                                         *)
(* A critical section of a vcpu lock, of rendezvous_mtx or of hv_pause_mtx *)
(* is one action, cut where it waits on a condition variable.  A guest     *)
(* exit is the guest's choice of exit code; hv_vcpu_interrupt forces one.  *)
(* The process ends in exit() or in a failed assertion (died).  Ghost      *)
(* state: owed, the vcpus that have not yet run the function of the        *)
(* rendezvous a vcpu started.                                              *)
(***************************************************************************)
EXTENDS Integers, FiniteSets

CONSTANTS NCPU,           \* guest_ncpus
          MaxRendezvous,  \* rendezvous the guest starts
          MaxEvents,      \* NMIs and interrupts sent to the vcpus
          EventKinds,     \* of {"nmi", "intr"}
          MaxPauses,      \* SIGUSR1s received
          Exits,          \* the exits the guest makes
          NoVcpu

ASSUME VcpuAssumption ==
  /\ NCPU \in Nat \ {0} /\ NoVcpu \notin 0 .. NCPU - 1
  /\ EventKinds \subseteq {"nmi", "intr"}
  /\ Exits \subseteq {"BOGUS", "HLT", "HALT", "KERNEL", "USER", "IOAPIC"}

VARIABLES active_cpus, suspended_cpus, halted_cpus, suspend,
          rendezvous_func,      \* NoVcpu, or the vcpu that started it
          rendezvous_req_cpus, rendezvous_done_cpus,
          rendezvous_sleep,     \* who waits on rendezvous_sleep_cnd
          state, exitcode, pending,
          pc, ret,              \* a vcpu thread's place, and where its call returns
          dest, cursor,         \* the cpus of vm_smp_rendezvous; a notify loop's index
          signalled,            \* woken from the wait on vcpu_sleep_cnd
          kicked,               \* hv_vcpu_interrupt called since the last exit
          hv_is_paused, paused_sleep, mem_protected,
          posting,              \* the vcpu a device thread is about to notify
          cpumask, died,
          owed, rendezvous_count, events, pauses

rendezvousVars == <<rendezvous_func, rendezvous_req_cpus, rendezvous_done_cpus,
                    rendezvous_sleep, owed>>
activeVars == <<active_cpus, cpumask>>
pauseVars == <<hv_is_paused, paused_sleep, mem_protected, pauses>>
eventVars == <<pending, posting, events>>
callVars == <<ret, dest, cursor, rendezvous_count>>
wakeVars == <<signalled, kicked>>
haltVars == <<suspended_cpus, halted_cpus>>
vars == <<rendezvousVars, activeVars, pauseVars, eventVars, callVars, wakeVars, haltVars,
          suspend, state, exitcode, pc, died>>

Vcpus == 0 .. NCPU - 1
BSP == 0

Init ==
  /\ active_cpus = {BSP} /\ cpumask = {BSP}
  /\ suspended_cpus = {} /\ halted_cpus = {} /\ suspend = "NONE"
  /\ rendezvous_func = NoVcpu /\ rendezvous_sleep = {}
  /\ rendezvous_req_cpus = {} /\ rendezvous_done_cpus = {}
  /\ state = [v \in Vcpus |-> "IDLE"]
  /\ exitcode = [v \in Vcpus |-> "BOGUS"]
  /\ pending = [v \in Vcpus |-> {}]
  /\ pc = [v \in Vcpus |-> IF v = BSP THEN "loop" ELSE "off"]
  /\ ret = [v \in Vcpus |-> "enter"]
  /\ dest = [v \in Vcpus |-> {}] /\ cursor = [v \in Vcpus |-> 0]
  /\ signalled = {} /\ kicked = {}
  /\ hv_is_paused = FALSE /\ paused_sleep = {} /\ mem_protected = FALSE
  /\ posting = NoVcpu /\ died = "no"
  /\ owed = [v \in Vcpus |-> {}]
  /\ rendezvous_count = 0 /\ events = 0 /\ pauses = 0

-----------------------------------------------------------------------------
(* Building blocks of the actions.                                         *)

Goto(v, l) == pc' = [pc EXCEPT ![v] = l]
vcpu_set_state(v, s) == state' = [state EXCEPT ![v] = s]
Exit(v, code) == exitcode' = [exitcode EXCEPT ![v] = code]
At(v, l) == pc[v] = l /\ died = "no"

\* Between the top of vm_handle_hlt's loop and its sleep a vcpu keeps its lock.
vcpu_locked(v) == pc[v] = "halting"

\* pthread_cond_signal only wakes a thread that already waits.
vcpu_notify_event(v) ==
  /\ ~vcpu_locked(v)
  /\ kicked' = IF state[v] = "RUNNING" THEN kicked \cup {v} ELSE kicked
  /\ signalled' = IF state[v] = "SLEEPING" /\ pc[v] = "wait"
                  THEN signalled \cup {v} ELSE signalled

\* vm_suspend: the first caller wins and notifies the active cpus.
vm_suspend(v, how, back) ==
  IF suspend = "NONE"
  THEN /\ suspend' = how /\ Goto(v, "notify_active")
       /\ ret' = [ret EXCEPT ![v] = back] /\ cursor' = [cursor EXCEPT ![v] = 0]
  ELSE Goto(v, back) /\ UNCHANGED <<suspend, ret, cursor>>

\* The three loops that notify a set of cpus in ascending order.
Targets(v) == CASE pc[v] = "notify_active" -> active_cpus
                [] pc[v] = "notify_suspended" -> suspended_cpus
                [] pc[v] = "notify_dest" -> dest[v]
                [] OTHER -> {}

After(v) == CASE pc[v] = "notify_active" -> ret[v]
              [] pc[v] = "notify_suspended" -> "return"
              [] pc[v] = "notify_dest" -> "rendezvous"

NotifyLoop(v) ==
  LET left == {w \in Targets(v) : cursor[v] <= w}
  IN /\ pc[v] \in {"notify_active", "notify_suspended", "notify_dest"} /\ died = "no"
     /\ \/ /\ left = {}
           /\ Goto(v, After(v)) /\ UNCHANGED <<cursor, wakeVars>>
        \/ \E w \in left :
             /\ \A u \in left : w <= u
             /\ vcpu_notify_event(w)
             /\ cursor' = [cursor EXCEPT ![v] = w + 1]
             /\ UNCHANGED pc
     /\ UNCHANGED <<rendezvousVars, activeVars, pauseVars, eventVars, haltVars, ret, dest,
                    rendezvous_count, suspend, state, exitcode, died>>

-----------------------------------------------------------------------------
(* Entering and leaving the guest: vm_run and vmx_run.                     *)

quiet == <<rendezvousVars, activeVars, pauseVars, wakeVars, haltVars, dest, rendezvous_count>>

\* xh_vm_run up to the restart label: IDLE -> FROZEN.
xh_vm_run(v) ==
  /\ At(v, "loop") /\ v \in active_cpus \ suspended_cpus
  /\ vcpu_set_state(v, "FROZEN") /\ Goto(v, "enter")
  /\ UNCHANGED <<quiet, eventVars, ret, cursor, suspend, exitcode, died>>

\* The restart label.  The last exit and the locals of its handler are dead here.
vm_run_enter(v) ==
  /\ At(v, "enter")
  /\ vcpu_set_state(v, "RUNNING") /\ Goto(v, "inject")
  /\ Exit(v, "BOGUS") /\ ret' = [ret EXCEPT ![v] = "enter"]
  /\ dest' = [dest EXCEPT ![v] = {}] /\ cursor' = [cursor EXCEPT ![v] = 0]
  /\ UNCHANGED <<rendezvousVars, activeVars, pauseVars, wakeVars, haltVars, eventVars,
                 rendezvous_count, suspend, died>>

\* if (vcpu_suspended(suspend_cookie)) vm_exit_suspended(...)
SuspendCheck(v) ==
  IF suspend # "NONE" THEN Exit(v, "SUSPENDED") /\ Goto(v, "exit")
  ELSE Goto(v, "check_rendezvous") /\ UNCHANGED exitcode

\* vmx_inject_interrupts: the guest takes what it can of the pending events, or
\* the injection ends in a triple fault.
vmx_inject(v) ==
  /\ At(v, "inject")
  /\ \/ /\ \E taken \in SUBSET pending[v] : pending' = [pending EXCEPT ![v] = @ \ taken]
        /\ SuspendCheck(v) /\ UNCHANGED <<ret, cursor, suspend>>
     \/ vm_suspend(v, "TRIPLEFAULT", "check_suspend") /\ UNCHANGED <<pending, exitcode>>
  /\ UNCHANGED <<quiet, posting, events, state, died>>

vmx_check_suspend(v) ==
  /\ At(v, "check_suspend") /\ SuspendCheck(v)
  /\ UNCHANGED <<quiet, eventVars, ret, cursor, suspend, state, died>>

vmx_check_rendezvous(v) ==
  /\ At(v, "check_rendezvous")
  /\ Goto(v, IF rendezvous_func # NoVcpu THEN "exit_rendezvous" ELSE "guest")
  /\ UNCHANGED <<quiet, eventVars, ret, cursor, suspend, state, exitcode, died>>

\* Its KASSERT reads rendezvous_func a second time.
vm_exit_rendezvous(v) ==
  /\ At(v, "exit_rendezvous")
  /\ \/ /\ rendezvous_func # NoVcpu
        /\ Exit(v, "RENDEZVOUS") /\ Goto(v, "exit") /\ UNCHANGED died
     \/ /\ rendezvous_func = NoVcpu
        /\ died' = "rendezvous_not_in_progress" /\ UNCHANGED <<exitcode, pc>>
  /\ UNCHANGED <<quiet, eventVars, ret, cursor, suspend, state>>

\* HLT and HALT: a hlt with interrupts enabled and disabled.  IOAPIC: a write to
\* a redirection entry.  KERNEL: other exits vm_run deals with by itself.
GuestExits == IF rendezvous_count < MaxRendezvous THEN Exits ELSE Exits \ {"IOAPIC"}

hv_vcpu_run(v, code) ==
  /\ At(v, "guest")
  /\ Exit(v, code) /\ Goto(v, "unpause")
  /\ kicked' = kicked \ {v}
  /\ rendezvous_count' = rendezvous_count + (IF code = "IOAPIC" THEN 1 ELSE 0)
  /\ UNCHANGED <<rendezvousVars, activeVars, pauseVars, signalled, haltVars, eventVars, ret,
                 dest, cursor, suspend, state, died>>

GuestExit(v) == \E code \in GuestExits : hv_vcpu_run(v, code)
KickedExit(v) == v \in kicked /\ hv_vcpu_run(v, "BOGUS")

\* The end of vmx_run's loop: while (handled).
Unpaused(v) == IF exitcode[v] = "BOGUS" THEN "inject" ELSE "exit"

\* vm_mem_protect, by every vcpu that pauses.
vm_mem_protect_First == mem_protected' = (mem_protected \/ paused_sleep = {})
vm_mem_protect == mem_protected' = TRUE

vm_check_for_unpause(v) ==
  /\ At(v, "unpause")
  /\ \/ ~hv_is_paused /\ Goto(v, Unpaused(v)) /\ UNCHANGED <<state, pauseVars>>
     \/ /\ hv_is_paused
        /\ vcpu_set_state(v, "FROZEN") /\ Goto(v, "paused")
        /\ vm_mem_protect /\ paused_sleep' = paused_sleep \cup {v}
        /\ UNCHANGED <<hv_is_paused, pauses>>
  /\ UNCHANGED <<rendezvousVars, activeVars, wakeVars, haltVars, dest, rendezvous_count,
                 eventVars, ret, cursor, suspend, exitcode, died>>

\* pthread_cond_wait returns to a paused vcpu.
vm_unpaused(v) ==
  /\ At(v, "paused") /\ v \notin paused_sleep
  /\ \/ /\ hv_is_paused
        /\ paused_sleep' = paused_sleep \cup {v} /\ UNCHANGED <<state, pc, mem_protected>>
     \/ /\ ~hv_is_paused
        /\ mem_protected' = FALSE
        /\ vcpu_set_state(v, "RUNNING") /\ Goto(v, Unpaused(v)) /\ UNCHANGED paused_sleep
  /\ UNCHANGED <<rendezvousVars, activeVars, wakeVars, haltVars, dest, rendezvous_count,
                 eventVars, ret, cursor, suspend, exitcode, died, hv_is_paused, pauses>>

-----------------------------------------------------------------------------
(* The exit handlers of vm_run.                                            *)

\* RUNNING -> FROZEN and the switch on the exit code.  A write to a redirection
\* entry (vioapic_write) takes its snapshot of the active cpus here.
vm_run_exit(v) ==
  /\ At(v, "exit") /\ vcpu_set_state(v, "FROZEN")
  /\ LET code == exitcode[v]
     IN /\ Goto(v, CASE code = "SUSPENDED" -> "suspend"
                     [] code = "RENDEZVOUS" -> "rendezvous"
                     [] code \in {"HLT", "HALT"} -> "hlt"
                     [] code = "IOAPIC" -> "smp_rendezvous"
                     [] code = "KERNEL" -> "enter"
                     [] code = "USER" -> "return")
        /\ suspended_cpus' = IF code = "SUSPENDED" THEN suspended_cpus \cup {v}
                             ELSE suspended_cpus
        /\ dest' = IF code = "IOAPIC" THEN [dest EXCEPT ![v] = active_cpus] ELSE dest
        /\ ret' = [ret EXCEPT ![v] = "enter"]
  /\ UNCHANGED <<rendezvousVars, activeVars, pauseVars, wakeVars, eventVars, halted_cpus,
                 cursor, rendezvous_count, suspend, exitcode, died>>

\* What keeps vm_handle_hlt from putting the vcpu to sleep.
MustRun_NoNmi(v) == \/ rendezvous_func # NoVcpu \/ suspend # "NONE"
                    \/ exitcode[v] = "HLT" /\ "intr" \in pending[v]
MustRun(v) == \/ rendezvous_func # NoVcpu \/ suspend # "NONE"
              \/ "nmi" \in pending[v]
              \/ exitcode[v] = "HLT" /\ "intr" \in pending[v]

\* if (vcpu_halted) CPU_CLR_ATOMIC(...)
HaltOver_Kept(v) == halted_cpus' = halted_cpus
HaltOver(v) == halted_cpus' = halted_cpus \ {v}

\* vcpu_require_state_locked(SLEEPING) and vcpu_unlock; the wait is yet to start.
FallAsleep(v, back) == /\ vcpu_set_state(v, "SLEEPING") /\ Goto(v, "sleep")
                       /\ ret' = [ret EXCEPT ![v] = back]

\* The top of vm_handle_hlt's loop.
vm_handle_hlt(v) ==
  /\ At(v, "hlt")
  /\ \/ /\ MustRun(v)
        /\ HaltOver(v) /\ Goto(v, "enter") /\ UNCHANGED <<state, ret>>
     \/ /\ ~MustRun(v) /\ exitcode[v] = "HALT"
        /\ halted_cpus' = halted_cpus \cup {v}
        /\ Goto(v, "halting") /\ UNCHANGED <<state, ret>>
     \/ /\ ~MustRun(v) /\ exitcode[v] = "HLT"
        /\ FallAsleep(v, "hlt") /\ UNCHANGED halted_cpus
  /\ UNCHANGED <<rendezvousVars, activeVars, pauseVars, wakeVars, eventVars, suspended_cpus,
                 dest, cursor, rendezvous_count, suspend, exitcode, died>>

\* Are all vcpus halted?  Then the virtual machine is, else sleep.
vm_halted(v) ==
  /\ At(v, "halting")
  /\ \/ /\ halted_cpus = active_cpus
        /\ HaltOver(v) /\ vm_suspend(v, "HALT", "enter") /\ UNCHANGED state
     \/ /\ halted_cpus # active_cpus
        /\ FallAsleep(v, "hlt") /\ UNCHANGED <<halted_cpus, suspend, cursor>>
  /\ UNCHANGED <<rendezvousVars, activeVars, pauseVars, wakeVars, eventVars, suspended_cpus,
                 dest, rendezvous_count, exitcode, died>>

\* pthread_cond_timedwait_relative_np begins to wait.
vcpu_sleep(v) ==
  /\ At(v, "sleep") /\ Goto(v, "wait")
  /\ UNCHANGED <<quiet, eventVars, ret, cursor, suspend, state, exitcode, died>>

\* What the vcpu is set to when its wait is over.
Awake_Asleep(v) == vcpu_set_state(v, state[v])
Awake(v) == vcpu_set_state(v, "FROZEN")

\* It returns: signalled, or after its second.
vcpu_wake(v) ==
  /\ At(v, "wait")
  /\ Awake(v) /\ Goto(v, ret[v])
  /\ signalled' = signalled \ {v}
  /\ UNCHANGED <<rendezvousVars, activeVars, pauseVars, kicked, haltVars, dest,
                 rendezvous_count, eventVars, ret, cursor, suspend, exitcode, died>>

\* CPU_CMP(&vm->suspended_cpus, &vm->active_cpus) == 0
AllSuspended(v) == suspended_cpus = active_cpus

\* The loop of vm_handle_suspend.
vm_handle_suspend_Deaf(v) ==
  /\ At(v, "suspend")
  /\ \/ /\ AllSuspended(v) /\ Goto(v, "notify_suspended")
        /\ cursor' = [cursor EXCEPT ![v] = 0] /\ UNCHANGED <<state, ret>>
     \/ /\ ~AllSuspended(v) /\ FallAsleep(v, "suspend") /\ UNCHANGED cursor
  /\ UNCHANGED <<quiet, eventVars, suspend, exitcode, died>>
vm_handle_suspend(v) ==
  /\ At(v, "suspend")
  /\ \/ /\ AllSuspended(v) /\ Goto(v, "notify_suspended")
        /\ cursor' = [cursor EXCEPT ![v] = 0] /\ UNCHANGED <<state, ret>>
     \/ /\ ~AllSuspended(v) /\ rendezvous_func = NoVcpu
        /\ FallAsleep(v, "suspend") /\ UNCHANGED cursor
     \/ /\ ~AllSuspended(v) /\ rendezvous_func # NoVcpu
        /\ Goto(v, "rendezvous") /\ ret' = [ret EXCEPT ![v] = "suspend"]
        /\ UNCHANGED <<state, cursor>>
  /\ UNCHANGED <<quiet, eventVars, suspend, exitcode, died>>

-----------------------------------------------------------------------------
(* Rendezvous.                                                             *)

\* vm_smp_rendezvous: start one, or first take part in the one in progress.
vm_smp_rendezvous(v) ==
  /\ At(v, "smp_rendezvous")
  /\ \/ /\ rendezvous_func # NoVcpu
        /\ Goto(v, "rendezvous") /\ ret' = [ret EXCEPT ![v] = "smp_rendezvous"]
        /\ UNCHANGED <<rendezvousVars, cursor>>
     \/ /\ rendezvous_func = NoVcpu
        /\ rendezvous_func' = v
        /\ rendezvous_req_cpus' = dest[v] /\ rendezvous_done_cpus' = {}
        /\ owed' = [owed EXCEPT ![v] = dest[v]]
        /\ Goto(v, "notify_dest") /\ ret' = [ret EXCEPT ![v] = "enter"]
        /\ cursor' = [cursor EXCEPT ![v] = 0]
        /\ UNCHANGED rendezvous_sleep
  /\ UNCHANGED <<activeVars, pauseVars, wakeVars, haltVars, eventVars, dest, rendezvous_count,
                 suspend, state, exitcode, died>>

\* CPU_CMP(&vm->rendezvous_req_cpus, &vm->rendezvous_done_cpus) == 0
Completed_Any(req, done) == done # {}
Completed(req, done) == req = done

\* vm_handle_rendezvous up to its wait, and from the wake-up on.
vm_handle_rendezvous(v) ==
  /\ At(v, "rendezvous") /\ v \notin rendezvous_sleep
  /\ \/ rendezvous_func = NoVcpu /\ Goto(v, ret[v]) /\ UNCHANGED rendezvousVars
     \/ LET req == rendezvous_req_cpus \cap active_cpus
            mine == {v} \cap (req \ rendezvous_done_cpus)
            done == rendezvous_done_cpus \cup mine
        IN /\ rendezvous_func # NoVcpu
           /\ rendezvous_req_cpus' = req /\ rendezvous_done_cpus' = done
           /\ owed' = [owed EXCEPT ![rendezvous_func] = @ \ mine]
           /\ IF Completed(req, done)
              THEN rendezvous_func' = NoVcpu /\ rendezvous_sleep' = {} /\ Goto(v, ret[v])
              ELSE /\ rendezvous_sleep' = rendezvous_sleep \cup {v}
                   /\ UNCHANGED <<rendezvous_func, pc>>
  /\ UNCHANGED <<activeVars, pauseVars, wakeVars, haltVars, eventVars, callVars, suspend, state,
                 exitcode, died>>

-----------------------------------------------------------------------------
(* The vcpu threads of hyperkit.c.                                         *)

\* handler[VM_EXITCODE_SUSPENDED] is vmexit_suspend, the others return.
Handler(code) == IF code = "SUSPENDED" THEN "delete" ELSE "user"

\* xh_vm_run returns to vcpu_loop: FROZEN -> IDLE.
vm_run_return(v) ==
  /\ At(v, "return")
  /\ vcpu_set_state(v, "IDLE") /\ Goto(v, Handler(exitcode[v]))
  /\ UNCHANGED <<quiet, eventVars, ret, cursor, suspend, exitcode, died>>

\* A handler of vcpu_loop that changes nothing here.
vmexit_continue(v) ==
  /\ At(v, "user") /\ Goto(v, "loop")
  /\ UNCHANGED <<quiet, eventVars, ret, cursor, suspend, state, exitcode, died>>

\* reset_handler, pm1_control_handler and atkbdc_sts_ctl_handler:
\* assert(error == 0 || errno == EALREADY), where xh_vm_suspend returns EALREADY
\* and leaves errno alone.
vmexit_poweroff(v) ==
  /\ At(v, "user")
  /\ \/ /\ suspend = "NONE"
        /\ \E how \in {"RESET", "POWEROFF"} : vm_suspend(v, how, "loop")
        /\ UNCHANGED died
     \/ /\ suspend # "NONE"
        /\ died' = "assert_EALREADY" /\ UNCHANGED <<suspend, ret, cursor, pc>>
  /\ UNCHANGED <<quiet, eventVars, state, exitcode>>

\* The cpus a SPINUP_AP exit may name: assert(vcpu < guest_ncpus).
NewCpus == Vcpus \ active_cpus

\* vcpu_add activates the new cpu in the context of the BSP ...
vmexit_spinup_ap(v) ==
  /\ At(v, "user") /\ v = BSP
  /\ \E new \in NewCpus : active_cpus' = active_cpus \cup {new}
  /\ Goto(v, "add")
  /\ UNCHANGED <<rendezvousVars, cpumask, pauseVars, wakeVars, haltVars, eventVars, callVars,
                 suspend, state, exitcode, died>>

\* ... and then creates its thread.
vcpu_add(v) ==
  /\ At(v, "add")
  /\ \E new \in active_cpus :
       /\ pc[new] = "off"
       /\ cpumask' = cpumask \cup {new}
       /\ pc' = [pc EXCEPT ![new] = "loop", ![v] = "loop"]
  /\ UNCHANGED <<rendezvousVars, active_cpus, pauseVars, wakeVars, haltVars, eventVars,
                 callVars, suspend, state, exitcode, died>>

\* vmexit_suspend: vcpu_delete, then an AP signals resetcpu_cond and the BSP waits.
vcpu_delete(v) ==
  /\ At(v, "delete")
  /\ cpumask' = cpumask \ {v}
  /\ Goto(v, IF v = BSP THEN "reset" ELSE "signal")
  /\ UNCHANGED <<rendezvousVars, active_cpus, pauseVars, wakeVars, haltVars, eventVars,
                 callVars, suspend, state, exitcode, died>>

vmexit_suspend_ap(v) ==
  /\ At(v, "signal")
  /\ pc' = [w \in Vcpus |-> IF w = v THEN "gone"
                            ELSE IF pc[w] = "reset_wait" THEN "reset" ELSE pc[w]]
  /\ UNCHANGED <<quiet, eventVars, ret, cursor, suspend, state, exitcode, died>>

\* while (!CPU_EMPTY(&cpumask))
ResetReady == cpumask = {}

vmexit_suspend_bsp(v) ==
  /\ At(v, "reset")
  /\ IF ResetReady THEN died' = "exit" /\ UNCHANGED pc
     ELSE Goto(v, "reset_wait") /\ UNCHANGED died
  /\ UNCHANGED <<quiet, eventVars, ret, cursor, suspend, state, exitcode>>

-----------------------------------------------------------------------------
(* The other threads: devices that raise events, the signal handlers.      *)

rest == <<rendezvousVars, activeVars, haltVars, callVars, suspend, state, exitcode, pc, died>>

\* vm_inject_nmi, and lapic_set_intr or vm_inject_extint: the event is made
\* pending, then the vcpu is notified.
vm_inject(v, e) ==
  /\ died = "no" /\ posting = NoVcpu /\ events < MaxEvents
  /\ pending' = [pending EXCEPT ![v] = @ \cup {e}]
  /\ posting' = v /\ events' = events + 1
  /\ UNCHANGED <<rest, pauseVars, wakeVars>>

vm_inject_notify ==
  /\ died = "no" /\ posting # NoVcpu
  /\ vcpu_notify_event(posting) /\ posting' = NoVcpu
  /\ UNCHANGED <<rest, pauseVars, pending, events>>

\* vm_signal_pause: SIGUSR1 pauses, SIGUSR2 resumes.
vm_signal_pause ==
  /\ died = "no" /\ pauses < MaxPauses
  /\ hv_is_paused' = TRUE /\ pauses' = pauses + 1
  /\ UNCHANGED <<rest, wakeVars, eventVars, paused_sleep, mem_protected>>

Thaw == paused_sleep' = IF hv_is_paused THEN {} ELSE paused_sleep

vm_signal_unpause ==
  /\ died = "no"
  /\ hv_is_paused' = FALSE /\ Thaw
  /\ UNCHANGED <<rest, wakeVars, eventVars, mem_protected, pauses>>

\* The process has ended.
Terminated == died # "no" /\ UNCHANGED vars

\* The steps a vcpu thread takes by itself.
VcpuStep(v) ==
  \/ xh_vm_run(v) \/ vm_run_enter(v) \/ vmx_inject(v) \/ vmx_check_suspend(v)
  \/ vmx_check_rendezvous(v) \/ vm_exit_rendezvous(v)
  \/ vm_check_for_unpause(v) \/ vm_unpaused(v) \/ vm_run_exit(v)
  \/ vm_handle_hlt(v) \/ vm_halted(v) \/ vcpu_sleep(v) \/ vcpu_wake(v)
  \/ vm_handle_suspend(v) \/ vm_smp_rendezvous(v) \/ vm_handle_rendezvous(v)
  \/ NotifyLoop(v) \/ vm_run_return(v)
  \/ vmexit_continue(v) \/ vmexit_poweroff(v) \/ vmexit_spinup_ap(v) \/ vcpu_add(v)
  \/ vcpu_delete(v) \/ vmexit_suspend_ap(v) \/ vmexit_suspend_bsp(v)

Next ==
  \/ /\ died = "no"
     /\ \/ \E v \in Vcpus : VcpuStep(v) \/ GuestExit(v) \/ KickedExit(v)
        \/ \E v \in active_cpus, e \in EventKinds : vm_inject(v, e)
        \/ vm_inject_notify \/ vm_signal_pause \/ vm_signal_unpause
  \/ Terminated

Spec == Init /\ [][Next]_vars

\* A thread is scheduled; a timed wait ends; hv_vcpu_run returns when it is
\* interrupted, and owes nothing otherwise.  No signal need ever arrive.
Fairness == /\ \A v \in Vcpus : WF_vars(VcpuStep(v)) /\ WF_vars(KickedExit(v))
            /\ WF_vars(vm_inject_notify)

FairSpec == Spec /\ Fairness

-----------------------------------------------------------------------------
(* Properties.                                                             *)

Places == {"off", "loop", "enter", "inject", "check_suspend", "check_rendezvous",
           "exit_rendezvous", "guest", "unpause", "paused", "exit", "hlt", "halting",
           "sleep", "wait", "suspend", "rendezvous", "smp_rendezvous", "notify_active",
           "notify_suspended", "notify_dest", "return", "user", "add", "delete", "signal",
           "gone", "reset", "reset_wait"}
ExitCodes == {"BOGUS", "HLT", "HALT", "KERNEL", "USER", "IOAPIC", "SUSPENDED", "RENDEZVOUS"}

\* Types of the variables of struct vm, struct vcpu and the threads.
TypeOK ==
  /\ active_cpus \subseteq Vcpus /\ suspended_cpus \subseteq Vcpus
  /\ halted_cpus \subseteq Vcpus /\ cpumask \subseteq Vcpus
  /\ suspend \in {"NONE", "RESET", "POWEROFF", "HALT", "TRIPLEFAULT"}
  /\ rendezvous_func \in Vcpus \cup {NoVcpu} /\ rendezvous_sleep \subseteq Vcpus
  /\ rendezvous_req_cpus \subseteq Vcpus /\ rendezvous_done_cpus \subseteq Vcpus
  /\ state \in [Vcpus -> {"IDLE", "FROZEN", "RUNNING", "SLEEPING"}]
  /\ exitcode \in [Vcpus -> ExitCodes] /\ pending \in [Vcpus -> SUBSET {"nmi", "intr"}]
  /\ pc \in [Vcpus -> Places]
  /\ ret \in [Vcpus -> {"enter", "check_suspend", "hlt", "suspend", "smp_rendezvous", "loop"}]
  /\ dest \in [Vcpus -> SUBSET Vcpus] /\ cursor \in [Vcpus -> 0 .. NCPU]
  /\ signalled \subseteq Vcpus /\ kicked \subseteq Vcpus
  /\ hv_is_paused \in BOOLEAN /\ paused_sleep \subseteq Vcpus /\ mem_protected \in BOOLEAN
  /\ posting \in Vcpus \cup {NoVcpu}
  /\ died \in {"no", "exit", "assert_EALREADY", "rendezvous_not_in_progress"}
  /\ owed \in [Vcpus -> SUBSET Vcpus]
  /\ rendezvous_count \in Nat /\ events \in Nat /\ pauses \in Nat

Allowed == {<<"IDLE", "FROZEN">>, <<"FROZEN", "IDLE">>, <<"FROZEN", "RUNNING">>,
            <<"RUNNING", "FROZEN">>, <<"FROZEN", "SLEEPING">>, <<"SLEEPING", "FROZEN">>}

\* A vcpu only makes the transitions vcpu_set_state_locked allows, whatever order
\* its halts, pauses, rendezvous and suspension come in: vcpu_require_state never
\* aborts the process.
StateTransitions ==
  [][\A v \in Vcpus : state'[v] # state[v] => <<state[v], state'[v]>> \in Allowed]_vars

\* vm_smp_rendezvous returns only when every cpu it was meant for has run the
\* function, even if other rendezvous came before or after it.
RendezvousComplete ==
  \A v \in Vcpus : pc[v] \notin {"notify_dest", "rendezvous"} => owed[v] = {}

\* Past vm_handle_suspend's loop.
Suspended(v) == \/ pc[v] \in {"notify_suspended", "delete", "signal", "gone", "reset",
                              "reset_wait"}
                \/ pc[v] = "return" /\ exitcode[v] = "SUSPENDED"

\* No vcpu leaves vm_handle_suspend before all active vcpus are in it, cpus that
\* are being activated included.
SuspendBarrier == \A v \in Vcpus : Suspended(v) => suspended_cpus = active_cpus

\* When the BSP calls exit() no other vcpu thread uses the virtual machine.
ExitAfterAll == died = "exit" => \A v \in active_cpus \ {BSP} : pc[v] \in {"signal", "gone"}

\* Nobody passes a barrier before everyone has reached it.
BarriersHold == RendezvousComplete /\ SuspendBarrier /\ ExitAfterAll

\* halted_cpus holds only cpus that are in vm_handle_hlt with interrupts disabled
\* (its KASSERT "vcpu already halted"), so the machine is halted only when all are.
HaltedAccurate ==
  \A v \in halted_cpus : /\ exitcode[v] = "HALT"
                         /\ \/ pc[v] \in {"hlt", "halting"}
                            \/ pc[v] \in {"sleep", "wait"} /\ ret[v] = "hlt"

\* The threads never all wait for one another: until the process ends one of
\* them, or a signal, can go on.
NeverStuck == ENABLED Next

\* What the state of the machine keeps to while its threads interleave.
VcpuSound == TypeOK /\ HaltedAccurate /\ NeverStuck

\* Guest memory is inaccessible when all active vcpus are paused, however pauses
\* and resumptions overlap, and never stays so when none is.
PauseProtects ==
  /\ hv_is_paused /\ (\A v \in active_cpus : pc[v] = "paused") => mem_protected
  /\ mem_protected => \E v \in active_cpus : pc[v] = "paused"

\* No vcpu sleeps on hv_pause_cnd when the virtual machine is not paused: SIGUSR2
\* reaches every vcpu, those that were about to wait and those that were woken
\* into a new pause included.
ThawWakes == ~hv_is_paused => paused_sleep = {}

\* A pause stops the whole machine, and its end starts the whole machine.
PauseSound == PauseProtects /\ ThawWakes

Over == died # "no" \/ hv_is_paused

\* A rendezvous ends although its vcpus may halt, suspend or start another one
\* meanwhile (the comment in vm_handle_suspend: "to prevent a deadlock").
RendezvousEnds == rendezvous_func # NoVcpu ~> (rendezvous_func = NoVcpu \/ Over)

\* Once the virtual machine is suspended the process ends.
SuspendEnds == suspend # "NONE" ~> Over

\* The barriers let everyone through in the end.
BarriersEnd == RendezvousEnds /\ SuspendEnds

\* A vcpu that sleeps in vm_handle_hlt with an NMI pending gets up.
NmiWakes == \A v \in Vcpus : (pc[v] = "wait" /\ ret[v] = "hlt" /\ "nmi" \in pending[v])
                               ~> (pc[v] = "enter" \/ died # "no")

\* The KASSERT of vm_exit_rendezvous: "rendezvous not in progress".
RendezvousAsserted == died # "rendezvous_not_in_progress"
=============================================================================
