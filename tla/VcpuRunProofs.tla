---------------------------- MODULE VcpuRunProofs ----------------------------
(***************************************************************************)
(* Proofs about VcpuRun, for any number of vcpus, any mix of exits, events *)
(* of either kind, rendezvous and pauses.                                  *)
(*                                                                         *)
(* The inductive invariant relates a thread's place (pc) to the state, the *)
(* return address and the exit code of its vcpu, and the sets of struct vm *)
(* to the places of all threads.  Each conjunct has a lemma with one step  *)
(* per action: first those about the single thread, the active cpus and    *)
(* pauses, then the barriers, then the theorems.                           *)
(***************************************************************************)
EXTENDS VcpuRun, TLAPS


-----------------------------------------------------------------------------
(* The inductive invariant.                                                *)

IdlePlaces == {"off", "loop", "user", "add", "delete", "signal", "gone", "reset", "reset_wait"}
FrozenPlaces == {"enter", "paused", "hlt", "halting", "suspend", "rendezvous", "smp_rendezvous",
                 "notify_suspended", "notify_dest", "return"}
RunningPlaces == {"inject", "check_suspend", "check_rendezvous", "exit_rendezvous", "guest",
                  "unpause", "exit"}

\* TypeOK in two halves, the control of the threads and the rest.
TypeControl ==
  /\ pc \in [Vcpus -> Places] /\ exitcode \in [Vcpus -> ExitCodes]
  /\ state \in [Vcpus -> {"IDLE", "FROZEN", "RUNNING", "SLEEPING"}]
  /\ ret \in [Vcpus -> {"enter", "check_suspend", "hlt", "suspend", "smp_rendezvous", "loop"}]

TypeData ==
  /\ active_cpus \subseteq Vcpus /\ suspended_cpus \subseteq Vcpus
  /\ halted_cpus \subseteq Vcpus /\ cpumask \subseteq Vcpus
  /\ suspend \in {"NONE", "RESET", "POWEROFF", "HALT", "TRIPLEFAULT"}
  /\ rendezvous_func \in Vcpus \cup {NoVcpu} /\ rendezvous_sleep \subseteq Vcpus
  /\ rendezvous_req_cpus \subseteq Vcpus /\ rendezvous_done_cpus \subseteq Vcpus
  /\ pending \in [Vcpus -> SUBSET {"nmi", "intr"}]
  /\ dest \in [Vcpus -> SUBSET Vcpus] /\ cursor \in [Vcpus -> 0 .. NCPU]
  /\ signalled \subseteq Vcpus /\ kicked \subseteq Vcpus
  /\ hv_is_paused \in BOOLEAN /\ paused_sleep \subseteq Vcpus /\ mem_protected \in BOOLEAN
  /\ posting \in Vcpus \cup {NoVcpu}
  /\ died \in {"no", "exit", "assert_EALREADY", "rendezvous_not_in_progress"}
  /\ owed \in [Vcpus -> SUBSET Vcpus]
  /\ rendezvous_count \in Nat /\ events \in Nat /\ pauses \in Nat

\* Where the calls that are under way return to, and why vm_run's switch has a case
\* for every exit that reaches it.
Returns ==
  \A v \in Vcpus :
    /\ pc[v] \in {"sleep", "wait"} => ret[v] \in {"hlt", "suspend"}
    /\ pc[v] = "rendezvous" => ret[v] \in {"enter", "suspend", "smp_rendezvous"}
    /\ pc[v] = "notify_active" => ret[v] \in {"check_suspend", "enter", "loop"}
    /\ pc[v] = "notify_dest" => ret[v] = "enter"
    /\ pc[v] = "exit" => exitcode[v] \in ExitCodes \ {"BOGUS"}

\* The state of a vcpu whose thread is at l and returns to r.
StateOf(l, r) ==
  CASE l \in IdlePlaces -> "IDLE"
    [] l \in FrozenPlaces -> "FROZEN"
    [] l \in RunningPlaces -> "RUNNING"
    [] l \in {"sleep", "wait"} -> "SLEEPING"
    [] OTHER -> IF r = "check_suspend" THEN "RUNNING" ELSE IF r = "enter" THEN "FROZEN" ELSE "IDLE"

\* vcpu->state says where its thread is.
Placed == \A v \in Vcpus : state[v] = StateOf(pc[v], ret[v])

\* Threads run, and rendezvous are for, active cpus only.
Joined ==
  /\ BSP \in active_cpus
  /\ \A v \in Vcpus : pc[v] # "off" => v \in active_cpus
  /\ \A v \in Vcpus : dest[v] \subseteq active_cpus
  /\ rendezvous_req_cpus \subseteq active_cpus

\* PauseProtects without its first premise: the last vcpu to pause protects the
\* memory even if SIGUSR2 has come in the meantime.
PauseInv ==
  /\ (\A v \in active_cpus : pc[v] = "paused") => mem_protected
  /\ mem_protected => \E v \in active_cpus : pc[v] = "paused"
  /\ ThawWakes

\* The cpus that still owe the call of a rendezvous are among those it waits for,
\* and its initiator is inside.
Owed ==
  /\ \A v \in Vcpus : v # rendezvous_func => owed[v] = {}
  /\ rendezvous_func # NoVcpu =>
       /\ pc[rendezvous_func] \in {"notify_dest", "rendezvous"}
       /\ owed[rendezvous_func] \subseteq rendezvous_req_cpus \ rendezvous_done_cpus

\* On the way from vm_run's switch, through vm_handle_suspend, to the end.
Stopped(v) ==
  /\ exitcode[v] = "SUSPENDED"
  /\ \/ pc[v] \in {"suspend", "notify_suspended", "return", "delete", "signal", "gone", "reset",
                   "reset_wait"}
     \/ pc[v] \in {"sleep", "wait", "rendezvous"} /\ ret[v] = "suspend"

\* A member of suspended_cpus never leaves that way, so no cpu is activated once
\* suspended_cpus has caught up with active_cpus.
SuspendInv ==
  /\ suspended_cpus \subseteq active_cpus
  /\ \A v \in suspended_cpus : Stopped(v)
  /\ SuspendBarrier

\* The places that matter to the end of the process.
Outside == {"off", "add", "signal", "gone", "reset", "reset_wait"}

\* Who is not in cpumask has signalled or is the BSP; a cpu that is active but has
\* no thread is the one vcpu_add is about to start.
Ended ==
  /\ \A v \in Vcpus : pc[v] \in {"reset", "reset_wait", "add"} => v = BSP
  /\ \A v \in active_cpus : pc[v] = "off" => pc[BSP] = "add"
  /\ \A v, w \in active_cpus : pc[v] = "off" /\ pc[w] = "off" => v = w
  /\ \A v \in active_cpus :
       pc[v] \notin {"off", "signal", "gone", "reset", "reset_wait"} => v \in cpumask
  /\ ExitAfterAll

\* Every change of a vcpu's state is an allowed one.
Transits == \A v \in Vcpus : state'[v] # state[v] => <<state[v], state'[v]>> \in Allowed

-----------------------------------------------------------------------------
(* Every step keeps every conjunct.                                        *)

\* The places and exit codes that actions assign.
LEMMA PlaceNames ==
  /\ "loop" \in Places /\ "enter" \in Places /\ "inject" \in Places /\ "check_suspend" \in Places
  /\ "check_rendezvous" \in Places /\ "exit_rendezvous" \in Places /\ "guest" \in Places
  /\ "unpause" \in Places /\ "paused" \in Places /\ "exit" \in Places /\ "hlt" \in Places
  /\ "halting" \in Places /\ "sleep" \in Places /\ "wait" \in Places /\ "suspend" \in Places
  /\ "rendezvous" \in Places /\ "smp_rendezvous" \in Places /\ "notify_active" \in Places
  /\ "notify_suspended" \in Places /\ "notify_dest" \in Places /\ "return" \in Places
  /\ "user" \in Places /\ "add" \in Places /\ "delete" \in Places /\ "signal" \in Places
  /\ "gone" \in Places /\ "reset" \in Places /\ "reset_wait" \in Places
  /\ "BOGUS" \in ExitCodes /\ "SUSPENDED" \in ExitCodes /\ "RENDEZVOUS" \in ExitCodes
  /\ Exits \subseteq ExitCodes
  BY VcpuAssumption DEF Places, ExitCodes

\* Every action leaves its threads at a place, with a state, a return address and an
\* exit code of the right type.
LEMMA ControlStep ==
  ASSUME TypeControl, Returns, [Next]_vars
  PROVE  TypeControl'
<1> USE VcpuAssumption DEF At, Goto, Exit, vcpu_set_state, rendezvousVars, activeVars,
       pauseVars, eventVars, callVars, wakeVars, haltVars, quiet, rest
<1>t. \A v \in Vcpus :
         /\ pc[v] \in {"sleep", "wait"} => ret[v] \in {"hlt", "suspend"}
         /\ pc[v] = "rendezvous" => ret[v] \in {"enter", "suspend", "smp_rendezvous"}
         /\ pc[v] = "notify_active" => ret[v] \in {"check_suspend", "enter", "loop"}
         /\ pc[v] = "notify_dest" => ret[v] = "enter"
         /\ pc[v] = "exit" => exitcode[v] \in {"SUSPENDED", "RENDEZVOUS", "HLT", "HALT",
                                                "IOAPIC", "KERNEL", "USER"}
  BY DEF Returns, ExitCodes
<1> USE DEF TypeControl
<1>1. CASE UNCHANGED vars
  BY PlaceNames, <1>1 DEF vars
<1>2. ASSUME NEW v \in Vcpus, xh_vm_run(v) PROVE TypeControl'
  BY <1>t, PlaceNames, <1>2 DEF xh_vm_run
<1>3. ASSUME NEW v \in Vcpus, vm_run_enter(v) PROVE TypeControl'
  BY <1>t, PlaceNames, <1>3 DEF vm_run_enter
<1>4. ASSUME NEW v \in Vcpus, vmx_inject(v) PROVE TypeControl'
  BY <1>t, PlaceNames, <1>4 DEF vmx_inject, SuspendCheck, vm_suspend
<1>5. ASSUME NEW v \in Vcpus, vmx_check_suspend(v) PROVE TypeControl'
  BY <1>t, PlaceNames, <1>5 DEF vmx_check_suspend, SuspendCheck
<1>6. ASSUME NEW v \in Vcpus, vmx_check_rendezvous(v) PROVE TypeControl'
  BY <1>t, PlaceNames, <1>6 DEF vmx_check_rendezvous
<1>7. ASSUME NEW v \in Vcpus, vm_exit_rendezvous(v) PROVE TypeControl'
  BY <1>t, PlaceNames, <1>7 DEF vm_exit_rendezvous
<1>8. ASSUME NEW v \in Vcpus, vm_check_for_unpause(v) PROVE TypeControl'
  BY <1>t, PlaceNames, <1>8 DEF vm_check_for_unpause, Unpaused, vm_mem_protect
<1>9. ASSUME NEW v \in Vcpus, vm_unpaused(v) PROVE TypeControl'
  BY <1>t, PlaceNames, <1>9 DEF vm_unpaused, Unpaused
<1>10. ASSUME NEW v \in Vcpus, vm_run_exit(v) PROVE TypeControl'
  BY <1>t, PlaceNames, <1>10 DEF vm_run_exit
<1>11. ASSUME NEW v \in Vcpus, vm_handle_hlt(v) PROVE TypeControl'
  BY <1>t, PlaceNames, <1>11 DEF vm_handle_hlt, HaltOver, FallAsleep
<1>12. ASSUME NEW v \in Vcpus, vm_halted(v) PROVE TypeControl'
  BY <1>t, PlaceNames, <1>12 DEF vm_halted, HaltOver, vm_suspend, FallAsleep
<1>13. ASSUME NEW v \in Vcpus, vcpu_sleep(v) PROVE TypeControl'
  BY <1>t, PlaceNames, <1>13 DEF vcpu_sleep
<1>14. ASSUME NEW v \in Vcpus, vcpu_wake(v) PROVE TypeControl'
  BY <1>t, PlaceNames, <1>14 DEF vcpu_wake, Awake
<1>15. ASSUME NEW v \in Vcpus, vm_handle_suspend(v) PROVE TypeControl'
  BY <1>t, PlaceNames, <1>15 DEF vm_handle_suspend, AllSuspended, FallAsleep
<1>16. ASSUME NEW v \in Vcpus, vm_smp_rendezvous(v) PROVE TypeControl'
  BY <1>t, PlaceNames, <1>16 DEF vm_smp_rendezvous
<1>17. ASSUME NEW v \in Vcpus, vm_handle_rendezvous(v) PROVE TypeControl'
  BY <1>t, PlaceNames, <1>17 DEF vm_handle_rendezvous, Completed
<1>18. ASSUME NEW v \in Vcpus, NotifyLoop(v) PROVE TypeControl'
  BY <1>t, PlaceNames, <1>18 DEF NotifyLoop, Targets, After, vcpu_notify_event
<1>19. ASSUME NEW v \in Vcpus, vm_run_return(v) PROVE TypeControl'
  BY <1>t, PlaceNames, <1>19 DEF vm_run_return, Handler
<1>20. ASSUME NEW v \in Vcpus, vmexit_continue(v) PROVE TypeControl'
  BY <1>t, PlaceNames, <1>20 DEF vmexit_continue
<1>21. ASSUME NEW v \in Vcpus, vmexit_poweroff(v) PROVE TypeControl'
  BY <1>t, PlaceNames, <1>21 DEF vmexit_poweroff, vm_suspend
<1>22. ASSUME NEW v \in Vcpus, vmexit_spinup_ap(v) PROVE TypeControl'
  BY <1>t, PlaceNames, <1>22 DEF vmexit_spinup_ap, NewCpus
<1>23. ASSUME NEW v \in Vcpus, vcpu_add(v) PROVE TypeControl'
  BY <1>t, PlaceNames, <1>23 DEF vcpu_add
<1>24. ASSUME NEW v \in Vcpus, vcpu_delete(v) PROVE TypeControl'
  BY <1>t, PlaceNames, <1>24 DEF vcpu_delete
<1>25. ASSUME NEW v \in Vcpus, vmexit_suspend_ap(v) PROVE TypeControl'
  BY <1>t, PlaceNames, <1>25 DEF vmexit_suspend_ap
<1>26. ASSUME NEW v \in Vcpus, vmexit_suspend_bsp(v) PROVE TypeControl'
  BY <1>t, PlaceNames, <1>26 DEF vmexit_suspend_bsp, ResetReady
<1>27. ASSUME NEW v \in Vcpus, GuestExit(v) PROVE TypeControl'
  BY <1>t, PlaceNames, <1>27 DEF GuestExit, GuestExits, hv_vcpu_run
<1>28. ASSUME NEW v \in Vcpus, KickedExit(v) PROVE TypeControl'
  BY <1>t, PlaceNames, <1>28 DEF KickedExit, hv_vcpu_run
<1>29. ASSUME NEW v \in active_cpus, NEW e \in EventKinds, vm_inject(v, e) PROVE TypeControl'
  BY <1>t, PlaceNames, <1>29 DEF vm_inject
<1>30. CASE vm_inject_notify
  BY <1>t, PlaceNames, <1>30 DEF vm_inject_notify, vcpu_notify_event
<1>31. CASE vm_signal_pause
  BY <1>t, PlaceNames, <1>31 DEF vm_signal_pause
<1>32. CASE vm_signal_unpause
  BY <1>t, PlaceNames, <1>32 DEF vm_signal_unpause, Thaw
<1>33. QED
  BY ONLY [Next]_vars, <1>1, <1>2, <1>3, <1>4, <1>5, <1>6, <1>7, <1>8, <1>9, <1>10, <1>11,
          <1>12, <1>13, <1>14, <1>15, <1>16, <1>17, <1>18, <1>19, <1>20, <1>21, <1>22, <1>23,
          <1>24, <1>25, <1>26, <1>27, <1>28, <1>29, <1>30, <1>31, <1>32, Zenon
  DEF Next, VcpuStep, Terminated

\* Every action keeps the types of the sets, counters and flags.
LEMMA DataStep ==
  ASSUME TypeData, [Next]_vars
  PROVE  TypeData'
<1> USE VcpuAssumption DEF At, Goto, Exit, vcpu_set_state, rendezvousVars, activeVars,
       pauseVars, eventVars, callVars, wakeVars, haltVars, quiet, rest
<1>t. /\ NoVcpu \notin Vcpus /\ BSP \in Vcpus /\ 0 \in 0 .. NCPU
      /\ \A w \in Vcpus : w \in Int /\ w + 1 \in 0 .. NCPU
  BY DEF Vcpus, BSP
<1> USE DEF TypeData
<1>1. CASE UNCHANGED vars
  BY <1>1 DEF vars
<1>2. ASSUME NEW v \in Vcpus, xh_vm_run(v) PROVE TypeData'
  BY <1>t, <1>2 DEF xh_vm_run
<1>3. ASSUME NEW v \in Vcpus, vm_run_enter(v) PROVE TypeData'
  BY <1>t, <1>3 DEF vm_run_enter
<1>4. ASSUME NEW v \in Vcpus, vmx_inject(v) PROVE TypeData'
  BY <1>t, <1>4 DEF vmx_inject, SuspendCheck, vm_suspend
<1>5. ASSUME NEW v \in Vcpus, vmx_check_suspend(v) PROVE TypeData'
  BY <1>t, <1>5 DEF vmx_check_suspend, SuspendCheck
<1>6. ASSUME NEW v \in Vcpus, vmx_check_rendezvous(v) PROVE TypeData'
  BY <1>t, <1>6 DEF vmx_check_rendezvous
<1>7. ASSUME NEW v \in Vcpus, vm_exit_rendezvous(v) PROVE TypeData'
  BY <1>t, <1>7 DEF vm_exit_rendezvous
<1>8. ASSUME NEW v \in Vcpus, vm_check_for_unpause(v) PROVE TypeData'
  BY <1>t, <1>8, Zenon DEF vm_check_for_unpause, Unpaused, vm_mem_protect
<1>9. ASSUME NEW v \in Vcpus, vm_unpaused(v) PROVE TypeData'
  BY <1>t, <1>9, Zenon DEF vm_unpaused, Unpaused
<1>10. ASSUME NEW v \in Vcpus, vm_run_exit(v) PROVE TypeData'
  BY <1>t, <1>10 DEF vm_run_exit
<1>11. ASSUME NEW v \in Vcpus, vm_handle_hlt(v) PROVE TypeData'
  BY <1>t, <1>11 DEF vm_handle_hlt, HaltOver, FallAsleep
<1>12. ASSUME NEW v \in Vcpus, vm_halted(v) PROVE TypeData'
  BY <1>t, <1>12 DEF vm_halted, HaltOver, vm_suspend, FallAsleep
<1>13. ASSUME NEW v \in Vcpus, vcpu_sleep(v) PROVE TypeData'
  BY <1>t, <1>13 DEF vcpu_sleep
<1>14. ASSUME NEW v \in Vcpus, vcpu_wake(v) PROVE TypeData'
  BY <1>t, <1>14 DEF vcpu_wake, Awake
<1>15. ASSUME NEW v \in Vcpus, vm_handle_suspend(v) PROVE TypeData'
  BY <1>t, <1>15 DEF vm_handle_suspend, AllSuspended, FallAsleep
<1>16. ASSUME NEW v \in Vcpus, vm_smp_rendezvous(v) PROVE TypeData'
  BY <1>t, <1>16 DEF vm_smp_rendezvous
<1>17. ASSUME NEW v \in Vcpus, vm_handle_rendezvous(v) PROVE TypeData'
  BY <1>t, <1>17 DEF vm_handle_rendezvous, Completed
<1>18. ASSUME NEW v \in Vcpus, NotifyLoop(v) PROVE TypeData'
  BY <1>t, <1>18 DEF NotifyLoop, Targets, After, vcpu_notify_event
<1>19. ASSUME NEW v \in Vcpus, vm_run_return(v) PROVE TypeData'
  BY <1>t, <1>19 DEF vm_run_return, Handler
<1>20. ASSUME NEW v \in Vcpus, vmexit_continue(v) PROVE TypeData'
  BY <1>t, <1>20 DEF vmexit_continue
<1>21. ASSUME NEW v \in Vcpus, vmexit_poweroff(v) PROVE TypeData'
  BY <1>t, <1>21 DEF vmexit_poweroff, vm_suspend
<1>22. ASSUME NEW v \in Vcpus, vmexit_spinup_ap(v) PROVE TypeData'
  BY <1>t, <1>22 DEF vmexit_spinup_ap, NewCpus
<1>23. ASSUME NEW v \in Vcpus, vcpu_add(v) PROVE TypeData'
  BY <1>t, <1>23 DEF vcpu_add
<1>24. ASSUME NEW v \in Vcpus, vcpu_delete(v) PROVE TypeData'
  BY <1>t, <1>24 DEF vcpu_delete
<1>25. ASSUME NEW v \in Vcpus, vmexit_suspend_ap(v) PROVE TypeData'
  BY <1>t, <1>25 DEF vmexit_suspend_ap
<1>26. ASSUME NEW v \in Vcpus, vmexit_suspend_bsp(v) PROVE TypeData'
  BY <1>t, <1>26 DEF vmexit_suspend_bsp, ResetReady
<1>27. ASSUME NEW v \in Vcpus, GuestExit(v) PROVE TypeData'
  BY <1>t, <1>27 DEF GuestExit, GuestExits, hv_vcpu_run
<1>28. ASSUME NEW v \in Vcpus, KickedExit(v) PROVE TypeData'
  BY <1>t, <1>28 DEF KickedExit, hv_vcpu_run
<1>29. ASSUME NEW v \in active_cpus, NEW e \in EventKinds, vm_inject(v, e) PROVE TypeData'
  BY <1>t, <1>29 DEF vm_inject
<1>30. CASE vm_inject_notify
  BY <1>t, <1>30 DEF vm_inject_notify, vcpu_notify_event
<1>31. CASE vm_signal_pause
  BY <1>t, <1>31 DEF vm_signal_pause
<1>32. CASE vm_signal_unpause
  BY <1>t, <1>32, Zenon DEF vm_signal_unpause, Thaw
<1>33. QED
  BY ONLY [Next]_vars, <1>1, <1>2, <1>3, <1>4, <1>5, <1>6, <1>7, <1>8, <1>9, <1>10, <1>11,
          <1>12, <1>13, <1>14, <1>15, <1>16, <1>17, <1>18, <1>19, <1>20, <1>21, <1>22, <1>23,
          <1>24, <1>25, <1>26, <1>27, <1>28, <1>29, <1>30, <1>31, <1>32, Zenon
  DEF Next, VcpuStep, Terminated

\* Every call is entered with a return address that suits its place.
LEMMA ReturnsStep ==
  ASSUME TypeControl, TypeData, Returns, [Next]_vars
  PROVE  Returns'
<1> USE VcpuAssumption DEF At, Goto, Exit, vcpu_set_state, rendezvousVars, activeVars,
       pauseVars, eventVars, callVars, wakeVars, haltVars, quiet, rest
<1>t. /\ pc \in [Vcpus -> Places]
      /\ exitcode \in [Vcpus -> ExitCodes]
      /\ ret \in [Vcpus -> {"enter", "check_suspend", "hlt", "suspend", "smp_rendezvous", "loop"}]
  BY DEF TypeControl, TypeData
<1> USE DEF Returns, ExitCodes
<1>1. CASE UNCHANGED vars
  BY <1>1 DEF vars
<1>2. ASSUME NEW v \in Vcpus, xh_vm_run(v) PROVE Returns'
  BY <1>t, <1>2 DEF xh_vm_run
<1>3. ASSUME NEW v \in Vcpus, vm_run_enter(v) PROVE Returns'
  BY <1>t, <1>3 DEF vm_run_enter
<1>4. ASSUME NEW v \in Vcpus, vmx_inject(v) PROVE Returns'
  BY <1>t, <1>4 DEF vmx_inject, SuspendCheck, vm_suspend, Returns, ExitCodes
<1>5. ASSUME NEW v \in Vcpus, vmx_check_suspend(v) PROVE Returns'
  BY <1>t, <1>5 DEF vmx_check_suspend, SuspendCheck
<1>6. ASSUME NEW v \in Vcpus, vmx_check_rendezvous(v) PROVE Returns'
  BY <1>t, <1>6 DEF vmx_check_rendezvous
<1>7. ASSUME NEW v \in Vcpus, vm_exit_rendezvous(v) PROVE Returns'
  BY <1>t, <1>7 DEF vm_exit_rendezvous
<1>8. ASSUME NEW v \in Vcpus, vm_check_for_unpause(v) PROVE Returns'
  BY <1>t, <1>8 DEF vm_check_for_unpause, Unpaused, vm_mem_protect, Returns, ExitCodes
<1>9. ASSUME NEW v \in Vcpus, vm_unpaused(v) PROVE Returns'
  BY <1>t, <1>9 DEF vm_unpaused, Unpaused, Returns, ExitCodes
<1>10. ASSUME NEW v \in Vcpus, vm_run_exit(v) PROVE Returns'
  BY <1>t, <1>10 DEF vm_run_exit, Returns, ExitCodes
<1>11. ASSUME NEW v \in Vcpus, vm_handle_hlt(v) PROVE Returns'
  BY <1>t, <1>11 DEF vm_handle_hlt, HaltOver, FallAsleep
<1>12. ASSUME NEW v \in Vcpus, vm_halted(v) PROVE Returns'
  BY <1>t, <1>12 DEF vm_halted, HaltOver, vm_suspend, FallAsleep
<1>13. ASSUME NEW v \in Vcpus, vcpu_sleep(v) PROVE Returns'
  BY <1>t, <1>13 DEF vcpu_sleep
<1>14. ASSUME NEW v \in Vcpus, vcpu_wake(v) PROVE Returns'
  BY <1>t, <1>14 DEF vcpu_wake, Awake, Returns, ExitCodes
<1>15. ASSUME NEW v \in Vcpus, vm_handle_suspend(v) PROVE Returns'
  BY <1>t, <1>15 DEF vm_handle_suspend, AllSuspended, FallAsleep
<1>16. ASSUME NEW v \in Vcpus, vm_smp_rendezvous(v) PROVE Returns'
  BY <1>t, <1>16 DEF vm_smp_rendezvous
<1>17. ASSUME NEW v \in Vcpus, vm_handle_rendezvous(v) PROVE Returns'
  BY <1>t, <1>17 DEF vm_handle_rendezvous, Completed, Returns, ExitCodes
<1>18. ASSUME NEW v \in Vcpus, NotifyLoop(v) PROVE Returns'
  BY <1>t, <1>18 DEF NotifyLoop, Targets, After, vcpu_notify_event, Returns, ExitCodes
<1>19. ASSUME NEW v \in Vcpus, vm_run_return(v) PROVE Returns'
  BY <1>t, <1>19 DEF vm_run_return, Handler
<1>20. ASSUME NEW v \in Vcpus, vmexit_continue(v) PROVE Returns'
  BY <1>t, <1>20 DEF vmexit_continue
<1>21. ASSUME NEW v \in Vcpus, vmexit_poweroff(v) PROVE Returns'
  BY <1>t, <1>21 DEF vmexit_poweroff, vm_suspend
<1>22. ASSUME NEW v \in Vcpus, vmexit_spinup_ap(v) PROVE Returns'
  BY <1>t, <1>22 DEF vmexit_spinup_ap, NewCpus
<1>23. ASSUME NEW v \in Vcpus, vcpu_add(v) PROVE Returns'
  BY <1>t, <1>23 DEF vcpu_add
<1>24. ASSUME NEW v \in Vcpus, vcpu_delete(v) PROVE Returns'
  BY <1>t, <1>24 DEF vcpu_delete
<1>25. ASSUME NEW v \in Vcpus, vmexit_suspend_ap(v) PROVE Returns'
  BY <1>t, <1>25 DEF vmexit_suspend_ap
<1>26. ASSUME NEW v \in Vcpus, vmexit_suspend_bsp(v) PROVE Returns'
  BY <1>t, <1>26 DEF vmexit_suspend_bsp, ResetReady
<1>27. ASSUME NEW v \in Vcpus, GuestExit(v) PROVE Returns'
  BY <1>t, <1>27 DEF GuestExit, GuestExits, hv_vcpu_run
<1>28. ASSUME NEW v \in Vcpus, KickedExit(v) PROVE Returns'
  BY <1>t, <1>28 DEF KickedExit, hv_vcpu_run
<1>29. ASSUME NEW v \in active_cpus, NEW e \in EventKinds, vm_inject(v, e) PROVE Returns'
  BY <1>t, <1>29 DEF vm_inject
<1>30. CASE vm_inject_notify
  BY <1>t, <1>30 DEF vm_inject_notify, vcpu_notify_event
<1>31. CASE vm_signal_pause
  BY <1>t, <1>31 DEF vm_signal_pause
<1>32. CASE vm_signal_unpause
  BY <1>t, <1>32 DEF vm_signal_unpause, Thaw
<1>33. QED
  BY ONLY [Next]_vars, <1>1, <1>2, <1>3, <1>4, <1>5, <1>6, <1>7, <1>8, <1>9, <1>10, <1>11,
          <1>12, <1>13, <1>14, <1>15, <1>16, <1>17, <1>18, <1>19, <1>20, <1>21, <1>22, <1>23,
          <1>24, <1>25, <1>26, <1>27, <1>28, <1>29, <1>30, <1>31, <1>32, Zenon
  DEF Next, VcpuStep, Terminated

\* Every action that moves a thread sets the state of its vcpu to match.
LEMMA PlacedStep ==
  ASSUME TypeControl, TypeData, Returns, Placed, [Next]_vars
  PROVE  Placed'
<1> USE VcpuAssumption DEF At, Goto, Exit, vcpu_set_state, rendezvousVars, activeVars,
       pauseVars, eventVars, callVars, wakeVars, haltVars, quiet, rest
<1>t. /\ pc \in [Vcpus -> Places] /\ state \in [Vcpus -> {"IDLE", "FROZEN", "RUNNING", "SLEEPING"}]
      /\ ret \in [Vcpus -> {"enter", "check_suspend", "hlt", "suspend", "smp_rendezvous", "loop"}]
  BY DEF TypeControl, TypeData
<1> USE DEF Placed, StateOf, IdlePlaces, FrozenPlaces, RunningPlaces
<1>1. CASE UNCHANGED vars
  BY <1>1 DEF vars
<1>2. ASSUME NEW v \in Vcpus, xh_vm_run(v) PROVE Placed'
  BY <1>t, <1>2 DEF xh_vm_run
<1>3. ASSUME NEW v \in Vcpus, vm_run_enter(v) PROVE Placed'
  BY <1>t, <1>3 DEF vm_run_enter
<1>4. ASSUME NEW v \in Vcpus, vmx_inject(v) PROVE Placed'
  BY <1>t, <1>4 DEF vmx_inject, SuspendCheck, vm_suspend, Returns
<1>5. ASSUME NEW v \in Vcpus, vmx_check_suspend(v) PROVE Placed'
  BY <1>t, <1>5 DEF vmx_check_suspend, SuspendCheck
<1>6. ASSUME NEW v \in Vcpus, vmx_check_rendezvous(v) PROVE Placed'
  BY <1>t, <1>6 DEF vmx_check_rendezvous
<1>7. ASSUME NEW v \in Vcpus, vm_exit_rendezvous(v) PROVE Placed'
  BY <1>t, <1>7 DEF vm_exit_rendezvous
<1>8. ASSUME NEW v \in Vcpus, vm_check_for_unpause(v) PROVE Placed'
  BY <1>t, <1>8 DEF vm_check_for_unpause, Unpaused, vm_mem_protect, Returns
<1>9. ASSUME NEW v \in Vcpus, vm_unpaused(v) PROVE Placed'
  BY <1>t, <1>9 DEF vm_unpaused, Unpaused, Returns
<1>10. ASSUME NEW v \in Vcpus, vm_run_exit(v) PROVE Placed'
  BY <1>t, <1>10 DEF vm_run_exit, Returns, ExitCodes
<1>11. ASSUME NEW v \in Vcpus, vm_handle_hlt(v) PROVE Placed'
  BY <1>t, <1>11 DEF vm_handle_hlt, HaltOver, FallAsleep
<1>12. ASSUME NEW v \in Vcpus, vm_halted(v) PROVE Placed'
  BY <1>t, <1>12 DEF vm_halted, HaltOver, vm_suspend, FallAsleep
<1>13. ASSUME NEW v \in Vcpus, vcpu_sleep(v) PROVE Placed'
  BY <1>t, <1>13 DEF vcpu_sleep
<1>14. ASSUME NEW v \in Vcpus, vcpu_wake(v) PROVE Placed'
  BY <1>t, <1>14 DEF vcpu_wake, Awake, Returns
<1>15. ASSUME NEW v \in Vcpus, vm_handle_suspend(v) PROVE Placed'
  BY <1>t, <1>15 DEF vm_handle_suspend, AllSuspended, FallAsleep
<1>16. ASSUME NEW v \in Vcpus, vm_smp_rendezvous(v) PROVE Placed'
  BY <1>t, <1>16 DEF vm_smp_rendezvous
<1>17. ASSUME NEW v \in Vcpus, vm_handle_rendezvous(v) PROVE Placed'
  BY <1>t, <1>17 DEF vm_handle_rendezvous, Completed, Returns
<1>18. ASSUME NEW v \in Vcpus, NotifyLoop(v) PROVE Placed'
  BY <1>t, <1>18 DEF NotifyLoop, Targets, After, vcpu_notify_event, Returns
<1>19. ASSUME NEW v \in Vcpus, vm_run_return(v) PROVE Placed'
  BY <1>t, <1>19 DEF vm_run_return, Handler
<1>20. ASSUME NEW v \in Vcpus, vmexit_continue(v) PROVE Placed'
  BY <1>t, <1>20 DEF vmexit_continue
<1>21. ASSUME NEW v \in Vcpus, vmexit_poweroff(v) PROVE Placed'
  BY <1>t, <1>21 DEF vmexit_poweroff, vm_suspend
<1>22. ASSUME NEW v \in Vcpus, vmexit_spinup_ap(v) PROVE Placed'
  BY <1>t, <1>22 DEF vmexit_spinup_ap, NewCpus
<1>23. ASSUME NEW v \in Vcpus, vcpu_add(v) PROVE Placed'
  BY <1>t, <1>23 DEF vcpu_add
<1>24. ASSUME NEW v \in Vcpus, vcpu_delete(v) PROVE Placed'
  BY <1>t, <1>24 DEF vcpu_delete
<1>25. ASSUME NEW v \in Vcpus, vmexit_suspend_ap(v) PROVE Placed'
  BY <1>t, <1>25 DEF vmexit_suspend_ap
<1>26. ASSUME NEW v \in Vcpus, vmexit_suspend_bsp(v) PROVE Placed'
  BY <1>t, <1>26 DEF vmexit_suspend_bsp, ResetReady
<1>27. ASSUME NEW v \in Vcpus, GuestExit(v) PROVE Placed'
  BY <1>t, <1>27 DEF GuestExit, GuestExits, hv_vcpu_run
<1>28. ASSUME NEW v \in Vcpus, KickedExit(v) PROVE Placed'
  BY <1>t, <1>28 DEF KickedExit, hv_vcpu_run
<1>29. ASSUME NEW v \in active_cpus, NEW e \in EventKinds, vm_inject(v, e) PROVE Placed'
  BY <1>t, <1>29 DEF vm_inject
<1>30. CASE vm_inject_notify
  BY <1>t, <1>30 DEF vm_inject_notify, vcpu_notify_event
<1>31. CASE vm_signal_pause
  BY <1>t, <1>31 DEF vm_signal_pause
<1>32. CASE vm_signal_unpause
  BY <1>t, <1>32 DEF vm_signal_unpause, Thaw
<1>33. QED
  BY ONLY [Next]_vars, <1>1, <1>2, <1>3, <1>4, <1>5, <1>6, <1>7, <1>8, <1>9, <1>10, <1>11,
          <1>12, <1>13, <1>14, <1>15, <1>16, <1>17, <1>18, <1>19, <1>20, <1>21, <1>22, <1>23,
          <1>24, <1>25, <1>26, <1>27, <1>28, <1>29, <1>30, <1>31, <1>32, Zenon
  DEF Next, VcpuStep, Terminated

\* Every change of a vcpu's state is one vcpu_set_state_locked allows.
LEMMA TransitionStep ==
  ASSUME TypeControl, Returns, Placed, [Next]_vars
  PROVE  Transits
<1> USE VcpuAssumption DEF At, Goto, Exit, vcpu_set_state, rendezvousVars, activeVars,
       pauseVars, eventVars, callVars, wakeVars, haltVars, quiet, rest
<1>t. /\ pc \in [Vcpus -> Places] /\ state \in [Vcpus -> {"IDLE", "FROZEN", "RUNNING", "SLEEPING"}]
  BY DEF TypeControl
<1> USE DEF Placed, StateOf, IdlePlaces, FrozenPlaces, RunningPlaces, Transits, Allowed
<1>1. CASE UNCHANGED vars
  BY <1>1 DEF vars
<1>2. ASSUME NEW v \in Vcpus, xh_vm_run(v) PROVE Transits
  BY <1>t, <1>2 DEF xh_vm_run
<1>3. ASSUME NEW v \in Vcpus, vm_run_enter(v) PROVE Transits
  BY <1>t, <1>3 DEF vm_run_enter
<1>4. ASSUME NEW v \in Vcpus, vmx_inject(v) PROVE Transits
  BY <1>t, <1>4 DEF vmx_inject, SuspendCheck, vm_suspend, Returns
<1>5. ASSUME NEW v \in Vcpus, vmx_check_suspend(v) PROVE Transits
  BY <1>t, <1>5 DEF vmx_check_suspend, SuspendCheck
<1>6. ASSUME NEW v \in Vcpus, vmx_check_rendezvous(v) PROVE Transits
  BY <1>t, <1>6 DEF vmx_check_rendezvous
<1>7. ASSUME NEW v \in Vcpus, vm_exit_rendezvous(v) PROVE Transits
  BY <1>t, <1>7 DEF vm_exit_rendezvous
<1>8. ASSUME NEW v \in Vcpus, vm_check_for_unpause(v) PROVE Transits
  BY <1>t, <1>8 DEF vm_check_for_unpause, Unpaused, vm_mem_protect, Returns
<1>9. ASSUME NEW v \in Vcpus, vm_unpaused(v) PROVE Transits
  BY <1>t, <1>9 DEF vm_unpaused, Unpaused, Returns
<1>10. ASSUME NEW v \in Vcpus, vm_run_exit(v) PROVE Transits
  BY <1>t, <1>10 DEF vm_run_exit, Returns, ExitCodes
<1>11. ASSUME NEW v \in Vcpus, vm_handle_hlt(v) PROVE Transits
  BY <1>t, <1>11 DEF vm_handle_hlt, HaltOver, FallAsleep
<1>12. ASSUME NEW v \in Vcpus, vm_halted(v) PROVE Transits
  BY <1>t, <1>12 DEF vm_halted, HaltOver, vm_suspend, FallAsleep
<1>13. ASSUME NEW v \in Vcpus, vcpu_sleep(v) PROVE Transits
  BY <1>t, <1>13 DEF vcpu_sleep
<1>14. ASSUME NEW v \in Vcpus, vcpu_wake(v) PROVE Transits
  BY <1>t, <1>14 DEF vcpu_wake, Awake, Returns
<1>15. ASSUME NEW v \in Vcpus, vm_handle_suspend(v) PROVE Transits
  BY <1>t, <1>15 DEF vm_handle_suspend, AllSuspended, FallAsleep
<1>16. ASSUME NEW v \in Vcpus, vm_smp_rendezvous(v) PROVE Transits
  BY <1>t, <1>16 DEF vm_smp_rendezvous
<1>17. ASSUME NEW v \in Vcpus, vm_handle_rendezvous(v) PROVE Transits
  BY <1>t, <1>17 DEF vm_handle_rendezvous, Completed, Returns
<1>18. ASSUME NEW v \in Vcpus, NotifyLoop(v) PROVE Transits
  BY <1>t, <1>18 DEF NotifyLoop, Targets, After, vcpu_notify_event, Returns
<1>19. ASSUME NEW v \in Vcpus, vm_run_return(v) PROVE Transits
  BY <1>t, <1>19 DEF vm_run_return, Handler
<1>20. ASSUME NEW v \in Vcpus, vmexit_continue(v) PROVE Transits
  BY <1>t, <1>20 DEF vmexit_continue
<1>21. ASSUME NEW v \in Vcpus, vmexit_poweroff(v) PROVE Transits
  BY <1>t, <1>21 DEF vmexit_poweroff, vm_suspend
<1>22. ASSUME NEW v \in Vcpus, vmexit_spinup_ap(v) PROVE Transits
  BY <1>t, <1>22 DEF vmexit_spinup_ap, NewCpus
<1>23. ASSUME NEW v \in Vcpus, vcpu_add(v) PROVE Transits
  BY <1>t, <1>23 DEF vcpu_add
<1>24. ASSUME NEW v \in Vcpus, vcpu_delete(v) PROVE Transits
  BY <1>t, <1>24 DEF vcpu_delete
<1>25. ASSUME NEW v \in Vcpus, vmexit_suspend_ap(v) PROVE Transits
  BY <1>t, <1>25 DEF vmexit_suspend_ap
<1>26. ASSUME NEW v \in Vcpus, vmexit_suspend_bsp(v) PROVE Transits
  BY <1>t, <1>26 DEF vmexit_suspend_bsp, ResetReady
<1>27. ASSUME NEW v \in Vcpus, GuestExit(v) PROVE Transits
  BY <1>t, <1>27 DEF GuestExit, GuestExits, hv_vcpu_run
<1>28. ASSUME NEW v \in Vcpus, KickedExit(v) PROVE Transits
  BY <1>t, <1>28 DEF KickedExit, hv_vcpu_run
<1>29. ASSUME NEW v \in active_cpus, NEW e \in EventKinds, vm_inject(v, e) PROVE Transits
  BY <1>t, <1>29 DEF vm_inject
<1>30. CASE vm_inject_notify
  BY <1>t, <1>30 DEF vm_inject_notify, vcpu_notify_event
<1>31. CASE vm_signal_pause
  BY <1>t, <1>31 DEF vm_signal_pause
<1>32. CASE vm_signal_unpause
  BY <1>t, <1>32 DEF vm_signal_unpause, Thaw
<1>33. QED
  BY ONLY [Next]_vars, <1>1, <1>2, <1>3, <1>4, <1>5, <1>6, <1>7, <1>8, <1>9, <1>10, <1>11,
          <1>12, <1>13, <1>14, <1>15, <1>16, <1>17, <1>18, <1>19, <1>20, <1>21, <1>22, <1>23,
          <1>24, <1>25, <1>26, <1>27, <1>28, <1>29, <1>30, <1>31, <1>32, Zenon
  DEF Next, VcpuStep, Terminated

\* active_cpus only grows, and includes every cpu whose thread runs.
LEMMA JoinedStep ==
  ASSUME TypeControl, TypeData, Returns, Joined, [Next]_vars
  PROVE  Joined'
<1> USE VcpuAssumption DEF At, Goto, Exit, vcpu_set_state, rendezvousVars, activeVars,
       pauseVars, eventVars, callVars, wakeVars, haltVars, quiet, rest
<1>t. /\ pc \in [Vcpus -> Places] /\ active_cpus \subseteq Vcpus
      /\ dest \in [Vcpus -> SUBSET Vcpus]
  BY DEF TypeControl, TypeData
<1> USE DEF Joined
<1>1. CASE UNCHANGED vars
  BY <1>1 DEF vars
<1>2. ASSUME NEW v \in Vcpus, xh_vm_run(v) PROVE Joined'
  BY <1>t, <1>2 DEF xh_vm_run
<1>3. ASSUME NEW v \in Vcpus, vm_run_enter(v) PROVE Joined'
  BY <1>t, <1>3 DEF vm_run_enter
<1>4. ASSUME NEW v \in Vcpus, vmx_inject(v) PROVE Joined'
  BY <1>t, <1>4 DEF vmx_inject, SuspendCheck, vm_suspend, Returns
<1>5. ASSUME NEW v \in Vcpus, vmx_check_suspend(v) PROVE Joined'
  BY <1>t, <1>5 DEF vmx_check_suspend, SuspendCheck
<1>6. ASSUME NEW v \in Vcpus, vmx_check_rendezvous(v) PROVE Joined'
  BY <1>t, <1>6 DEF vmx_check_rendezvous
<1>7. ASSUME NEW v \in Vcpus, vm_exit_rendezvous(v) PROVE Joined'
  BY <1>t, <1>7 DEF vm_exit_rendezvous
<1>8. ASSUME NEW v \in Vcpus, vm_check_for_unpause(v) PROVE Joined'
  BY <1>t, <1>8 DEF vm_check_for_unpause, Unpaused, vm_mem_protect, Returns
<1>9. ASSUME NEW v \in Vcpus, vm_unpaused(v) PROVE Joined'
  BY <1>t, <1>9 DEF vm_unpaused, Unpaused, Returns
<1>10. ASSUME NEW v \in Vcpus, vm_run_exit(v) PROVE Joined'
  BY <1>t, <1>10 DEF vm_run_exit, Returns, ExitCodes
<1>11. ASSUME NEW v \in Vcpus, vm_handle_hlt(v) PROVE Joined'
  BY <1>t, <1>11 DEF vm_handle_hlt, HaltOver, FallAsleep
<1>12. ASSUME NEW v \in Vcpus, vm_halted(v) PROVE Joined'
  BY <1>t, <1>12 DEF vm_halted, HaltOver, vm_suspend, FallAsleep
<1>13. ASSUME NEW v \in Vcpus, vcpu_sleep(v) PROVE Joined'
  BY <1>t, <1>13 DEF vcpu_sleep
<1>14. ASSUME NEW v \in Vcpus, vcpu_wake(v) PROVE Joined'
  BY <1>t, <1>14 DEF vcpu_wake, Awake, Returns
<1>15. ASSUME NEW v \in Vcpus, vm_handle_suspend(v) PROVE Joined'
  BY <1>t, <1>15 DEF vm_handle_suspend, AllSuspended, FallAsleep
<1>16. ASSUME NEW v \in Vcpus, vm_smp_rendezvous(v) PROVE Joined'
  BY <1>t, <1>16 DEF vm_smp_rendezvous
<1>17. ASSUME NEW v \in Vcpus, vm_handle_rendezvous(v) PROVE Joined'
  BY <1>t, <1>17 DEF vm_handle_rendezvous, Completed, Returns
<1>18. ASSUME NEW v \in Vcpus, NotifyLoop(v) PROVE Joined'
  BY <1>t, <1>18 DEF NotifyLoop, Targets, After, vcpu_notify_event, Returns
<1>19. ASSUME NEW v \in Vcpus, vm_run_return(v) PROVE Joined'
  BY <1>t, <1>19 DEF vm_run_return, Handler
<1>20. ASSUME NEW v \in Vcpus, vmexit_continue(v) PROVE Joined'
  BY <1>t, <1>20 DEF vmexit_continue
<1>21. ASSUME NEW v \in Vcpus, vmexit_poweroff(v) PROVE Joined'
  BY <1>t, <1>21 DEF vmexit_poweroff, vm_suspend
<1>22. ASSUME NEW v \in Vcpus, vmexit_spinup_ap(v) PROVE Joined'
  BY <1>t, <1>22 DEF vmexit_spinup_ap, NewCpus
<1>23. ASSUME NEW v \in Vcpus, vcpu_add(v) PROVE Joined'
  BY <1>t, <1>23 DEF vcpu_add
<1>24. ASSUME NEW v \in Vcpus, vcpu_delete(v) PROVE Joined'
  BY <1>t, <1>24 DEF vcpu_delete
<1>25. ASSUME NEW v \in Vcpus, vmexit_suspend_ap(v) PROVE Joined'
  BY <1>t, <1>25 DEF vmexit_suspend_ap
<1>26. ASSUME NEW v \in Vcpus, vmexit_suspend_bsp(v) PROVE Joined'
  BY <1>t, <1>26 DEF vmexit_suspend_bsp, ResetReady
<1>27. ASSUME NEW v \in Vcpus, GuestExit(v) PROVE Joined'
  BY <1>t, <1>27 DEF GuestExit, GuestExits, hv_vcpu_run
<1>28. ASSUME NEW v \in Vcpus, KickedExit(v) PROVE Joined'
  BY <1>t, <1>28 DEF KickedExit, hv_vcpu_run
<1>29. ASSUME NEW v \in active_cpus, NEW e \in EventKinds, vm_inject(v, e) PROVE Joined'
  BY <1>t, <1>29 DEF vm_inject
<1>30. CASE vm_inject_notify
  BY <1>t, <1>30 DEF vm_inject_notify, vcpu_notify_event
<1>31. CASE vm_signal_pause
  BY <1>t, <1>31 DEF vm_signal_pause
<1>32. CASE vm_signal_unpause
  BY <1>t, <1>32 DEF vm_signal_unpause, Thaw
<1>33. QED
  BY ONLY [Next]_vars, <1>1, <1>2, <1>3, <1>4, <1>5, <1>6, <1>7, <1>8, <1>9, <1>10, <1>11,
          <1>12, <1>13, <1>14, <1>15, <1>16, <1>17, <1>18, <1>19, <1>20, <1>21, <1>22, <1>23,
          <1>24, <1>25, <1>26, <1>27, <1>28, <1>29, <1>30, <1>31, <1>32, Zenon
  DEF Next, VcpuStep, Terminated

\* Pausing protects guest memory, waking up makes it accessible again.
LEMMA PauseStep ==
  ASSUME TypeControl, TypeData, Returns, Joined, PauseInv, [Next]_vars
  PROVE  PauseInv'
<1> USE VcpuAssumption DEF At, Goto, Exit, vcpu_set_state, rendezvousVars, activeVars,
       pauseVars, eventVars, callVars, wakeVars, haltVars, quiet, rest
<1>t. /\ pc \in [Vcpus -> Places] /\ active_cpus \subseteq Vcpus /\ mem_protected \in BOOLEAN
      /\ \A v \in Vcpus : pc[v] # "off" => v \in active_cpus
      /\ BSP \in active_cpus
  BY DEF TypeControl, TypeData, Joined
<1> USE DEF PauseInv, ThawWakes
<1>1. CASE UNCHANGED vars
  BY <1>1 DEF vars
<1>2. ASSUME NEW v \in Vcpus, xh_vm_run(v) PROVE PauseInv'
  BY <1>t, <1>2 DEF xh_vm_run
<1>3. ASSUME NEW v \in Vcpus, vm_run_enter(v) PROVE PauseInv'
  BY <1>t, <1>3 DEF vm_run_enter
<1>4. ASSUME NEW v \in Vcpus, vmx_inject(v) PROVE PauseInv'
  BY <1>t, <1>4 DEF vmx_inject, SuspendCheck, vm_suspend, Returns
<1>5. ASSUME NEW v \in Vcpus, vmx_check_suspend(v) PROVE PauseInv'
  BY <1>t, <1>5 DEF vmx_check_suspend, SuspendCheck
<1>6. ASSUME NEW v \in Vcpus, vmx_check_rendezvous(v) PROVE PauseInv'
  BY <1>t, <1>6 DEF vmx_check_rendezvous
<1>7. ASSUME NEW v \in Vcpus, vm_exit_rendezvous(v) PROVE PauseInv'
  BY <1>t, <1>7 DEF vm_exit_rendezvous
<1>8. ASSUME NEW v \in Vcpus, vm_check_for_unpause(v) PROVE PauseInv'
  BY <1>t, <1>8 DEF vm_check_for_unpause, Unpaused, vm_mem_protect, Returns
<1>9. ASSUME NEW v \in Vcpus, vm_unpaused(v) PROVE PauseInv'
  BY <1>t, <1>9 DEF vm_unpaused, Unpaused, Returns
<1>10. ASSUME NEW v \in Vcpus, vm_run_exit(v) PROVE PauseInv'
  BY <1>t, <1>10 DEF vm_run_exit, Returns, ExitCodes
<1>11. ASSUME NEW v \in Vcpus, vm_handle_hlt(v) PROVE PauseInv'
  BY <1>t, <1>11 DEF vm_handle_hlt, HaltOver, FallAsleep
<1>12. ASSUME NEW v \in Vcpus, vm_halted(v) PROVE PauseInv'
  BY <1>t, <1>12 DEF vm_halted, HaltOver, vm_suspend, FallAsleep
<1>13. ASSUME NEW v \in Vcpus, vcpu_sleep(v) PROVE PauseInv'
  BY <1>t, <1>13 DEF vcpu_sleep
<1>14. ASSUME NEW v \in Vcpus, vcpu_wake(v) PROVE PauseInv'
  BY <1>t, <1>14 DEF vcpu_wake, Awake, Returns
<1>15. ASSUME NEW v \in Vcpus, vm_handle_suspend(v) PROVE PauseInv'
  BY <1>t, <1>15 DEF vm_handle_suspend, AllSuspended, FallAsleep
<1>16. ASSUME NEW v \in Vcpus, vm_smp_rendezvous(v) PROVE PauseInv'
  BY <1>t, <1>16 DEF vm_smp_rendezvous
<1>17. ASSUME NEW v \in Vcpus, vm_handle_rendezvous(v) PROVE PauseInv'
  BY <1>t, <1>17 DEF vm_handle_rendezvous, Completed, Returns
<1>18. ASSUME NEW v \in Vcpus, NotifyLoop(v) PROVE PauseInv'
  BY <1>t, <1>18 DEF NotifyLoop, Targets, After, vcpu_notify_event, Returns
<1>19. ASSUME NEW v \in Vcpus, vm_run_return(v) PROVE PauseInv'
  BY <1>t, <1>19 DEF vm_run_return, Handler
<1>20. ASSUME NEW v \in Vcpus, vmexit_continue(v) PROVE PauseInv'
  BY <1>t, <1>20 DEF vmexit_continue
<1>21. ASSUME NEW v \in Vcpus, vmexit_poweroff(v) PROVE PauseInv'
  BY <1>t, <1>21 DEF vmexit_poweroff, vm_suspend
<1>22. ASSUME NEW v \in Vcpus, vmexit_spinup_ap(v) PROVE PauseInv'
  BY <1>t, <1>22 DEF vmexit_spinup_ap, NewCpus
<1>23. ASSUME NEW v \in Vcpus, vcpu_add(v) PROVE PauseInv'
  BY <1>t, <1>23 DEF vcpu_add
<1>24. ASSUME NEW v \in Vcpus, vcpu_delete(v) PROVE PauseInv'
  BY <1>t, <1>24 DEF vcpu_delete
<1>25. ASSUME NEW v \in Vcpus, vmexit_suspend_ap(v) PROVE PauseInv'
  BY <1>t, <1>25 DEF vmexit_suspend_ap
<1>26. ASSUME NEW v \in Vcpus, vmexit_suspend_bsp(v) PROVE PauseInv'
  BY <1>t, <1>26 DEF vmexit_suspend_bsp, ResetReady
<1>27. ASSUME NEW v \in Vcpus, GuestExit(v) PROVE PauseInv'
  BY <1>t, <1>27 DEF GuestExit, GuestExits, hv_vcpu_run
<1>28. ASSUME NEW v \in Vcpus, KickedExit(v) PROVE PauseInv'
  BY <1>t, <1>28 DEF KickedExit, hv_vcpu_run
<1>29. ASSUME NEW v \in active_cpus, NEW e \in EventKinds, vm_inject(v, e) PROVE PauseInv'
  BY <1>t, <1>29 DEF vm_inject
<1>30. CASE vm_inject_notify
  BY <1>t, <1>30 DEF vm_inject_notify, vcpu_notify_event
<1>31. CASE vm_signal_pause
  BY <1>t, <1>31 DEF vm_signal_pause
<1>32. CASE vm_signal_unpause
  BY <1>t, <1>32 DEF vm_signal_unpause, Thaw
<1>33. QED
  BY ONLY [Next]_vars, <1>1, <1>2, <1>3, <1>4, <1>5, <1>6, <1>7, <1>8, <1>9, <1>10, <1>11,
          <1>12, <1>13, <1>14, <1>15, <1>16, <1>17, <1>18, <1>19, <1>20, <1>21, <1>22, <1>23,
          <1>24, <1>25, <1>26, <1>27, <1>28, <1>29, <1>30, <1>31, <1>32, Zenon
  DEF Next, VcpuStep, Terminated

-----------------------------------------------------------------------------
(* Every step keeps the barriers.                                          *)

\* A step that activates and suspends no cpu keeps SuspendInv when nobody who is
\* Stopped gets away and nobody passes the barrier early.
LEMMA SuspendFrame ==
  ASSUME TypeData, SuspendInv, UNCHANGED <<active_cpus, suspended_cpus>>,
         \A u \in Vcpus : /\ Stopped(u) => Stopped(u)'
                          /\ Suspended(u)' => Suspended(u) \/ suspended_cpus = active_cpus
  PROVE  SuspendInv'
<1>1. suspended_cpus \subseteq Vcpus
  BY DEF TypeData
<1>2. (\A u \in suspended_cpus : Stopped(u))'
  BY <1>1 DEF SuspendInv
<1>3. SuspendBarrier'
  BY DEF SuspendInv, SuspendBarrier
<1> QED BY <1>2, <1>3 DEF SuspendInv

\* A step of a thread among other places than Outside does not matter to Ended.
LEMMA EndedFrame ==
  ASSUME TypeControl, TypeData, Ended, BSP \in active_cpus,
         UNCHANGED <<active_cpus, cpumask>>, died = "no", died' # "exit",
         \A u \in Vcpus : pc'[u] = pc[u] \/ (pc[u] \notin Outside /\ pc'[u] \notin Outside)
  PROVE  Ended'
<1> USE DEF Outside
<1>0. active_cpus \subseteq Vcpus /\ BSP \in Vcpus
  BY DEF TypeData
<1>1. (\A v \in Vcpus : pc[v] \in {"reset", "reset_wait", "add"} => v = BSP)'
  BY DEF Ended, BSP
<1>2. (\A v \in active_cpus : pc[v] = "off" => pc[BSP] = "add")'
  BY <1>0 DEF Ended, BSP
<1>3. (\A v, w \in active_cpus : pc[v] = "off" /\ pc[w] = "off" => v = w)'
  BY <1>0 DEF Ended
<1>4. (\A v \in active_cpus :
         pc[v] \notin {"off", "signal", "gone", "reset", "reset_wait"} => v \in cpumask)'
  BY <1>0 DEF Ended
<1>5. ExitAfterAll'
  BY DEF ExitAfterAll
<1> QED BY <1>1, <1>2, <1>3, <1>4, <1>5 DEF Ended

\* A cpu that runs the function is struck off; the rendezvous ends when none is left.
LEMMA OwedStep ==
  ASSUME TypeControl, TypeData, Joined, Owed, [Next]_vars
  PROVE  Owed'
<1> USE VcpuAssumption DEF At, Goto, Exit, vcpu_set_state, rendezvousVars, activeVars,
       pauseVars, eventVars, callVars, wakeVars, haltVars, quiet, rest
<1>t. /\ pc \in [Vcpus -> Places] /\ owed \in [Vcpus -> SUBSET Vcpus]
      /\ rendezvous_func \in Vcpus \cup {NoVcpu} /\ NoVcpu \notin Vcpus
      /\ rendezvous_req_cpus \subseteq active_cpus /\ dest \in [Vcpus -> SUBSET Vcpus]
  BY DEF TypeControl, TypeData, Joined, Vcpus
<1> USE DEF Owed
<1>1. CASE UNCHANGED vars
  BY <1>1 DEF vars
<1>2. ASSUME NEW v \in Vcpus, xh_vm_run(v) PROVE Owed'
  BY <1>t, <1>2 DEF xh_vm_run
<1>3. ASSUME NEW v \in Vcpus, vm_run_enter(v) PROVE Owed'
  BY <1>t, <1>3 DEF vm_run_enter
<1>4. ASSUME NEW v \in Vcpus, vmx_inject(v) PROVE Owed'
  BY <1>t, <1>4 DEF vmx_inject, SuspendCheck, vm_suspend
<1>5. ASSUME NEW v \in Vcpus, vmx_check_suspend(v) PROVE Owed'
  BY <1>t, <1>5 DEF vmx_check_suspend, SuspendCheck
<1>6. ASSUME NEW v \in Vcpus, vmx_check_rendezvous(v) PROVE Owed'
  BY <1>t, <1>6 DEF vmx_check_rendezvous
<1>7. ASSUME NEW v \in Vcpus, vm_exit_rendezvous(v) PROVE Owed'
  BY <1>t, <1>7 DEF vm_exit_rendezvous
<1>8. ASSUME NEW v \in Vcpus, vm_check_for_unpause(v) PROVE Owed'
  BY <1>t, <1>8 DEF vm_check_for_unpause, Unpaused, vm_mem_protect
<1>9. ASSUME NEW v \in Vcpus, vm_unpaused(v) PROVE Owed'
  BY <1>t, <1>9 DEF vm_unpaused, Unpaused
<1>10. ASSUME NEW v \in Vcpus, vm_run_exit(v) PROVE Owed'
  BY <1>t, <1>10 DEF vm_run_exit
<1>11. ASSUME NEW v \in Vcpus, vm_handle_hlt(v) PROVE Owed'
  BY <1>t, <1>11 DEF vm_handle_hlt, HaltOver, FallAsleep
<1>12. ASSUME NEW v \in Vcpus, vm_halted(v) PROVE Owed'
  BY <1>t, <1>12 DEF vm_halted, HaltOver, vm_suspend, FallAsleep
<1>13. ASSUME NEW v \in Vcpus, vcpu_sleep(v) PROVE Owed'
  BY <1>t, <1>13 DEF vcpu_sleep
<1>14. ASSUME NEW v \in Vcpus, vcpu_wake(v) PROVE Owed'
  BY <1>t, <1>14 DEF vcpu_wake, Awake
<1>15. ASSUME NEW v \in Vcpus, vm_handle_suspend(v) PROVE Owed'
  BY <1>t, <1>15 DEF vm_handle_suspend, AllSuspended, FallAsleep
<1>16. ASSUME NEW v \in Vcpus, vm_smp_rendezvous(v) PROVE Owed'
  BY <1>t, <1>16, SMTT(20) DEF vm_smp_rendezvous
<1>17. ASSUME NEW v \in Vcpus, vm_handle_rendezvous(v) PROVE Owed'
  BY <1>t, <1>17, SMTT(20) DEF vm_handle_rendezvous, Completed
<1>18. ASSUME NEW v \in Vcpus, NotifyLoop(v) PROVE Owed'
  BY <1>t, <1>18 DEF NotifyLoop, Targets, After, vcpu_notify_event
<1>19. ASSUME NEW v \in Vcpus, vm_run_return(v) PROVE Owed'
  BY <1>t, <1>19 DEF vm_run_return, Handler
<1>20. ASSUME NEW v \in Vcpus, vmexit_continue(v) PROVE Owed'
  BY <1>t, <1>20 DEF vmexit_continue
<1>21. ASSUME NEW v \in Vcpus, vmexit_poweroff(v) PROVE Owed'
  BY <1>t, <1>21 DEF vmexit_poweroff, vm_suspend
<1>22. ASSUME NEW v \in Vcpus, vmexit_spinup_ap(v) PROVE Owed'
  BY <1>t, <1>22 DEF vmexit_spinup_ap, NewCpus
<1>23. ASSUME NEW v \in Vcpus, vcpu_add(v) PROVE Owed'
  BY <1>t, <1>23 DEF vcpu_add
<1>24. ASSUME NEW v \in Vcpus, vcpu_delete(v) PROVE Owed'
  BY <1>t, <1>24 DEF vcpu_delete
<1>25. ASSUME NEW v \in Vcpus, vmexit_suspend_ap(v) PROVE Owed'
  BY <1>t, <1>25 DEF vmexit_suspend_ap
<1>26. ASSUME NEW v \in Vcpus, vmexit_suspend_bsp(v) PROVE Owed'
  BY <1>t, <1>26 DEF vmexit_suspend_bsp, ResetReady
<1>27. ASSUME NEW v \in Vcpus, GuestExit(v) PROVE Owed'
  BY <1>t, <1>27 DEF GuestExit, GuestExits, hv_vcpu_run
<1>28. ASSUME NEW v \in Vcpus, KickedExit(v) PROVE Owed'
  BY <1>t, <1>28 DEF KickedExit, hv_vcpu_run
<1>29. ASSUME NEW v \in active_cpus, NEW e \in EventKinds, vm_inject(v, e) PROVE Owed'
  BY <1>t, <1>29 DEF vm_inject
<1>30. CASE vm_inject_notify
  BY <1>t, <1>30 DEF vm_inject_notify, vcpu_notify_event
<1>31. CASE vm_signal_pause
  BY <1>t, <1>31 DEF vm_signal_pause
<1>32. CASE vm_signal_unpause
  BY <1>t, <1>32 DEF vm_signal_unpause, Thaw
<1>33. QED
  BY ONLY [Next]_vars, <1>1, <1>2, <1>3, <1>4, <1>5, <1>6, <1>7, <1>8, <1>9, <1>10, <1>11,
          <1>12, <1>13, <1>14, <1>15, <1>16, <1>17, <1>18, <1>19, <1>20, <1>21, <1>22, <1>23,
          <1>24, <1>25, <1>26, <1>27, <1>28, <1>29, <1>30, <1>31, <1>32, Zenon
  DEF Next, VcpuStep, Terminated

\* A vcpu leaves vm_handle_hlt only after HaltOver.
LEMMA HaltedStep ==
  ASSUME TypeControl, TypeData, HaltedAccurate, [Next]_vars
  PROVE  HaltedAccurate'
<1> USE VcpuAssumption DEF At, Goto, Exit, vcpu_set_state, rendezvousVars, activeVars,
       pauseVars, eventVars, callVars, wakeVars, haltVars, quiet, rest
<1>t. /\ pc \in [Vcpus -> Places] /\ halted_cpus \subseteq Vcpus
      /\ exitcode \in [Vcpus -> ExitCodes]
      /\ ret \in [Vcpus -> {"enter", "check_suspend", "hlt", "suspend", "smp_rendezvous", "loop"}]
  BY DEF TypeControl, TypeData
<1> USE DEF HaltedAccurate
<1>1. CASE UNCHANGED vars
  BY <1>1, Zenon DEF vars
<1>2. ASSUME NEW v \in Vcpus, xh_vm_run(v) PROVE HaltedAccurate'
  BY <1>t, <1>2 DEF xh_vm_run
<1>3. ASSUME NEW v \in Vcpus, vm_run_enter(v) PROVE HaltedAccurate'
  BY <1>t, <1>3 DEF vm_run_enter
<1>4. ASSUME NEW v \in Vcpus, vmx_inject(v) PROVE HaltedAccurate'
  BY <1>t, <1>4 DEF vmx_inject, SuspendCheck, vm_suspend
<1>5. ASSUME NEW v \in Vcpus, vmx_check_suspend(v) PROVE HaltedAccurate'
  BY <1>t, <1>5 DEF vmx_check_suspend, SuspendCheck
<1>6. ASSUME NEW v \in Vcpus, vmx_check_rendezvous(v) PROVE HaltedAccurate'
  BY <1>t, <1>6 DEF vmx_check_rendezvous
<1>7. ASSUME NEW v \in Vcpus, vm_exit_rendezvous(v) PROVE HaltedAccurate'
  BY <1>t, <1>7 DEF vm_exit_rendezvous
<1>8. ASSUME NEW v \in Vcpus, vm_check_for_unpause(v) PROVE HaltedAccurate'
  BY <1>t, <1>8 DEF vm_check_for_unpause, Unpaused, vm_mem_protect
<1>9. ASSUME NEW v \in Vcpus, vm_unpaused(v) PROVE HaltedAccurate'
  BY <1>t, <1>9 DEF vm_unpaused, Unpaused
<1>10. ASSUME NEW v \in Vcpus, vm_run_exit(v) PROVE HaltedAccurate'
  BY <1>t, <1>10 DEF vm_run_exit
<1>11. ASSUME NEW v \in Vcpus, vm_handle_hlt(v) PROVE HaltedAccurate'
  BY <1>t, <1>11, SMTT(20) DEF vm_handle_hlt, HaltOver, FallAsleep
<1>12. ASSUME NEW v \in Vcpus, vm_halted(v) PROVE HaltedAccurate'
  BY <1>t, <1>12, SMTT(20) DEF vm_halted, HaltOver, vm_suspend, FallAsleep
<1>13. ASSUME NEW v \in Vcpus, vcpu_sleep(v) PROVE HaltedAccurate'
  BY <1>t, <1>13 DEF vcpu_sleep
<1>14. ASSUME NEW v \in Vcpus, vcpu_wake(v) PROVE HaltedAccurate'
  BY <1>t, <1>14 DEF vcpu_wake, Awake
<1>15. ASSUME NEW v \in Vcpus, vm_handle_suspend(v) PROVE HaltedAccurate'
  BY <1>t, <1>15 DEF vm_handle_suspend, AllSuspended, FallAsleep
<1>16. ASSUME NEW v \in Vcpus, vm_smp_rendezvous(v) PROVE HaltedAccurate'
  BY <1>t, <1>16 DEF vm_smp_rendezvous
<1>17. ASSUME NEW v \in Vcpus, vm_handle_rendezvous(v) PROVE HaltedAccurate'
  BY <1>t, <1>17 DEF vm_handle_rendezvous, Completed
<1>18. ASSUME NEW v \in Vcpus, NotifyLoop(v) PROVE HaltedAccurate'
  BY <1>t, <1>18 DEF NotifyLoop, Targets, After, vcpu_notify_event
<1>19. ASSUME NEW v \in Vcpus, vm_run_return(v) PROVE HaltedAccurate'
  BY <1>t, <1>19 DEF vm_run_return, Handler
<1>20. ASSUME NEW v \in Vcpus, vmexit_continue(v) PROVE HaltedAccurate'
  BY <1>t, <1>20 DEF vmexit_continue
<1>21. ASSUME NEW v \in Vcpus, vmexit_poweroff(v) PROVE HaltedAccurate'
  BY <1>t, <1>21 DEF vmexit_poweroff, vm_suspend
<1>22. ASSUME NEW v \in Vcpus, vmexit_spinup_ap(v) PROVE HaltedAccurate'
  BY <1>t, <1>22 DEF vmexit_spinup_ap, NewCpus
<1>23. ASSUME NEW v \in Vcpus, vcpu_add(v) PROVE HaltedAccurate'
  BY <1>t, <1>23 DEF vcpu_add
<1>24. ASSUME NEW v \in Vcpus, vcpu_delete(v) PROVE HaltedAccurate'
  BY <1>t, <1>24 DEF vcpu_delete
<1>25. ASSUME NEW v \in Vcpus, vmexit_suspend_ap(v) PROVE HaltedAccurate'
  BY <1>t, <1>25 DEF vmexit_suspend_ap
<1>26. ASSUME NEW v \in Vcpus, vmexit_suspend_bsp(v) PROVE HaltedAccurate'
  BY <1>t, <1>26 DEF vmexit_suspend_bsp, ResetReady
<1>27. ASSUME NEW v \in Vcpus, GuestExit(v) PROVE HaltedAccurate'
  BY <1>t, <1>27 DEF GuestExit, GuestExits, hv_vcpu_run
<1>28. ASSUME NEW v \in Vcpus, KickedExit(v) PROVE HaltedAccurate'
  BY <1>t, <1>28 DEF KickedExit, hv_vcpu_run
<1>29. ASSUME NEW v \in active_cpus, NEW e \in EventKinds, vm_inject(v, e) PROVE HaltedAccurate'
  BY <1>t, <1>29 DEF vm_inject
<1>30. CASE vm_inject_notify
  BY <1>t, <1>30 DEF vm_inject_notify, vcpu_notify_event
<1>31. CASE vm_signal_pause
  BY <1>t, <1>31 DEF vm_signal_pause
<1>32. CASE vm_signal_unpause
  BY <1>t, <1>32 DEF vm_signal_unpause, Thaw
<1>33. QED
  BY ONLY [Next]_vars, <1>1, <1>2, <1>3, <1>4, <1>5, <1>6, <1>7, <1>8, <1>9, <1>10, <1>11,
          <1>12, <1>13, <1>14, <1>15, <1>16, <1>17, <1>18, <1>19, <1>20, <1>21, <1>22, <1>23,
          <1>24, <1>25, <1>26, <1>27, <1>28, <1>29, <1>30, <1>31, <1>32, Zenon
  DEF Next, VcpuStep, Terminated

\* The barrier of vm_handle_suspend.
LEMMA SuspendStep ==
  ASSUME TypeControl, TypeData, Returns, Joined, SuspendInv, [Next]_vars
  PROVE  SuspendInv'
<1> USE VcpuAssumption DEF At, Goto, Exit, vcpu_set_state, rendezvousVars, activeVars,
       pauseVars, eventVars, callVars, wakeVars, haltVars, quiet, rest
<1>t. /\ pc \in [Vcpus -> Places] /\ active_cpus \subseteq Vcpus
      /\ exitcode \in [Vcpus -> ExitCodes]
      /\ ret \in [Vcpus -> {"enter", "check_suspend", "hlt", "suspend", "smp_rendezvous", "loop"}]
      /\ \A v \in Vcpus : pc[v] # "off" => v \in active_cpus
      /\ BSP \in active_cpus
  BY DEF TypeControl, TypeData, Joined
<1> USE DEF Suspended, Stopped
<1>1. CASE UNCHANGED vars
  BY SuspendFrame, <1>1, Zenon DEF vars
<1>2. ASSUME NEW v \in Vcpus, xh_vm_run(v) PROVE SuspendInv'
  BY <1>t, SuspendFrame, <1>2, SMTT(20) DEF xh_vm_run
<1>3. ASSUME NEW v \in Vcpus, vm_run_enter(v) PROVE SuspendInv'
  BY <1>t, SuspendFrame, <1>3, SMTT(20) DEF vm_run_enter
<1>4. ASSUME NEW v \in Vcpus, vmx_inject(v) PROVE SuspendInv'
  BY <1>t, SuspendFrame, <1>4, SMTT(20) DEF vmx_inject, SuspendCheck, vm_suspend, Returns
<1>5. ASSUME NEW v \in Vcpus, vmx_check_suspend(v) PROVE SuspendInv'
  BY <1>t, SuspendFrame, <1>5, SMTT(20) DEF vmx_check_suspend, SuspendCheck
<1>6. ASSUME NEW v \in Vcpus, vmx_check_rendezvous(v) PROVE SuspendInv'
  BY <1>t, SuspendFrame, <1>6, SMTT(20) DEF vmx_check_rendezvous
<1>7. ASSUME NEW v \in Vcpus, vm_exit_rendezvous(v) PROVE SuspendInv'
  BY <1>t, SuspendFrame, <1>7, SMTT(20) DEF vm_exit_rendezvous
<1>8. ASSUME NEW v \in Vcpus, vm_check_for_unpause(v) PROVE SuspendInv'
  BY <1>t, SuspendFrame, <1>8, SMTT(20) DEF vm_check_for_unpause, Unpaused, vm_mem_protect, Returns
<1>9. ASSUME NEW v \in Vcpus, vm_unpaused(v) PROVE SuspendInv'
  BY <1>t, SuspendFrame, <1>9, SMTT(20) DEF vm_unpaused, Unpaused, Returns
<1>10. ASSUME NEW v \in Vcpus, vm_run_exit(v) PROVE SuspendInv'
  BY <1>t, <1>10, SMTT(20) DEF vm_run_exit, SuspendInv, SuspendBarrier, Returns, ExitCodes
<1>11. ASSUME NEW v \in Vcpus, vm_handle_hlt(v) PROVE SuspendInv'
  BY <1>t, SuspendFrame, <1>11, SMTT(20) DEF vm_handle_hlt, HaltOver, FallAsleep
<1>12. ASSUME NEW v \in Vcpus, vm_halted(v) PROVE SuspendInv'
  BY <1>t, SuspendFrame, <1>12, SMTT(20) DEF vm_halted, HaltOver, vm_suspend, FallAsleep
<1>13. ASSUME NEW v \in Vcpus, vcpu_sleep(v) PROVE SuspendInv'
  BY <1>t, SuspendFrame, <1>13, SMTT(20) DEF vcpu_sleep
<1>14. ASSUME NEW v \in Vcpus, vcpu_wake(v) PROVE SuspendInv'
  BY <1>t, SuspendFrame, <1>14, SMTT(20) DEF vcpu_wake, Awake, Returns
<1>15. ASSUME NEW v \in Vcpus, vm_handle_suspend(v) PROVE SuspendInv'
  BY <1>t, SuspendFrame, <1>15, SMTT(20) DEF vm_handle_suspend, AllSuspended, FallAsleep
<1>16. ASSUME NEW v \in Vcpus, vm_smp_rendezvous(v) PROVE SuspendInv'
  BY <1>t, SuspendFrame, <1>16, SMTT(20) DEF vm_smp_rendezvous
<1>17. ASSUME NEW v \in Vcpus, vm_handle_rendezvous(v) PROVE SuspendInv'
  BY <1>t, SuspendFrame, <1>17, SMTT(20) DEF vm_handle_rendezvous, Completed, Returns
<1>18. ASSUME NEW v \in Vcpus, NotifyLoop(v) PROVE SuspendInv'
  BY <1>t, SuspendFrame, <1>18, SMTT(20) DEF NotifyLoop, Targets, After, vcpu_notify_event, Returns
<1>19. ASSUME NEW v \in Vcpus, vm_run_return(v) PROVE SuspendInv'
  BY <1>t, SuspendFrame, <1>19, SMTT(20) DEF vm_run_return, Handler
<1>20. ASSUME NEW v \in Vcpus, vmexit_continue(v) PROVE SuspendInv'
  BY <1>t, SuspendFrame, <1>20, SMTT(20) DEF vmexit_continue
<1>21. ASSUME NEW v \in Vcpus, vmexit_poweroff(v) PROVE SuspendInv'
  BY <1>t, SuspendFrame, <1>21, SMTT(20) DEF vmexit_poweroff, vm_suspend
<1>22. ASSUME NEW v \in Vcpus, vmexit_spinup_ap(v) PROVE SuspendInv'
  BY <1>t, <1>22, SMTT(20) DEF vmexit_spinup_ap, SuspendInv, SuspendBarrier, NewCpus
<1>23. ASSUME NEW v \in Vcpus, vcpu_add(v) PROVE SuspendInv'
  BY <1>t, SuspendFrame, <1>23, SMTT(20) DEF vcpu_add
<1>24. ASSUME NEW v \in Vcpus, vcpu_delete(v) PROVE SuspendInv'
  BY <1>t, SuspendFrame, <1>24, SMTT(20) DEF vcpu_delete
<1>25. ASSUME NEW v \in Vcpus, vmexit_suspend_ap(v) PROVE SuspendInv'
  BY <1>t, SuspendFrame, <1>25, SMTT(20) DEF vmexit_suspend_ap
<1>26. ASSUME NEW v \in Vcpus, vmexit_suspend_bsp(v) PROVE SuspendInv'
  BY <1>t, SuspendFrame, <1>26, SMTT(20) DEF vmexit_suspend_bsp, ResetReady
<1>27. ASSUME NEW v \in Vcpus, GuestExit(v) PROVE SuspendInv'
  BY <1>t, SuspendFrame, <1>27, SMTT(20) DEF GuestExit, GuestExits, hv_vcpu_run
<1>28. ASSUME NEW v \in Vcpus, KickedExit(v) PROVE SuspendInv'
  BY <1>t, SuspendFrame, <1>28, SMTT(20) DEF KickedExit, hv_vcpu_run
<1>29. ASSUME NEW v \in active_cpus, NEW e \in EventKinds, vm_inject(v, e) PROVE SuspendInv'
  BY <1>t, SuspendFrame, <1>29 DEF vm_inject
<1>30. CASE vm_inject_notify
  BY <1>t, SuspendFrame, <1>30 DEF vm_inject_notify, vcpu_notify_event
<1>31. CASE vm_signal_pause
  BY <1>t, SuspendFrame, <1>31 DEF vm_signal_pause
<1>32. CASE vm_signal_unpause
  BY <1>t, SuspendFrame, <1>32 DEF vm_signal_unpause, Thaw
<1>33. QED
  BY ONLY [Next]_vars, <1>1, <1>2, <1>3, <1>4, <1>5, <1>6, <1>7, <1>8, <1>9, <1>10, <1>11,
          <1>12, <1>13, <1>14, <1>15, <1>16, <1>17, <1>18, <1>19, <1>20, <1>21, <1>22, <1>23,
          <1>24, <1>25, <1>26, <1>27, <1>28, <1>29, <1>30, <1>31, <1>32, Zenon
  DEF Next, VcpuStep, Terminated

\* vcpu_add, vcpu_delete and the two halves of vmexit_suspend keep cpumask in step
\* with the threads.
LEMMA EndedStep ==
  ASSUME TypeControl, TypeData, Returns, Joined, Ended, [Next]_vars
  PROVE  Ended'
<1> USE VcpuAssumption DEF At, Goto, Exit, vcpu_set_state, rendezvousVars, activeVars,
       pauseVars, eventVars, callVars, wakeVars, haltVars, quiet, rest
<1>t. /\ pc \in [Vcpus -> Places] /\ active_cpus \subseteq Vcpus /\ BSP \in Vcpus
      /\ \A v \in Vcpus : pc[v] # "off" => v \in active_cpus
      /\ BSP \in active_cpus
  BY DEF TypeControl, TypeData, Joined, BSP, Vcpus
<1> USE DEF Outside
<1>1. CASE UNCHANGED vars
  BY <1>1 DEF vars, Ended, ExitAfterAll
<1>2. ASSUME NEW v \in Vcpus, xh_vm_run(v) PROVE Ended'
  BY <1>t, EndedFrame, <1>2 DEF xh_vm_run
<1>3. ASSUME NEW v \in Vcpus, vm_run_enter(v) PROVE Ended'
  BY <1>t, EndedFrame, <1>3 DEF vm_run_enter
<1>4. ASSUME NEW v \in Vcpus, vmx_inject(v) PROVE Ended'
  BY <1>t, EndedFrame, <1>4 DEF vmx_inject, SuspendCheck, vm_suspend, Returns
<1>5. ASSUME NEW v \in Vcpus, vmx_check_suspend(v) PROVE Ended'
  BY <1>t, EndedFrame, <1>5 DEF vmx_check_suspend, SuspendCheck
<1>6. ASSUME NEW v \in Vcpus, vmx_check_rendezvous(v) PROVE Ended'
  BY <1>t, EndedFrame, <1>6 DEF vmx_check_rendezvous
<1>7. ASSUME NEW v \in Vcpus, vm_exit_rendezvous(v) PROVE Ended'
  BY <1>t, EndedFrame, <1>7 DEF vm_exit_rendezvous
<1>8. ASSUME NEW v \in Vcpus, vm_check_for_unpause(v) PROVE Ended'
  BY <1>t, EndedFrame, <1>8 DEF vm_check_for_unpause, Unpaused, vm_mem_protect, Returns
<1>9. ASSUME NEW v \in Vcpus, vm_unpaused(v) PROVE Ended'
  BY <1>t, EndedFrame, <1>9 DEF vm_unpaused, Unpaused, Returns
<1>10. ASSUME NEW v \in Vcpus, vm_run_exit(v) PROVE Ended'
  BY <1>t, EndedFrame, <1>10 DEF vm_run_exit, Returns, ExitCodes
<1>11. ASSUME NEW v \in Vcpus, vm_handle_hlt(v) PROVE Ended'
  BY <1>t, EndedFrame, <1>11, Zenon DEF vm_handle_hlt, HaltOver, FallAsleep
<1>12. ASSUME NEW v \in Vcpus, vm_halted(v) PROVE Ended'
  BY <1>t, EndedFrame, <1>12 DEF vm_halted, HaltOver, vm_suspend, FallAsleep
<1>13. ASSUME NEW v \in Vcpus, vcpu_sleep(v) PROVE Ended'
  BY <1>t, EndedFrame, <1>13 DEF vcpu_sleep
<1>14. ASSUME NEW v \in Vcpus, vcpu_wake(v) PROVE Ended'
  BY <1>t, EndedFrame, <1>14 DEF vcpu_wake, Awake, Returns
<1>15. ASSUME NEW v \in Vcpus, vm_handle_suspend(v) PROVE Ended'
  BY <1>t, EndedFrame, <1>15 DEF vm_handle_suspend, AllSuspended, FallAsleep
<1>16. ASSUME NEW v \in Vcpus, vm_smp_rendezvous(v) PROVE Ended'
  BY <1>t, EndedFrame, <1>16 DEF vm_smp_rendezvous
<1>17. ASSUME NEW v \in Vcpus, vm_handle_rendezvous(v) PROVE Ended'
  BY <1>t, EndedFrame, <1>17 DEF vm_handle_rendezvous, Completed, Returns
<1>18. ASSUME NEW v \in Vcpus, NotifyLoop(v) PROVE Ended'
  BY <1>t, EndedFrame, <1>18 DEF NotifyLoop, Targets, After, vcpu_notify_event, Returns
<1>19. ASSUME NEW v \in Vcpus, vm_run_return(v) PROVE Ended'
  BY <1>t, EndedFrame, <1>19 DEF vm_run_return, Handler
<1>20. ASSUME NEW v \in Vcpus, vmexit_continue(v) PROVE Ended'
  BY <1>t, EndedFrame, <1>20 DEF vmexit_continue
<1>21. ASSUME NEW v \in Vcpus, vmexit_poweroff(v) PROVE Ended'
  BY <1>t, EndedFrame, <1>21 DEF vmexit_poweroff, vm_suspend
<1>22. ASSUME NEW v \in Vcpus, vmexit_spinup_ap(v) PROVE Ended'
  BY <1>t, <1>22, SMTT(20) DEF vmexit_spinup_ap, Ended, ExitAfterAll, NewCpus
<1>23. ASSUME NEW v \in Vcpus, vcpu_add(v) PROVE Ended'
  BY <1>t, <1>23, SMTT(20) DEF vcpu_add, Ended, ExitAfterAll
<1>24. ASSUME NEW v \in Vcpus, vcpu_delete(v) PROVE Ended'
  BY <1>t, <1>24, SMTT(20) DEF vcpu_delete, Ended, ExitAfterAll
<1>25. ASSUME NEW v \in Vcpus, vmexit_suspend_ap(v) PROVE Ended'
  BY <1>t, <1>25, SMTT(20) DEF vmexit_suspend_ap, Ended, ExitAfterAll
<1>26. ASSUME NEW v \in Vcpus, vmexit_suspend_bsp(v) PROVE Ended'
  BY <1>t, <1>26, SMTT(20) DEF vmexit_suspend_bsp, Ended, ExitAfterAll, ResetReady
<1>27. ASSUME NEW v \in Vcpus, GuestExit(v) PROVE Ended'
  BY <1>t, EndedFrame, <1>27 DEF GuestExit, GuestExits, hv_vcpu_run
<1>28. ASSUME NEW v \in Vcpus, KickedExit(v) PROVE Ended'
  BY <1>t, EndedFrame, <1>28 DEF KickedExit, hv_vcpu_run
<1>29. ASSUME NEW v \in active_cpus, NEW e \in EventKinds, vm_inject(v, e) PROVE Ended'
  BY <1>t, EndedFrame, <1>29 DEF vm_inject
<1>30. CASE vm_inject_notify
  BY <1>t, EndedFrame, <1>30 DEF vm_inject_notify, vcpu_notify_event
<1>31. CASE vm_signal_pause
  BY <1>t, EndedFrame, <1>31 DEF vm_signal_pause
<1>32. CASE vm_signal_unpause
  BY <1>t, EndedFrame, <1>32 DEF vm_signal_unpause, Thaw
<1>33. QED
  BY ONLY [Next]_vars, <1>1, <1>2, <1>3, <1>4, <1>5, <1>6, <1>7, <1>8, <1>9, <1>10, <1>11,
          <1>12, <1>13, <1>14, <1>15, <1>16, <1>17, <1>18, <1>19, <1>20, <1>21, <1>22, <1>23,
          <1>24, <1>25, <1>26, <1>27, <1>28, <1>29, <1>30, <1>31, <1>32, Zenon
  DEF Next, VcpuStep, Terminated

-----------------------------------------------------------------------------
(* The theorems.                                                           *)

\* The inductive invariant of the run loops.
IInv == /\ TypeControl /\ TypeData /\ Returns /\ Placed /\ Joined /\ PauseInv /\ Owed
        /\ HaltedAccurate /\ SuspendInv /\ Ended

\* main() starts with the BSP alone in its loop.
LEMMA InitIInv == Init => IInv
<1> SUFFICES ASSUME Init PROVE IInv
  OBVIOUS
<1> USE VcpuAssumption DEF Init, Vcpus, BSP
<1>1. TypeControl
  BY DEF TypeControl, Places, ExitCodes
<1>2. TypeData
  <2>1. BSP \in Vcpus /\ 0 \in 0 .. NCPU
    OBVIOUS
  <2> HIDE DEF Vcpus, BSP
  <2> QED BY <2>1, Zenon DEF TypeData
<1>3. Returns /\ Placed
  BY DEF Returns, Placed, StateOf, IdlePlaces, FrozenPlaces, RunningPlaces
<1>4. Joined /\ PauseInv /\ Owed
  BY DEF Joined, PauseInv, ThawWakes, Owed
<1>5. HaltedAccurate /\ SuspendInv
  BY DEF HaltedAccurate, SuspendInv, SuspendBarrier, Suspended
<1>6. Ended
  BY DEF Ended, ExitAfterAll
<1> QED BY <1>1, <1>2, <1>3, <1>4, <1>5, <1>6 DEF IInv

\* Every step of a thread or a signal keeps the invariant.
LEMMA NextIInv == IInv /\ [Next]_vars => IInv'
  BY ControlStep, DataStep, ReturnsStep, PlacedStep, JoinedStep, PauseStep, OwedStep, HaltedStep,
     SuspendStep, EndedStep DEF IInv

\* IInv holds in every reachable state.
THEOREM Invariance == Spec => []IInv
  BY InitIInv, NextIInv, PTL DEF Spec

\* The variables of struct vm, struct vcpu and the threads keep their types.
THEOREM TypeCorrect == Spec => []TypeOK
<1>1. IInv => TypeOK
  BY DEF IInv, TypeControl, TypeData, TypeOK
<1> QED BY <1>1, Invariance, PTL

\* vm_smp_rendezvous returns only when everyone it was meant for has run the
\* function, nobody leaves vm_handle_suspend before all active vcpus are in it, and
\* the BSP calls exit() only after every other vcpu thread is done.
THEOREM Barriers == Spec => []BarriersHold
<1>1. IInv => RendezvousComplete
  BY VcpuAssumption DEF IInv, Owed, RendezvousComplete, TypeData, Vcpus
<1>2. IInv => SuspendBarrier /\ ExitAfterAll
  BY DEF IInv, SuspendInv, Ended
<1>3. IInv => BarriersHold
  BY <1>1, <1>2 DEF BarriersHold
<1> QED BY <1>3, Invariance, PTL

\* Guest memory is inaccessible when all vcpus are paused and only while one is, and
\* no vcpu sleeps on hv_pause_cnd when the virtual machine is not paused.
THEOREM Pauses == Spec => []PauseSound
<1>1. IInv => PauseSound
  BY DEF IInv, PauseInv, PauseSound, PauseProtects
<1> QED BY <1>1, Invariance, PTL

\* halted_cpus holds only cpus that are in vm_handle_hlt: its KASSERT.
THEOREM Halts == Spec => []HaltedAccurate
<1>1. IInv => HaltedAccurate
  BY DEF IInv
<1> QED BY <1>1, Invariance, PTL

\* vcpu_set_state_locked never refuses a transition, so vcpu_require_state never
\* aborts the process.
THEOREM Transitions == Spec => StateTransitions
<1>1. IInv /\ [Next]_vars => [Transits]_vars
  BY TransitionStep DEF IInv
<1>2. Spec => [][Transits]_vars
  BY <1>1, Invariance, PTL DEF Spec
<1> QED BY <1>2 DEF StateTransitions, Transits
=============================================================================
