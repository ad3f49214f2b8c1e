------------------------------ MODULE IrqLine ------------------------------
(***************************************************************************)
(* What an interrupt controller promises for its level triggered lines: at *)
(* most one interrupt of a line is outstanding, one is outstanding         *)
(* whenever the line is asserted and not masked, and completing it while   *)
(* the line is still asserted makes it outstanding again.                  *)
(***************************************************************************)
CONSTANT Lines

VARIABLES
  line,   \* line[l]: some device asserts l
  mask,   \* mask[l]: the guest does not want interrupts of l
  due     \* due[l]: an interrupt of l is outstanding

lineVars == <<line, mask, due>>

LineInit == \A l \in Lines : ~ line[l] /\ mask[l] /\ ~ due[l]

Same(l) == line'[l] = line[l] /\ mask'[l] = mask[l] /\ due'[l] = due[l]

Assert(l) ==
  /\ ~ line[l] /\ line'[l] /\ mask'[l] = mask[l]
  /\ due'[l] = (due[l] \/ ~ mask[l])

Deassert(l) == ~ line'[l] /\ mask'[l] = mask[l] /\ due'[l] = due[l]

Pulse(l) == ~ line[l] /\ ~ mask[l] /\ ~ line'[l] /\ mask'[l] = mask[l] /\ due'[l]

\* Unmasking an asserted line is like asserting it.
SetMask(l) ==
  /\ line'[l] = line[l] /\ mask'[l] = ~ mask[l]
  /\ due'[l] = (due[l] \/ (mask[l] /\ line[l]))

Complete(l) ==
  /\ due[l] /\ line'[l] = line[l] /\ mask'[l] = mask[l]
  /\ due'[l] = (line[l] /\ ~ mask[l])

\* Lines that share a vector are completed together.
LineNext ==
  \/ \E l \in Lines : /\ Assert(l) \/ Deassert(l) \/ Pulse(l) \/ SetMask(l)
                      /\ \A k \in Lines \ {l} : Same(k)
  \/ \A l \in Lines : Complete(l) \/ Same(l)

LineSpec == LineInit /\ [][LineNext]_lineVars
=============================================================================
