------------------------------ MODULE PageWalk ------------------------------
(***************************************************************************)
(* vm_gla2gpa (vmm_instruction_emul.c): the walk through the guest's page  *)
(* tables that translates an address for the emulation, setting accessed   *)
(* and dirty bits the way the processor does, while other vcpus of the     *)
(* guest change the same tables.                                           *)
(*                                                                         *)
(* The walk goes from the root through the entries of one address, from    *)
(* the top one to entry 1, the page's: two entries, three (PAE) or four.   *)
(* An entry has a valid, write and user bit, page size, accessed and dirty *)
(* bits, and a frame: 0, 1, or Outside for one that is no memory.  The top *)
(* entry of PAE is a PDPTE: only its valid bit counts.  Ghost state: pt0,  *)
(* the tables at the start; edits, the changes of other vcpus during the   *)
(* walk; clobbered, that a store of the walk overwrote one.                *)
(***************************************************************************)
EXTENDS Integers

CONSTANTS Tables, MaxEdits

VARIABLE pw

Outside == 2
Modes == {"FLAT", "32", "PAE", "64"}
Top(mode) == CASE mode = "FLAT" -> 0 [] mode = "32" -> 2 [] mode = "PAE" -> 3 [] mode = "64" -> 4

Entries == [v : BOOLEAN, rw : BOOLEAN, u : BOOLEAN, ps : BOOLEAN, a : BOOLEAN, d : BOOLEAN, frame : 0 .. 2]
ASSUME WalkAssumption == Tables \subseteq [1 .. 4 -> Entries] /\ MaxEdits \in Nat

Entry(v, rw, u, ps) == [v |-> v, rw |-> rw, u |-> u, ps |-> ps, a |-> FALSE, d |-> FALSE, frame |-> 0]

WalkInit ==
  pw = [pc |-> "idle", pt |-> [l \in 1 .. 4 |-> Entry(TRUE, TRUE, TRUE, FALSE)], mode |-> "FLAT",
        user |-> FALSE, write |-> FALSE, level |-> 0, pte |-> Entry(FALSE, FALSE, FALSE, FALSE), restarts |-> 0,
        pt0 |-> [l \in 1 .. 4 |-> Entry(TRUE, TRUE, TRUE, FALSE)], edits |-> 0, clobbered |-> FALSE]

\* A translation starts, for a read or a write, with the rights of user mode or
\* of the supervisor.  An address that is not canonical faults, and without
\* paging it is its own translation.
vm_gla2gpa(mode, table, user, write, canonical) ==
  /\ pw.pc = "idle"
  /\ pw' = [pw EXCEPT !.pc = IF ~ canonical THEN "noncanonical" ELSE IF mode = "FLAT" THEN "done" ELSE "read",
                      !.mode = mode, !.pt = table, !.pt0 = table, !.user = user, !.write = write, !.level = Top(mode)]

Refused(e) == ~ e.v \/ (pw.user /\ ~ e.u) \/ (pw.write /\ ~ e.rw)

IsPdpte(l) == pw.mode = "PAE" /\ l = 3

\* The whole walk starts again.
Restart(s) == [s EXCEPT !.pc = "read", !.level = Top(s.mode), !.restarts = @ + 1]

\* After an entry: down, or its page is the answer.  Only the page of the
\* largest size does not exist.
Descend(s) ==
  IF s.level = 1 THEN [s EXCEPT !.pc = IF s.write /\ ~ s.pte.d THEN "dirty" ELSE "done"]
  ELSE IF s.pte.ps /\ ~ IsPdpte(s.level)
  THEN IF s.level = 4 THEN [s EXCEPT !.pc = "fault"]
       ELSE [s EXCEPT !.pc = IF s.write /\ ~ s.pte.d THEN "dirty" ELSE "done"]
  ELSE [s EXCEPT !.pc = "read", !.level = @ - 1]

\* The entry is read into a local variable, unless its table is not memory, and
\* the rights are checked.
WalkRead ==
  /\ pw.pc = "read"
  /\ LET e == pw.pt[pw.level]
         s == [pw EXCEPT !.pte = e]
     IN pw' = IF pw.level < Top(pw.mode) /\ pw.pte.frame = Outside THEN [pw EXCEPT !.pc = "error"]
              ELSE IF IsPdpte(pw.level) THEN (IF e.v THEN Descend(s) ELSE [s EXCEPT !.pc = "fault"])
              ELSE IF Refused(e) THEN [s EXCEPT !.pc = "fault"]
              ELSE IF ~ e.a THEN [s EXCEPT !.pc = "accessed"]
              ELSE Descend(s)

\* Faulty variant: the bits are stored without comparing the entry.
cmpset_Store(old, new) ==
  <<TRUE, [pw EXCEPT !.pt[pw.level] = new, !.clobbered = @ \/ pw.pt[pw.level] # old]>>

\* An atomic compare and set of the entry at the current level.
cmpset(old, new) ==
  IF pw.pt[pw.level] = old
  THEN <<TRUE, [pw EXCEPT !.pt[pw.level] = new]>>
  ELSE <<FALSE, pw>>

\* The local copy keeps its clear accessed bit.
SetAccessed ==
  /\ pw.pc = "accessed"
  /\ LET r == cmpset(pw.pte, [pw.pte EXCEPT !.a = TRUE])
     IN pw' = IF r[1] THEN Descend(r[2]) ELSE Restart(r[2])

SetDirty ==
  /\ pw.pc = "dirty"
  /\ LET r == cmpset(pw.pte, [pw.pte EXCEPT !.d = TRUE])
     IN pw' = IF r[1] THEN [r[2] EXCEPT !.pc = "done"] ELSE Restart(r[2])

\* Another vcpu changes an entry: another frame, fewer rights, or the accessed
\* and dirty bits cleared.
OtherVcpu(l) ==
  /\ pw.pc \in {"read", "accessed", "dirty"} /\ pw.edits < MaxEdits
  /\ \E e \in {[pw.pt[l] EXCEPT !.frame = 1], [pw.pt[l] EXCEPT !.frame = Outside], [pw.pt[l] EXCEPT !.v = FALSE], [pw.pt[l] EXCEPT !.rw = FALSE],
               [pw.pt[l] EXCEPT !.a = FALSE, !.d = FALSE]} :
       e # pw.pt[l] /\ pw' = [pw EXCEPT !.pt[l] = e, !.edits = @ + 1]

WalkNext ==
  \/ \E mode \in Modes, t \in Tables, user, write, canonical \in BOOLEAN :
       vm_gla2gpa(mode, t, user, write, canonical \/ mode # "64")
  \/ WalkRead \/ SetAccessed \/ SetDirty
  \/ \E l \in 1 .. Top(pw.mode) : OtherVcpu(l)

WalkSpec == WalkInit /\ [][WalkNext]_pw

-----------------------------------------------------------------------------
(* What the processor would do with the tables the walk started with.      *)

Leaf(t) ==
  LET large == {l \in 2 .. Top(pw.mode) : t[l].ps /\ ~ IsPdpte(l)}
  IN IF large = {} THEN 1 ELSE CHOOSE l \in large : \A k \in large : k <= l

Permitted(t) ==
  LET used == Leaf(t) .. Top(pw.mode)
  IN /\ \A l \in used : IF IsPdpte(l) THEN t[l].v ELSE ~ Refused(t[l])
     /\ Leaf(t) # 4

\* A walk never overwrites a change of another vcpu.  It starts again at most
\* once for its own accessed bit, and at most twice for each change: the entry
\* differs, and its accessed bit may be clear once more.  Undisturbed, it
\* faults exactly when the processor would, and otherwise leaves the accessed
\* bit in every entry it used, the dirty bit in the last one for a write, and
\* everything else as it was.
WalkSound ==
  /\ ~ pw.clobbered
  /\ pw.restarts <= 2 * pw.edits + 1
  /\ pw.edits = 0 /\ pw.mode # "FLAT" /\ pw.pc \in {"done", "fault"} => (pw.pc = "done") = Permitted(pw.pt0)
  /\ pw.edits = 0 /\ pw.pc = "done" =>
       pw.pt = [l \in 1 .. 4 |->
                  IF l < Leaf(pw.pt0) \/ l > Top(pw.mode) \/ IsPdpte(l) THEN pw.pt0[l]
                  ELSE [pw.pt0[l] EXCEPT !.a = TRUE, !.d = @ \/ (l = Leaf(pw.pt0) /\ pw.write)]]
=============================================================================
