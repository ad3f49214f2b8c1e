----------------------------- MODULE HyperCog -----------------------------
(***************************************************************************)
(* The knowledge base of the hypervisor: the AtomSpace of                  *)
(* src/lib/atomspace.c, the bridge of src/lib/hypercog.c that records the  *)
(* virtual machines in it, and the life of the GraphQL server of           *)
(* src/lib/hypergraphql.c.                                                 *)
(*                                                                         *)
(* No thread of the program shares a context yet, so a call is one action. *)
(* A name is what its format string makes of the arguments; numbers and    *)
(* keys stand for their decimal text, which is what strstr compares.       *)
(* Ghost state: alive, the vcpus that were created and not destroyed; the  *)
(* hooks follow the life of the virtual machine.                           *)
(***************************************************************************)
EXTENDS Integers, Sequences

CONSTANTS Vcpus,      \* vcpu numbers the hooks are called with
          Keys,       \* keys of hypercog_add_vm_knowledge
          Capacity,   \* atom_capacity
          MaxHandle   \* bounds next_handle

ASSUME HyperCogAssumption ==
  Vcpus \subseteq Nat /\ Keys \subseteq Nat /\ Capacity \in Nat /\ MaxHandle \in Nat

VARIABLES atoms,        \* the first atom_count elements of the array
          next_handle,
          ctx, running, \* the context is allocated; its server is running
          alive

vars == <<atoms, next_handle, ctx, running, alive>>

-----------------------------------------------------------------------------
(* Names.                                                                  *)

VmName(v) == <<"VM-VCPU-", v>>
KeyName(v, k) == <<"VM-", v, k>>
Text == <<"text">>               \* a timestamp or a value
LinkName(h) == <<"Link-", h>>

\* The decimal text of n starts with that of p.
Starts(n, p) == \/ n = p
                \/ p # 0 /\ \E k \in {10, 100, 1000} : n \div k = p

\* strstr(VmName(w), VmName(v)) and strstr(KeyName(w, l), KeyName(v, k)).
strstr_Loose(name, pattern) ==
  \/ name[1] = "VM-VCPU-" /\ pattern[1] = "VM-VCPU-" /\ Starts(name[2], pattern[2])
  \/ /\ name[1] = "VM-" /\ pattern[1] = "VM-"
     /\ Starts(name[2], pattern[2]) /\ Starts(name[3], pattern[3])
strstr(name, pattern) ==
  \/ name[1] = "VM-VCPU-" /\ pattern[1] = "VM-VCPU-" /\ Starts(name[2], pattern[2])
  \/ /\ name[1] = "VM-" /\ pattern[1] = "VM-"
     /\ name[2] = pattern[2] /\ Starts(name[3], pattern[3])

-----------------------------------------------------------------------------
(* atomspace.c.  A space is the array with its counter of handles; an add  *)
(* also yields the handle it returns, 0 for a failure.                     *)

Atom(h, name, outgoing) ==
  [handle |-> h, name |-> name, strength |-> 1, outgoing |-> outgoing]

Full(s) == Len(s.atoms) >= Capacity

\* next_handle++
Taken(s) == s.next + 1

\* add_link checks for itself that there is room.
LinkFull_Unchecked(s) == FALSE
LinkFull(s) == Len(s.atoms) >= Capacity

atomspace_add_node(s, name) ==
  IF Full(s) THEN [s EXCEPT !.ret = 0]
  ELSE [atoms |-> Append(s.atoms, Atom(s.next, name, <<>>)),
        next |-> Taken(s), ret |-> s.next]

\* oom: the array of outgoing handles cannot be allocated; the handle is used up.
atomspace_add_link(s, outgoing, oom) ==
  IF LinkFull(s) THEN [s EXCEPT !.ret = 0]
  ELSE IF oom THEN [s EXCEPT !.next = Taken(s), !.ret = 0]
  ELSE [atoms |-> Append(s.atoms, Atom(s.next, LinkName(s.next), outgoing)),
        next |-> Taken(s), ret |-> s.next]

\* The positions of the atoms whose name contains the pattern.  The result
\* lists their handles in array order; its users look at the first one only.
atomspace_query(pattern) == {i \in 1 .. Len(atoms) : strstr(atoms[i].name, pattern)}
FirstHandle(found) == atoms[CHOOSE i \in found : \A j \in found : i <= j].handle

atomspace_get_atom(h) == {i \in 1 .. Len(atoms) : atoms[i].handle = h}

\* atomspace_set_tv of the first atom with this handle.
atomspace_set_tv(h, strength) ==
  atoms' = [i \in 1 .. Len(atoms) |->
              IF atoms[i].handle = h THEN [atoms[i] EXCEPT !.strength = strength] ELSE atoms[i]]

-----------------------------------------------------------------------------
(* hypercog.c and hypergraphql.c.                                          *)

Init == /\ atoms = <<>> /\ next_handle = 1
        /\ ctx = FALSE /\ running = FALSE /\ alive = {}

\* hypercog_init, when nothing fails; a failure leaves no context.
hypercog_init ==
  /\ ~ctx /\ ctx' = TRUE
  /\ atoms' = <<>> /\ next_handle' = 1 /\ running' = FALSE /\ alive' = {}

\* hgql_server_destroy stops a running server before it is freed.
StopFirst == running' = FALSE

hypercog_destroy ==
  /\ ctx /\ ctx' = FALSE /\ StopFirst
  /\ atoms' = <<>> /\ next_handle' = 1 /\ alive' = {}

\* Started twice the server answers EALREADY and stays as it is.
hypercog_start == ctx /\ running' = TRUE /\ UNCHANGED <<atoms, next_handle, ctx, alive>>
hypercog_stop == ctx /\ running' = FALSE /\ UNCHANGED <<atoms, next_handle, ctx, alive>>

\* Two nodes and a link between them.
Relate(first, second, oom) ==
  LET s0 == [atoms |-> atoms, next |-> next_handle, ret |-> 0]
      s1 == atomspace_add_node(s0, first)
      s2 == atomspace_add_node(s1, second)
      s3 == atomspace_add_link(s2, <<s1.ret, s2.ret>>, oom)
  IN /\ atoms' = s3.atoms /\ next_handle' = s3.next

hypercog_vm_created(v) ==
  /\ ctx /\ v \notin alive /\ next_handle <= MaxHandle
  /\ \E oom \in BOOLEAN : Relate(VmName(v), Text, oom)
  /\ alive' = alive \cup {v}
  /\ UNCHANGED <<ctx, running>>

\* Only the first match is marked.  A query that runs out of memory finds nothing;
\* this call does not count as a destruction.
hypercog_vm_destroyed(v) ==
  /\ ctx /\ v \in alive
  /\ LET found == atomspace_query(VmName(v))
     IN \/ /\ IF found # {} THEN atomspace_set_tv(FirstHandle(found), 0) ELSE UNCHANGED atoms
           /\ alive' = alive \ {v}
        \/ UNCHANGED <<atoms, alive>>
  /\ UNCHANGED <<next_handle, ctx, running>>

hypercog_add_vm_knowledge(v, k) ==
  /\ ctx /\ next_handle <= MaxHandle
  /\ \E oom \in BOOLEAN : Relate(KeyName(v, k), Text, oom)
  /\ UNCHANGED <<ctx, running, alive>>

hypercog_query_vm_knowledge(v, k) ==
  LET found == atomspace_query(KeyName(v, k))
  IN IF found # {} THEN FirstHandle(found) ELSE 0

Next == \/ hypercog_init \/ hypercog_destroy \/ hypercog_start \/ hypercog_stop
        \/ \E v \in Vcpus : hypercog_vm_created(v) \/ hypercog_vm_destroyed(v)
        \/ \E v \in Vcpus, k \in Keys : hypercog_add_vm_knowledge(v, k)

Spec == Init /\ [][Next]_vars

-----------------------------------------------------------------------------
(* Properties.                                                             *)

Names == ({"VM-VCPU-"} \X Vcpus) \cup ({"VM-"} \X Vcpus \X Keys)
           \cup {Text} \cup ({"Link-"} \X Nat)
AtomType == [handle : Nat, name : Names, strength : {0, 1}, outgoing : Seq(Nat)]

\* Types of the fields of atomspace_t and hypercog_ctx_t; the array is never overrun.
TypeOK == /\ atoms \in Seq(AtomType) /\ Len(atoms) <= Capacity
          /\ next_handle \in Nat
          /\ ctx \in BOOLEAN /\ running \in BOOLEAN /\ alive \subseteq Vcpus

\* Handles are unique and in array order, and none was handed out that
\* atomspace_add_node could hand out again; 0 is left for failures.
HandlesIncrease ==
  /\ \A i \in 1 .. Len(atoms) : atoms[i].handle \in 1 .. next_handle - 1
  /\ \A i, j \in 1 .. Len(atoms) : i < j => atoms[i].handle < atoms[j].handle

\* A link of hypercog.c only names atoms that are in the space, also when the
\* space fills up or memory runs out half way: the 0 of a failed
\* atomspace_add_node never ends up in a link.
LinksResolve ==
  \A i \in 1 .. Len(atoms) : \A j \in 1 .. Len(atoms[i].outgoing) :
    \E m \in 1 .. i - 1 : atoms[m].handle = atoms[i].outgoing[j]

\* What callers of the AtomSpace rely on, after any failure half way.
SpaceSound == TypeOK /\ HandlesIncrease /\ LinksResolve

\* hypercog_query_vm_knowledge keeps the virtual machines apart: it finds an
\* atom of this vcpu if there is one for the key, and none of another vcpu's.
QueryIsolated ==
  \A v \in Vcpus, k \in Keys :
    LET h == hypercog_query_vm_knowledge(v, k)
    IN /\ h # 0 => \E i \in atomspace_get_atom(h), l \in Keys : atoms[i].name = KeyName(v, l)
       /\ h = 0 => \A i \in 1 .. Len(atoms) : atoms[i].name # KeyName(v, k)

\* A server never outlives the context, and the AtomSpace, it serves.
ServerInContext == running => ctx

\* The documentation of hypercog_vm_destroyed: "Updates truth value to mark as
\* inactive".  No node of a destroyed vcpu is still active.
DestroyedInactive ==
  \A v \in Vcpus \ alive : \A i \in 1 .. Len(atoms) :
    atoms[i].name = VmName(v) => atoms[i].strength = 0
=============================================================================
