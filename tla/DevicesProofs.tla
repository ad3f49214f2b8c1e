---------------------------- MODULE DevicesProofs ----------------------------
(***************************************************************************)
(* Proofs about the two parts of Devices that answer requests.             *)
(*                                                                         *)
(* HyperCog, for any numbers of vcpus, keys and atoms.  The invariant Good *)
(* speaks of a space: an array and the next handle.  An add either leaves  *)
(* the array alone (it is full, or memory ran out) or appends one atom     *)
(* with the next handle, and Good survives the append when the handles the *)
(* new atom names are there.  A hook that gets 0 for a node met a full     *)
(* array, so its link is refused as well.                                  *)
(*                                                                         *)
(* Fwctl, for any sizes of requests, names and answers: the words counted  *)
(* by rinfo are those the guest has written or read, whatever the size it  *)
(* announced, so the state machine and the guest stay in step.             *)
(***************************************************************************)
EXTENDS HyperCog, Fwctl, WellFoundedInduction, TLAPS

-----------------------------------------------------------------------------
(* The knowledge base.                                                     *)

Space == [atoms : Seq(AtomType), next : Nat, ret : Nat]

Good(at, nx) ==
  /\ at \in Seq(AtomType) /\ Len(at) <= Capacity
  /\ nx \in Nat \ {0}
  /\ \A i \in 1 .. Len(at) : at[i].handle \in 1 .. nx - 1
  /\ \A i, j \in 1 .. Len(at) : i < j => at[i].handle < at[j].handle
  /\ \A i \in 1 .. Len(at) : \A j \in 1 .. Len(at[i].outgoing) :
       \E m \in 1 .. i - 1 : at[m].handle = at[i].outgoing[j]

\* Some atom of the array has this handle.
Present(at, h) == \E m \in 1 .. Len(at) : at[m].handle = h

IInv == /\ Good(atoms, next_handle)
        /\ ctx \in BOOLEAN /\ running \in BOOLEAN /\ alive \subseteq Vcpus
        /\ running => ctx

\* An atom as atomspace_add_node and atomspace_add_link fill it in.
LEMMA AtomTyped ==
  ASSUME NEW h \in Nat, NEW nm \in Names, NEW out \in Seq(Nat)
  PROVE  /\ Atom(h, nm, out) \in AtomType
         /\ Atom(h, nm, out).handle = h /\ Atom(h, nm, out).outgoing = out
  BY DEF Atom, AtomType

\* Appending an atom with the next handle, whose outgoing handles are present,
\* keeps a space good.
LEMMA AppendGood ==
  ASSUME NEW at, NEW nx, Good(at, nx), Len(at) < Capacity,
         NEW nm \in Names, NEW out \in Seq(Nat),
         \A j \in 1 .. Len(out) : Present(at, out[j])
  PROVE  /\ Good(Append(at, Atom(nx, nm, out)), nx + 1)
         /\ Present(Append(at, Atom(nx, nm, out)), nx)
         /\ \A h : Present(at, h) => Present(Append(at, Atom(nx, nm, out)), h)
<1> DEFINE a == Atom(nx, nm, out)
           new == Append(at, a)
           n == Len(at)
<1>1. a \in AtomType /\ a.handle = nx /\ a.outgoing = out
  BY AtomTyped DEF Good
<1>2. at \in Seq(AtomType) /\ n \in Nat /\ nx \in Nat \ {0} /\ Capacity \in Nat /\ n < Capacity
  BY HyperCogAssumption DEF Good
<1>3. /\ \A i \in 1 .. n : at[i].handle \in 1 .. nx - 1
      /\ \A i, j \in 1 .. n : i < j => at[i].handle < at[j].handle
      /\ \A i \in 1 .. n : \A j \in 1 .. Len(at[i].outgoing) :
           \E m \in 1 .. i - 1 : at[m].handle = at[i].outgoing[j]
  BY DEF Good
<1>4. \A j \in 1 .. Len(out) : \E m \in 1 .. n : at[m].handle = out[j]
  BY DEF Present
<1> HIDE DEF a
<1>5. /\ new \in Seq(AtomType) /\ Len(new) = n + 1 /\ new[n + 1] = a
      /\ \A i \in 1 .. n : new[i] = at[i]
  BY <1>1, <1>2
<1>6. \A h : Present(at, h) <=> \E m \in 1 .. n : at[m].handle = h
  BY DEF Present
<1> HIDE DEF new, n
<1>7. /\ \A i \in 1 .. n : new[i].handle = at[i].handle /\ new[i].outgoing = at[i].outgoing
      /\ new[n + 1].handle = nx /\ new[n + 1].outgoing = out
  BY <1>1, <1>2, <1>5
<1>8. \A i \in 1 .. n + 1 : i \in 1 .. n \/ i = n + 1
  BY <1>2
<1>9. \A i \in 1 .. n + 1 : new[i].handle \in 1 .. nx
  <2>1. SUFFICES ASSUME NEW i \in 1 .. n + 1 PROVE new[i].handle \in 1 .. nx OBVIOUS
  <2>2. CASE i \in 1 .. n
    <3>1. at[i].handle \in 1 .. nx - 1 /\ new[i].handle = at[i].handle
      BY <2>2, <1>3, <1>7
    <3>2. QED BY <3>1, <1>2
  <2>3. CASE i = n + 1 BY <2>3, <1>2, <1>7
  <2>4. QED BY <2>2, <2>3, <1>8
<1>10. \A i, j \in 1 .. n + 1 : i < j => new[i].handle < new[j].handle
  <2>1. SUFFICES ASSUME NEW i \in 1 .. n + 1, NEW j \in 1 .. n + 1, i < j
                 PROVE  new[i].handle < new[j].handle
    OBVIOUS
  <2>2. i \in 1 .. n BY <2>1, <1>2
  <2>3. CASE j \in 1 .. n BY <2>1, <2>2, <2>3, <1>3, <1>7
  <2>4. CASE j = n + 1
    <3>1. at[i].handle \in 1 .. nx - 1 /\ new[i].handle = at[i].handle
      BY <2>2, <1>3, <1>7
    <3>2. new[j].handle = nx BY <2>4, <1>7
    <3>3. QED BY <3>1, <3>2, <1>2
  <2>5. QED BY <2>3, <2>4, <1>8
<1>11. \A i \in 1 .. n + 1 : \A j \in 1 .. Len(new[i].outgoing) :
         \E m \in 1 .. i - 1 : new[m].handle = new[i].outgoing[j]
  <2>1. SUFFICES ASSUME NEW i \in 1 .. n + 1, NEW j \in 1 .. Len(new[i].outgoing)
                 PROVE  \E m \in 1 .. i - 1 : new[m].handle = new[i].outgoing[j]
    OBVIOUS
  <2>2. CASE i \in 1 .. n
    <3>1. new[i].outgoing = at[i].outgoing BY <2>2, <1>7
    <3>2. PICK m \in 1 .. i - 1 : at[m].handle = at[i].outgoing[j]
      BY <3>1, <2>1, <2>2, <1>3
    <3>3. m \in 1 .. n BY <2>2, <3>2, <1>2
    <3>4. QED BY <3>1, <3>2, <3>3, <1>7
  <2>3. CASE i = n + 1
    <3>1. new[i].outgoing = out BY <2>3, <1>7
    <3>2. PICK m \in 1 .. n : at[m].handle = out[j] BY <3>1, <2>1, <1>4
    <3>3. m \in 1 .. i - 1 BY <2>3, <3>2, <1>2
    <3>4. QED BY <3>1, <3>2, <3>3, <1>7
  <2>4. QED BY <2>2, <2>3, <1>8
<1>12. Good(new, nx + 1)
  <2>1. Len(new) <= Capacity BY <1>2, <1>5
  <2>2. nx + 1 \in Nat \ {0} /\ (nx + 1) - 1 = nx BY <1>2
  <2>3. QED BY <2>1, <2>2, <1>5, <1>9, <1>10, <1>11 DEF Good
<1>13. Present(new, nx) BY <1>2, <1>5, <1>7 DEF Present
<1>14. \A h : Present(at, h) => Present(new, h)
  <2>1. SUFFICES ASSUME NEW h, Present(at, h) PROVE Present(new, h) OBVIOUS
  <2>2. PICK m \in 1 .. n : at[m].handle = h BY <2>1, <1>6
  <2>3. m \in 1 .. Len(new) /\ new[m].handle = h BY <2>2, <1>2, <1>5, <1>7
  <2>4. QED BY <2>3 DEF Present
<1>15. QED BY <1>12, <1>13, <1>14 DEF new, a

\* atomspace_add_node: the space is full and the answer 0, or the node is there.
LEMMA NodeGood ==
  ASSUME NEW s \in Space, Good(s.atoms, s.next), NEW nm \in Names
  PROVE  LET r == atomspace_add_node(s, nm)
         IN /\ r \in Space /\ Good(r.atoms, r.next)
            /\ \/ Len(r.atoms) >= Capacity /\ r.ret = 0 /\ r.atoms = s.atoms
               \/ r.ret # 0 /\ Present(r.atoms, r.ret)
            /\ \A h : Present(s.atoms, h) => Present(r.atoms, h)
<1> DEFINE r == atomspace_add_node(s, nm)
<1>1. CASE Full(s)
  <2>1. r = [s EXCEPT !.ret = 0] BY <1>1 DEF atomspace_add_node
  <2>2. r \in Space /\ r.atoms = s.atoms /\ r.next = s.next /\ r.ret = 0
    BY <2>1 DEF Space
  <2>3. QED BY <2>2, <1>1 DEF Full
<1>2. CASE ~Full(s)
  <2>1. Len(s.atoms) < Capacity
    BY <1>2, HyperCogAssumption DEF Full, Space
  <2>2. <<>> \in Seq(Nat) /\ \A j \in 1 .. Len(<<>>) : Present(s.atoms, <<>>[j])
    OBVIOUS
  <2>3. /\ Good(Append(s.atoms, Atom(s.next, nm, <<>>)), s.next + 1)
        /\ Present(Append(s.atoms, Atom(s.next, nm, <<>>)), s.next)
        /\ \A h : Present(s.atoms, h) => Present(Append(s.atoms, Atom(s.next, nm, <<>>)), h)
    BY <2>1, <2>2, AppendGood, Zenon
  <2>4. r = [atoms |-> Append(s.atoms, Atom(s.next, nm, <<>>)), next |-> s.next + 1,
             ret |-> s.next]
    BY <1>2 DEF atomspace_add_node, Taken
  <2>5. r.atoms = Append(s.atoms, Atom(s.next, nm, <<>>)) /\ r.next = s.next + 1
        /\ r.ret = s.next
    BY <2>4
  <2>6. r \in Space /\ r.ret # 0
    BY <2>3, <2>4 DEF Space, Good
  <2>7. QED BY <2>3, <2>5, <2>6
<1>3. QED BY <1>1, <1>2

\* atomspace_add_link: refused, out of memory, or the link is there.
LEMMA LinkGood ==
  ASSUME NEW s \in Space, Good(s.atoms, s.next), NEW out \in Seq(Nat), NEW oom \in BOOLEAN,
         \/ Len(s.atoms) >= Capacity
         \/ \A j \in 1 .. Len(out) : Present(s.atoms, out[j])
  PROVE  LET r == atomspace_add_link(s, out, oom) IN Good(r.atoms, r.next)
<1> DEFINE r == atomspace_add_link(s, out, oom)
<1>1. s.next \in Nat \ {0} /\ Capacity \in Nat /\ Len(s.atoms) \in Nat
  BY HyperCogAssumption DEF Space, Good
<1>2. CASE LinkFull(s)
  <2>1. r = [s EXCEPT !.ret = 0] BY <1>2 DEF atomspace_add_link
  <2>2. r.atoms = s.atoms /\ r.next = s.next BY <2>1 DEF Space
  <2>3. QED BY <2>2
<1>3. CASE ~LinkFull(s) /\ oom
  <2>1. r = [s EXCEPT !.next = s.next + 1, !.ret = 0] BY <1>3 DEF atomspace_add_link, Taken
  <2>2. r.atoms = s.atoms /\ r.next = s.next + 1 BY <2>1 DEF Space
  <2>3. Good(s.atoms, s.next + 1) BY <1>1 DEF Good
  <2>4. QED BY <2>2, <2>3
<1>4. CASE ~LinkFull(s) /\ ~oom
  <2>1. Len(s.atoms) < Capacity BY <1>1, <1>4 DEF LinkFull
  <2>2. LinkName(s.next) \in Names BY <1>1 DEF LinkName, Names
  <2>3. \A j \in 1 .. Len(out) : Present(s.atoms, out[j]) BY <1>1, <2>1
  <2>4. Good(Append(s.atoms, Atom(s.next, LinkName(s.next), out)), s.next + 1)
    BY <2>1, <2>2, <2>3, AppendGood
  <2>5. r = [atoms |-> Append(s.atoms, Atom(s.next, LinkName(s.next), out)),
             next |-> s.next + 1, ret |-> s.next]
    BY <1>4 DEF atomspace_add_link, Taken
  <2>6. QED BY <2>4, <2>5
<1>5. QED BY <1>2, <1>3, <1>4

\* A hook of hypercog.c: two nodes and a link between them.
LEMMA RelateGood ==
  ASSUME Good(atoms, next_handle), NEW first \in Names, NEW second \in Names,
         NEW oom \in BOOLEAN, Relate(first, second, oom)
  PROVE  Good(atoms', next_handle')
<1> DEFINE s0 == [atoms |-> atoms, next |-> next_handle, ret |-> 0]
           s1 == atomspace_add_node(s0, first)
           s2 == atomspace_add_node(s1, second)
           s3 == atomspace_add_link(s2, <<s1.ret, s2.ret>>, oom)
<1>1. s0 \in Space /\ Good(s0.atoms, s0.next)
  BY DEF Space, Good
<1>2. atoms' = s3.atoms /\ next_handle' = s3.next
  BY DEF Relate
<1> HIDE DEF s0
<1>3. /\ s1 \in Space /\ Good(s1.atoms, s1.next)
      /\ \/ Len(s1.atoms) >= Capacity /\ s1.ret = 0 /\ s1.atoms = s0.atoms
         \/ s1.ret # 0 /\ Present(s1.atoms, s1.ret)
  BY <1>1, NodeGood
<1> HIDE DEF s1
<1>4. /\ s2 \in Space /\ Good(s2.atoms, s2.next)
      /\ \/ Len(s2.atoms) >= Capacity /\ s2.ret = 0 /\ s2.atoms = s1.atoms
         \/ s2.ret # 0 /\ Present(s2.atoms, s2.ret)
      /\ \A h : Present(s1.atoms, h) => Present(s2.atoms, h)
      /\ Len(s1.atoms) >= Capacity => Len(s2.atoms) >= Capacity
  <2>1. Full(s1) => s2 = [s1 EXCEPT !.ret = 0] BY DEF atomspace_add_node
  <2>2. Len(s1.atoms) >= Capacity => s2.atoms = s1.atoms BY <1>3, <2>1 DEF Full, Space
  <2>3. QED BY <1>3, <2>2, NodeGood, Zenon
<1> HIDE DEF s2
<1>5. <<s1.ret, s2.ret>> \in Seq(Nat) BY <1>3, <1>4 DEF Space
<1>6. \/ Len(s2.atoms) >= Capacity
      \/ \A j \in 1 .. Len(<<s1.ret, s2.ret>>) : Present(s2.atoms, <<s1.ret, s2.ret>>[j])
  BY <1>3, <1>4
<1>7. Good(s3.atoms, s3.next) BY <1>4, <1>5, <1>6, LinkGood, Zenon
<1>8. QED BY <1>2, <1>7

\* atomspace_set_tv changes neither handles nor links.
LEMMA SetTvGood ==
  ASSUME Good(atoms, next_handle), NEW h, atomspace_set_tv(h, 0)
  PROVE  Good(atoms', next_handle)
<1>1. atoms \in Seq(AtomType) /\ Len(atoms) \in Nat /\ next_handle \in Nat \ {0}
  BY DEF Good
<1>2. atoms' = [i \in 1 .. Len(atoms) |->
                 IF atoms[i].handle = h THEN [atoms[i] EXCEPT !.strength = 0] ELSE atoms[i]]
  BY DEF atomspace_set_tv
<1>3. \A i \in 1 .. Len(atoms) : atoms[i] \in AtomType
  BY <1>1
<1>4. \A a \in AtomType : /\ [a EXCEPT !.strength = 0] \in AtomType
                          /\ [a EXCEPT !.strength = 0].handle = a.handle
                          /\ [a EXCEPT !.strength = 0].outgoing = a.outgoing
  BY DEF AtomType
<1>5. \A i \in 1 .. Len(atoms) :
        atoms'[i] \in AtomType /\ atoms'[i].handle = atoms[i].handle
        /\ atoms'[i].outgoing = atoms[i].outgoing
  BY <1>2, <1>3, <1>4
<1>6. atoms' \in Seq(AtomType) /\ Len(atoms') = Len(atoms)
  BY <1>1, <1>2, <1>5
<1>7. \A i \in 1 .. Len(atoms) : atoms'[i].handle \in 1 .. next_handle - 1
  BY <1>5 DEF Good
<1>8. \A i, j \in 1 .. Len(atoms) : i < j => atoms'[i].handle < atoms'[j].handle
  BY <1>5 DEF Good
<1>9. \A i \in 1 .. Len(atoms) : \A j \in 1 .. Len(atoms'[i].outgoing) :
        \E m \in 1 .. i - 1 : atoms'[m].handle = atoms'[i].outgoing[j]
  <2>1. SUFFICES ASSUME NEW i \in 1 .. Len(atoms), NEW j \in 1 .. Len(atoms'[i].outgoing)
                 PROVE  \E m \in 1 .. i - 1 : atoms'[m].handle = atoms'[i].outgoing[j]
    OBVIOUS
  <2>2. atoms'[i].outgoing = atoms[i].outgoing BY <1>5
  <2>3. PICK m \in 1 .. i - 1 : atoms[m].handle = atoms[i].outgoing[j]
    BY <2>1, <2>2 DEF Good
  <2>4. m \in 1 .. Len(atoms) BY <2>3, <1>1
  <2>5. QED BY <2>2, <2>3, <2>4, <1>5
<1>10. Len(atoms') <= Capacity BY <1>6 DEF Good
<1>11. QED BY <1>1, <1>6, <1>7, <1>8, <1>9, <1>10 DEF Good

\* A space without atoms.
LEMMA EmptyGood ==
  Good(<<>>, 1)
<1>1. <<>> \in Seq(AtomType) /\ Len(<<>>) = 0 OBVIOUS
<1>2. QED BY <1>1, HyperCogAssumption DEF Good

\* What the hooks write as names.
LEMMA NamesTyped ==
  /\ Text \in Names
  /\ \A v \in Vcpus : VmName(v) \in Names
  /\ \A v \in Vcpus, k \in Keys : KeyName(v, k) \in Names
BY DEF Text, VmName, KeyName, Names

\* A set of positions has a first one: < is well-founded on the naturals.
LEMMA Least ==
  ASSUME NEW S \in SUBSET Nat, S # {}
  PROVE  \E i \in S : \A j \in S : i <= j
<1> DEFINE R == {ss \in Nat \X Nat : ss[1] < ss[2]}
<1>1. R = OpToRel(<, Nat)
  BY DEF OpToRel
<1>2. IsWellFoundedOn(R, Nat)
  BY <1>1, NatLessThanWellFounded
<1>3. \A m, n \in Nat : m < n => <<m, n>> \in R
  OBVIOUS
<1> HIDE DEF R
<1>4. PICK i \in S : \A j \in S : <<j, i>> \notin R
  BY <1>2, WFMin, Zenon
<1>5. \A j \in S : i <= j
  <2>1. SUFFICES ASSUME NEW j \in S PROVE i <= j
    OBVIOUS
  <2>2. i \in Nat /\ j \in Nat /\ ~(j < i)
    BY <1>3, <1>4, Zenon
  <2> QED BY <2>2
<1> QED BY <1>4, <1>5

\* A name that contains that of a key of v is that of a key of v, and the name
\* of a key contains itself.
LEMMA KeysApart ==
  ASSUME NEW v \in Vcpus, NEW k \in Keys
  PROVE  /\ strstr(KeyName(v, k), KeyName(v, k))
         /\ \A n \in Names : strstr(n, KeyName(v, k)) => \E l \in Keys : n = KeyName(v, l)
<1> DEFINE key == KeyName(v, k)
<1>1. key[1] = "VM-" /\ key[2] = v /\ key[3] = k
  BY DEF KeyName
<1> HIDE DEF key
<1>2. strstr(key, key)
  BY <1>1 DEF strstr, Starts
<1>3. ASSUME NEW n \in Names, strstr(n, key) PROVE \E l \in Keys : n = KeyName(v, l)
  <2>1. n[1] = "VM-" /\ n[2] = v
    BY <1>1, <1>3 DEF strstr
  <2>2. n \in {"VM-"} \X Vcpus \X Keys
    BY <2>1 DEF Names, Text
  <2> QED BY <2>1, <2>2 DEF KeyName
<1> QED BY <1>2, <1>3 DEF key

LEMMA InitIInv ==
  Init => IInv
BY EmptyGood, Zenon DEF Init, IInv

LEMMA StepIInv ==
  IInv /\ [Next]_vars => IInv'
<1> SUFFICES ASSUME IInv, [Next]_vars PROVE IInv' OBVIOUS
<1> USE DEF IInv
<1>1. CASE hypercog_init BY <1>1, EmptyGood, Zenon DEF hypercog_init
<1>2. CASE hypercog_destroy BY <1>2, EmptyGood, Zenon DEF hypercog_destroy, StopFirst
<1>3. CASE hypercog_start BY <1>3 DEF hypercog_start
<1>4. CASE hypercog_stop BY <1>4, Zenon DEF hypercog_stop
<1>5. ASSUME NEW v \in Vcpus, hypercog_vm_created(v) PROVE IInv'
  <2>1. PICK oom \in BOOLEAN : Relate(VmName(v), Text, oom) BY <1>5 DEF hypercog_vm_created
  <2>2. Good(atoms', next_handle') BY <2>1, RelateGood, NamesTyped
  <2>3. QED BY <1>5, <2>2 DEF hypercog_vm_created
<1>6. ASSUME NEW v \in Vcpus, hypercog_vm_destroyed(v) PROVE IInv'
  <2>1. /\ UNCHANGED <<next_handle, ctx, running>> /\ (alive' = alive \ {v} \/ UNCHANGED alive)
        /\ UNCHANGED atoms \/ \E h : atomspace_set_tv(h, 0)
    BY <1>6 DEF hypercog_vm_destroyed
  <2>2. Good(atoms', next_handle') BY <2>1, SetTvGood
  <2>3. QED BY <2>1, <2>2
<1>7. ASSUME NEW v \in Vcpus, NEW k \in Keys, hypercog_add_vm_knowledge(v, k) PROVE IInv'
  <2>1. PICK oom \in BOOLEAN : Relate(KeyName(v, k), Text, oom)
    BY <1>7 DEF hypercog_add_vm_knowledge
  <2>2. Good(atoms', next_handle') BY <2>1, RelateGood, NamesTyped
  <2>3. QED BY <1>7, <2>2 DEF hypercog_add_vm_knowledge
<1>8. CASE UNCHANGED vars BY <1>8 DEF vars
<1>9. QED BY <1>1, <1>2, <1>3, <1>4, <1>5, <1>6, <1>7, <1>8 DEF Next

LEMMA IInvHolds ==
  Spec => []IInv
BY InitIInv, StepIInv, PTL DEF Spec

\* The fields of atomspace_t and hypercog_ctx_t keep their types and the array
\* of atoms is never overrun, whatever its capacity.
THEOREM TypeCorrect == Spec => []TypeOK
<1>1. IInv => TypeOK BY DEF IInv, Good, TypeOK
<1>2. QED BY <1>1, IInvHolds, PTL

\* The handles of a space are unique, in array order and never 0, for any number
\* of calls of hypercog.c.
THEOREM HandlesIncreaseHolds == Spec => []HandlesIncrease
<1>1. IInv => HandlesIncrease BY DEF IInv, Good, HandlesIncrease
<1>2. QED BY <1>1, IInvHolds, PTL

\* No link of hypercog.c dangles, also when atomspace_add_node or
\* atomspace_add_link fails half way through a hook.
THEOREM LinksResolveHolds == Spec => []LinksResolve
<1>1. IInv => LinksResolve BY Zenon DEF IInv, Good, LinksResolve
<1>2. QED BY <1>1, IInvHolds, PTL

\* The AtomSpace is sound after any sequence of hooks, with any allocation failing.
THEOREM SpaceSoundHolds == Spec => []SpaceSound
<1>1. TypeOK /\ HandlesIncrease /\ LinksResolve => SpaceSound BY DEF SpaceSound
<1>2. QED BY <1>1, TypeCorrect, HandlesIncreaseHolds, LinksResolveHolds, PTL

\* hypercog_query_vm_knowledge never answers with an atom of another vcpu, and
\* finds one whenever the key was recorded, for any vcpus, keys and atoms.
THEOREM QueryIsolatedHolds == Spec => []QueryIsolated
<1>1. ASSUME IInv, NEW v \in Vcpus, NEW k \in Keys
      PROVE  LET h == hypercog_query_vm_knowledge(v, k)
             IN /\ h # 0 => \E i \in atomspace_get_atom(h), l \in Keys :
                              atoms[i].name = KeyName(v, l)
                /\ h = 0 => \A i \in 1 .. Len(atoms) : atoms[i].name # KeyName(v, k)
  <2> DEFINE found == atomspace_query(KeyName(v, k))
             h == hypercog_query_vm_knowledge(v, k)
  <2>1. \A i \in 1 .. Len(atoms) : atoms[i].name \in Names /\ atoms[i].handle # 0
    <3>1. atoms \in Seq(AtomType) /\ next_handle \in Nat
      BY <1>1 DEF IInv, Good
    <3>2. \A i \in 1 .. Len(atoms) : atoms[i] \in AtomType
      BY <3>1
    <3>3. \A i \in 1 .. Len(atoms) : atoms[i].handle \in 1 .. next_handle - 1
      BY <1>1 DEF IInv, Good
    <3>4. \A a \in AtomType : a.name \in Names
      BY DEF AtomType
    <3>5. \A n : n \in 1 .. next_handle - 1 => n # 0
      BY <3>1
    <3> QED BY <3>2, <3>3, <3>4, <3>5
  <2>2. found \in SUBSET Nat /\ \A i \in found : i \in 1 .. Len(atoms)
    BY DEF atomspace_query
  <2>3. CASE found = {}
    <3>1. \A i \in 1 .. Len(atoms) : atoms[i].name # KeyName(v, k)
      BY <2>3, KeysApart DEF atomspace_query
    <3>2. h = 0
      BY <2>3 DEF hypercog_query_vm_knowledge
    <3> QED BY <3>1, <3>2
  <2>4. CASE found # {}
    <3>1. PICK i : i = CHOOSE m \in found : \A j \in found : m <= j
      OBVIOUS
    <3>2. i \in found
      BY <2>2, <2>4, <3>1, Least
    <3>3. h = atoms[i].handle
      BY <2>4, <3>1 DEF hypercog_query_vm_knowledge, FirstHandle
    <3>4. i \in 1 .. Len(atoms) /\ strstr(atoms[i].name, KeyName(v, k))
      BY <3>2 DEF atomspace_query
    <3>5. PICK l \in Keys : atoms[i].name = KeyName(v, l)
      BY <2>1, <3>4, KeysApart
    <3>6. h # 0 /\ i \in atomspace_get_atom(h)
      BY <2>1, <3>3, <3>4 DEF atomspace_get_atom
    <3> QED BY <3>5, <3>6
  <2> QED BY <2>3, <2>4
<1>2. IInv => QueryIsolated
  BY <1>1 DEF QueryIsolated
<1>3. QED BY <1>2, IInvHolds, PTL

\* The server is never left running without its context.
THEOREM ServerInContextHolds == Spec => []ServerInContext
<1>1. IInv => ServerInContext BY DEF IInv, ServerInContext
<1>2. QED BY <1>1, IInvHolds, PTL

-----------------------------------------------------------------------------
(* The firmware interface.                                                 *)

\* Multiples of a word.
LEMMA WordLess ==
  ASSUME NEW n \in Nat, n % 4 = 0
  PROVE  /\ n >= 4 => (n - 4) % 4 = 0
         /\ n >= 12 => (n - 12) % 4 = 0
         /\ n # 0 => n >= 4
  OBVIOUS

\* Data rounded up to words.
LEMMA WordsUp ==
  ASSUME NEW k \in Nat, NEW n \in Nat
  PROVE  /\ 4 * k < n /\ n <= 4 * k + 4 => ((n + 3) \div 4) * 4 = 4 * k + 4
         /\ 4 * k + 4 < n => 4 * k + 4 < ((n + 3) \div 4) * 4
         /\ ((n + 3) \div 4) * 4 \in Nat
  OBVIOUS

\* req_size does not wrap while a word is left.
LEMMA SizeNoWrap == ASSUME NEW n \in 4 .. Modulus - 1 PROVE (n - 4) % Modulus = n - 4
  BY FwctlAssumption

-----------------------------------------------------------------------------
(* The firmware interface.                                                 *)

RinfoShape(D) ==
  /\ "count" \in D /\ "size" \in D /\ "type" \in D /\ "op" \in D
  /\ "error" \in D /\ "rcount" \in D /\ "rsize" \in D /\ "roff" \in D
RinfoTypes(r) ==
  /\ RinfoShape(DOMAIN r)
  /\ r.count \in 0 .. 3 /\ r.size \in 0 .. Modulus - 1 /\ r.type \in Ops \cup {0}
  /\ r.op \in {"none", "error", "get", "len"} /\ r.error \in {"ok", "ENOENT", "E2BIG"}
  /\ r.rcount \in 0 .. 4 /\ r.rsize \in Nat /\ r.roff \in Nat
FwShape(D) ==
  /\ "state" \in D /\ "ident" \in D /\ "rinfo" \in D /\ "errop" \in D /\ "str" \in D
  /\ "announced" \in D /\ "words" \in D
FwTypes(f) ==
  /\ FwShape(DOMAIN f)
  /\ f.state \in {"IDENT_WAIT", "IDENT_SEND", "REQ", "RESP"} /\ f.ident \in Nat /\ RinfoTypes(f.rinfo)
  /\ f.errop \in {"ok", "ENOENT", "E2BIG"} /\ f.str \in Seq(NameWords) /\ f.announced \in Nat /\ f.words \in Nat

\* What is left of a request, and the room left for its name.
RequestInv(f) ==
  /\ f.rinfo.size % 4 = 0
  /\ Len(f.str) * 4 <= FGET_STRSZ
  /\ f.state = "REQ" =>
       /\ f.rinfo.rcount = 0 /\ f.rinfo.roff = 0
       /\ f.rinfo.count \in {1, 2} => f.rinfo.size >= 12
       /\ f.rinfo.count = 3 => f.rinfo.size >= 4 /\ f.rinfo.op # "none"
       /\ f.rinfo.count = 3 /\ f.rinfo.op # "error" => Len(f.str) * 4 + f.rinfo.size <= FGET_STRSZ
       /\ f.announced # 0 => f.words * 4 = f.announced
  /\ f.state \in {"IDENT_WAIT", "IDENT_SEND"} => f.rinfo = NoReq /\ f.announced = 0

\* Data in whole words.
Padded(n) == ((n + 3) \div 4) * 4

\* What has been read of a response.
ResponseInv(f) ==
  f.state = "RESP" =>
    /\ f.rinfo.rcount <= f.words /\ f.rinfo.roff = 4 * (f.words - f.rinfo.rcount)
    /\ f.rinfo.rcount <= 3 => f.rinfo.roff = 0
    /\ f.rinfo.rcount = 4 => f.rinfo.roff < f.rinfo.rsize
    /\ f.announced = IF f.rinfo.rcount = 0 THEN 0 ELSE 16 + Padded(f.rinfo.rsize)

FwInv(f) == FwTypes(f) /\ RequestInv(f) /\ ResponseInv(f)

\* A response ends with the last of its words.
LEMMA ResponseStep ==
  ASSUME FwInv(fw), fwctl_inl
  PROVE  FwInv(fw')
<1> DEFINE r == fw.rinfo
           n == IF r.rcount <= 3 THEN [r EXCEPT !.rcount = @ + 1] ELSE [r EXCEPT !.roff = @ + 4]
           a == IF r.rcount = 0 THEN 16 + ((r.rsize + 3) \div 4) * 4 ELSE fw.announced
           g == [fw EXCEPT !.rinfo = n, !.words = fw.words + 1, !.announced = a]
<1>0. RinfoTypes(r) /\ FwTypes(fw) /\ RequestInv(fw) /\ ResponseInv(fw) /\ fw.state = "RESP"
  BY DEF FwInv, FwTypes, fwctl_inl
<1>1. fw' = IF n.rcount > 3 /\ n.rsize - n.roff <= 0 THEN [g EXCEPT !.state = "REQ", !.rinfo = NoReq] ELSE g
  BY DEF fwctl_inl, fwctl_response
<1>2. /\ RinfoTypes(n) /\ n.size = r.size /\ n.rsize = r.rsize
      /\ n.rcount = (IF r.rcount <= 3 THEN r.rcount + 1 ELSE 4)
      /\ n.roff = (IF r.rcount <= 3 THEN 0 ELSE r.roff + 4)
  BY <1>0 DEF RinfoTypes, RinfoShape, ResponseInv
<1>3. a = 16 + Padded(r.rsize) /\ a \in Nat
  BY <1>0, WordsUp DEF ResponseInv, RinfoTypes, RinfoShape, Padded
<1>4. fw.words \in Nat /\ r.rsize \in Nat /\ r.roff \in Nat /\ r.rcount \in 0 .. 4
  BY <1>0 DEF FwTypes, RinfoTypes, RinfoShape
<1> HIDE DEF n, a
<1>5. CASE ~ (n.rcount > 3 /\ n.rsize - n.roff <= 0)
  <2>1. fw' = g
    BY <1>1, <1>5
  <2>2. /\ g.state = "RESP" /\ g.rinfo = n /\ g.words = fw.words + 1 /\ g.announced = a /\ g.str = fw.str
        /\ FwTypes(g)
    BY <1>0, <1>2, <1>3 DEF FwTypes, FwShape
  <2> HIDE DEF g
  <2>3. RequestInv(g)
    BY <1>0, <1>2, <2>2 DEF RequestInv
  <2>4. ResponseInv(g)
    <3>1. /\ r.rcount <= fw.words /\ r.roff = 4 * (fw.words - r.rcount)
          /\ r.rcount <= 3 => r.roff = 0
      BY <1>0 DEF ResponseInv
    <3>2. n.rcount <= fw.words + 1 /\ n.roff = 4 * (fw.words + 1 - n.rcount)
      BY <1>2, <1>4, <3>1
    <3>3. n.rcount # 0 /\ (n.rcount <= 3 => n.roff = 0)
      BY <1>2, <1>4
    <3>4. n.rcount = 4 => n.roff < n.rsize
      BY <1>2, <1>4, <1>5
    <3>5. a = 16 + Padded(n.rsize)
      BY <1>2, <1>3, Zenon
    <3>6. g.rinfo.rcount <= g.words /\ g.rinfo.roff = 4 * (g.words - g.rinfo.rcount)
      <4>1. n.rcount \in Int /\ n.roff \in Int
        BY <1>2 DEF RinfoTypes
      <4> QED BY <1>4, <2>2, <3>2, <4>1
    <3>7. /\ g.rinfo.rcount # 0 /\ (g.rinfo.rcount <= 3 => g.rinfo.roff = 0)
          /\ g.rinfo.rcount = 4 => g.rinfo.roff < g.rinfo.rsize
      BY <2>2, <3>3, <3>4, Zenon
    <3>8. g.announced = 16 + Padded(g.rinfo.rsize)
      BY <2>2, <3>5, Zenon
    <3> QED BY <3>6, <3>7, <3>8, Zenon DEF ResponseInv
  <2> QED BY <2>1, <2>2, <2>3, <2>4 DEF FwInv
<1>6. CASE n.rcount > 3 /\ n.rsize - n.roff <= 0
  <2> DEFINE h == [fw EXCEPT !.rinfo = NoReq, !.words = fw.words + 1, !.announced = a, !.state = "REQ"]
  <2>1. fw' = h
    BY <1>1, <1>6, Zenon
  <2>2. RinfoTypes(NoReq) /\ NoReq.size = 0 /\ NoReq.count = 0 /\ NoReq.rcount = 0 /\ NoReq.roff = 0
    BY FwctlAssumption DEF NoReq, RinfoTypes, RinfoShape
  <2>3. /\ h.state = "REQ" /\ h.rinfo = NoReq /\ h.words = fw.words + 1 /\ h.announced = a /\ h.str = fw.str
        /\ FwTypes(h)
    BY <1>0, <1>3, <2>2 DEF FwTypes, FwShape
  <2>4. (fw.words + 1) * 4 = a
    <3>1. CASE r.rcount <= 3
      <4>1. r.rcount = 3 /\ r.roff = 0 /\ r.rsize = 0
        BY <1>0, <1>2, <1>4, <1>6, <3>1 DEF ResponseInv
      <4>2. fw.words = 3
        BY <1>0, <1>4, <4>1 DEF ResponseInv
      <4> QED BY <1>3, <4>1, <4>2 DEF Padded
    <3>2. CASE r.rcount = 4
      <4>1. r.roff = 4 * (fw.words - 4) /\ r.roff < r.rsize /\ r.rsize <= r.roff + 4
        BY <1>0, <1>2, <1>4, <1>6, <3>2 DEF ResponseInv
      <4>2. Padded(r.rsize) = r.roff + 4
        <5>1. fw.words - 4 \in Nat
          BY <1>0, <1>4, <3>2 DEF ResponseInv
        <5> QED BY <1>4, <4>1, <5>1, WordsUp DEF Padded
      <4> QED BY <1>3, <1>4, <4>1, <4>2
    <3> QED BY <1>4, <3>1, <3>2
  <2> HIDE DEF h
  <2>5. RequestInv(h) /\ ResponseInv(h)
    BY <1>0, <2>2, <2>3, <2>4 DEF RequestInv, ResponseInv
  <2> QED BY <2>1, <2>3, <2>5 DEF FwInv
<1> QED BY <1>5, <1>6

\* A request that is complete becomes a response of which nothing is read.
LEMMA RequestDone ==
  ASSUME NEW f, FwTypes(f), f.rinfo.size % 4 = 0, f.rinfo.op # "none", Len(f.str) * 4 <= FGET_STRSZ,
         f.rinfo.rcount = 0
  PROVE  FwInv(fwctl_request_done(f))
<1> DEFINE e == Result(f).error
           n == Result(f).size
           q == [f.rinfo EXCEPT !.error = e, !.rsize = n, !.roff = 0]
           g == [f EXCEPT !.state = "RESP", !.rinfo = q, !.announced = 0, !.words = 0]
<1>1. e \in {"ok", "ENOENT", "E2BIG"} /\ n \in Nat
  <2>1. f.rinfo.op \in {"error", "get", "len"} /\ f.errop \in {"ok", "ENOENT", "E2BIG"}
    BY DEF FwTypes, RinfoTypes, RinfoShape
  <2> QED BY <2>1, FwctlAssumption DEF Result, fget_result, SizeT
<1>2. fwctl_request_done(f) = g
  BY Zenon DEF fwctl_request_done, FwTypes, FwShape
<1> HIDE DEF e, n
<1>3. RinfoTypes(q) /\ q.rcount = 0 /\ q.roff = 0 /\ q.size = f.rinfo.size
  BY <1>1 DEF FwTypes, RinfoTypes, RinfoShape
<1> HIDE DEF q
<1>4. /\ FwTypes(g) /\ g.state = "RESP" /\ g.rinfo = q /\ g.announced = 0 /\ g.words = 0 /\ g.str = f.str
  BY <1>3 DEF FwTypes, FwShape
<1> HIDE DEF g
<1>5. RequestInv(g) /\ ResponseInv(g)
  BY <1>3, <1>4 DEF RequestInv, ResponseInv
<1> QED BY <1>2, <1>4, <1>5 DEF FwInv

\* The third word chooses the operation: a name that does not fit is refused.
LEMMA RequestStart ==
  ASSUME NEW f, FwTypes(f), f.state = "REQ", f.rinfo.size % 4 = 0, f.rinfo.size >= 12, f.rinfo.count = 3,
         f.rinfo.rcount = 0, f.rinfo.roff = 0, Len(f.str) * 4 <= FGET_STRSZ,
         f.announced # 0 => f.words * 4 = f.announced
  PROVE  FwInv(fwctl_request_start(f))
<1> DEFINE size == f.rinfo.size - 12
           known == f.rinfo.type \in {OP_GET, OP_GET_LEN}
           err == IF known THEN fget_start(size) ELSE "ENOENT"
           op == IF err # "ok" THEN "error" ELSE IF f.rinfo.type = OP_GET THEN "get" ELSE "len"
           errop == IF err # "ok" THEN err ELSE f.errop
           str == IF known /\ err = "ok" THEN <<>> ELSE f.str
           q == [f.rinfo EXCEPT !.size = size, !.op = op]
           g == [f EXCEPT !.rinfo = q, !.errop = errop, !.str = str]
<1>1. fwctl_request_start(f) = IF size = 0 THEN fwctl_request_done(g) ELSE g
  BY Zenon DEF fwctl_request_start, FwTypes, FwShape
<1>a. f.rinfo.size \in 0 .. Modulus - 1 /\ Modulus \in Nat /\ FGET_STRSZ \in Nat
  BY FwctlAssumption DEF FwTypes, RinfoTypes, RinfoShape
<1>2. size \in 0 .. Modulus - 1 /\ size % 4 = 0
  BY <1>a, WordLess
<1>b. err \in {"ok", "ENOENT", "E2BIG"} /\ (err = "ok" => known /\ size <= FGET_STRSZ)
  BY <1>a, <1>2 DEF fget_start
<1> HIDE DEF size, err, known
<1>c. str \in Seq(NameWords) /\ Len(str) * 4 <= FGET_STRSZ /\ (err = "ok" => Len(str) = 0)
  BY <1>a, <1>b DEF FwTypes
<1>3. /\ op \in {"error", "get", "len"} /\ errop \in {"ok", "ENOENT", "E2BIG"} /\ str \in Seq(NameWords)
      /\ Len(str) * 4 <= FGET_STRSZ
      /\ op # "error" => Len(str) * 4 + size <= FGET_STRSZ
  <2>1. op \in {"error", "get", "len"} /\ errop \in {"ok", "ENOENT", "E2BIG"} /\ (op # "error" => err = "ok")
    BY <1>b DEF FwTypes
  <2> HIDE DEF op, errop, str
  <2> QED BY <1>a, <1>b, <1>c, <1>2, <2>1
<1> HIDE DEF op, errop, str
<1>4. /\ RinfoTypes(q) /\ q.rcount = 0 /\ q.roff = 0 /\ q.size = size /\ q.op = op /\ q.count = 3
  BY <1>2, <1>3 DEF FwTypes, RinfoTypes, RinfoShape
<1> HIDE DEF q
<1>5. /\ FwTypes(g) /\ g.state = "REQ" /\ g.rinfo = q /\ g.str = str /\ g.announced = f.announced /\ g.words = f.words
  BY <1>3, <1>4 DEF FwTypes, FwShape
<1> HIDE DEF g
<1>6. CASE size = 0
  BY <1>1, <1>2, <1>3, <1>4, <1>5, <1>6, RequestDone, Zenon
<1>7. CASE size # 0
  <2>1. size >= 4
    BY <1>2, <1>7, WordLess
  <2>2. RequestInv(g) /\ ResponseInv(g)
    BY <1>2, <1>3, <1>4, <1>5, <2>1 DEF RequestInv, ResponseInv
  <2> QED BY <1>1, <1>5, <1>7, <2>2 DEF FwInv
<1> QED BY <1>6, <1>7

\* A word of a name.
LEMMA RequestData ==
  ASSUME NEW f, FwInv(f), f.state = "REQ", f.rinfo.count = 3, NEW word \in NameWords
  PROVE  FwInv(fwctl_request_data(f, word))
<1> DEFINE size == (f.rinfo.size - 4) % Modulus
           str == IF f.rinfo.op = "error" THEN f.str ELSE Append(f.str, word)
           q == [f.rinfo EXCEPT !.size = size]
           g == [f EXCEPT !.rinfo = q, !.str = str]
<1>0. /\ FwTypes(f) /\ RequestInv(f) /\ RinfoTypes(f.rinfo) /\ f.str \in Seq(NameWords)
      /\ f.rinfo.size \in 0 .. Modulus - 1
  BY DEF FwInv, FwTypes, RinfoTypes, RinfoShape
<1>1. fwctl_request_data(f, word) = IF size < 4 THEN fwctl_request_done(g) ELSE g
  BY <1>0 DEF fwctl_request_data, FwTypes, FwShape, RinfoTypes, RinfoShape
<1>a. f.rinfo.size \in 4 .. Modulus - 1 /\ f.rinfo.size % 4 = 0
  BY <1>0, FwctlAssumption DEF RequestInv
<1>2. size = f.rinfo.size - 4 /\ size \in 0 .. Modulus - 1 /\ size % 4 = 0
  BY <1>a, SizeNoWrap, WordLess, FwctlAssumption
<1>3. /\ str \in Seq(NameWords) /\ Len(str) * 4 <= FGET_STRSZ
      /\ f.rinfo.op # "error" => Len(str) * 4 + size <= FGET_STRSZ
  <2> DEFINE l == Len(f.str)
  <2>1. l \in Nat /\ l * 4 <= FGET_STRSZ /\ (f.rinfo.op # "error" => l * 4 + f.rinfo.size <= FGET_STRSZ)
    BY <1>0 DEF RequestInv
  <2>2. str \in Seq(NameWords) /\ Len(str) = IF f.rinfo.op = "error" THEN l ELSE l + 1
    BY <1>0
  <2> HIDE DEF size, str, l
  <2>3. FGET_STRSZ \in Nat /\ size \in Nat /\ f.rinfo.size = size + 4
    BY <1>a, <1>2, FwctlAssumption
  <2>4. CASE f.rinfo.op = "error"
    BY <2>1, <2>2, <2>4
  <2>5. CASE f.rinfo.op # "error"
    <3>1. (l + 1) * 4 = l * 4 + 4
      BY <2>1
    <3> QED BY <2>1, <2>2, <2>3, <2>5, <3>1
  <2> QED BY <2>4, <2>5
<1> HIDE DEF size, str
<1>4. /\ RinfoTypes(q) /\ q.rcount = 0 /\ q.roff = 0 /\ q.size = size /\ q.op = f.rinfo.op /\ q.count = 3
      /\ q.op # "none"
  BY <1>0, <1>2 DEF RequestInv, RinfoTypes, RinfoShape
<1> HIDE DEF q
<1>5. /\ FwTypes(g) /\ g.state = "REQ" /\ g.rinfo = q /\ g.str = str /\ g.announced = f.announced /\ g.words = f.words
  BY <1>0, <1>3, <1>4 DEF FwTypes, FwShape
<1> HIDE DEF g
<1>6. CASE size < 4
  BY <1>1, <1>2, <1>3, <1>4, <1>5, <1>6, RequestDone, Zenon
<1>7. CASE ~ size < 4
  <2>1. size >= 4
    BY <1>2, <1>7
  <2>2. RequestInv(g) /\ ResponseInv(g)
    BY <1>0, <1>2, <1>3, <1>4, <1>5, <2>1 DEF RequestInv, ResponseInv
  <2> QED BY <1>1, <1>5, <1>7, <2>2 DEF FwInv
<1> QED BY <1>6, <1>7

\* The inductive invariant.
FwctlInv == FwInv(fw)

\* The invariant holds at the start.
LEMMA FwctlInitInv == fwctl_init => FwctlInv
<1> SUFFICES ASSUME fwctl_init PROVE FwInv(fw)
  BY DEF FwctlInv
<1>1. RinfoTypes(NoReq) /\ NoReq.size = 0
  BY FwctlAssumption DEF NoReq, RinfoTypes, RinfoShape
<1>2. FwTypes(fw)
  BY <1>1 DEF fwctl_init, FwTypes, FwShape
<1>3. Len(fw.str) = 0 /\ fw.rinfo = NoReq /\ fw.state = "IDENT_WAIT" /\ fw.announced = 0
  BY DEF fwctl_init
<1>4. RequestInv(fw) /\ ResponseInv(fw)
  BY <1>1, <1>3, FwctlAssumption DEF RequestInv, ResponseInv
<1> QED BY <1>2, <1>4 DEF FwInv

\* A word written by the firmware.
LEMMA RequestStep ==
  ASSUME FwInv(fw), fwctl_outl
  PROVE  FwInv(fw')
<1>0. /\ fw.state = "REQ" /\ fwctl_request /\ FwTypes(fw) /\ RequestInv(fw) /\ RinfoTypes(fw.rinfo)
      /\ fw.rinfo.count \in 0 .. 3
  BY DEF FwInv, FwTypes, RinfoTypes, RinfoShape, fwctl_outl
<1>1. ASSUME NEW n \in ReqSizes, fw' = [fw EXCEPT !.rinfo = [fw.rinfo EXCEPT !.size = n, !.count = 1]]
      PROVE  FwInv(fw')
  <2> DEFINE q == [fw.rinfo EXCEPT !.size = n, !.count = 1]
             g == [fw EXCEPT !.rinfo = q]
  <2>2. n \in 0 .. Modulus - 1 /\ n >= 12 /\ n % 4 = 0
    BY FwctlAssumption
  <2>3. fw' = g
    BY <1>1
  <2>a. RinfoTypes(q)
    BY <1>0, <2>2 DEF RinfoTypes, RinfoShape
  <2>b. q.size = n /\ q.count = 1 /\ q.rcount = fw.rinfo.rcount /\ q.roff = fw.rinfo.roff
    BY <1>0 DEF RinfoTypes, RinfoShape
  <2>4. RinfoTypes(q) /\ q.size = n /\ q.count = 1 /\ q.rcount = fw.rinfo.rcount /\ q.roff = fw.rinfo.roff
    BY <2>a, <2>b
  <2> HIDE DEF q
  <2>5. FwTypes(g) /\ g.state = "REQ" /\ g.rinfo = q /\ g.str = fw.str /\ g.announced = fw.announced /\ g.words = fw.words
    BY <1>0, <2>4 DEF FwTypes, FwShape
  <2> HIDE DEF g
  <2>6. RequestInv(g) /\ ResponseInv(g)
    BY <1>0, <2>2, <2>4, <2>5 DEF RequestInv, ResponseInv
  <2> QED BY <2>3, <2>5, <2>6 DEF FwInv
<1>2. ASSUME fw.rinfo.count = 1, NEW t \in Ops,
             fw' = [fw EXCEPT !.rinfo = [fw.rinfo EXCEPT !.type = t, !.count = 2]]
      PROVE  FwInv(fw')
  <2> DEFINE q == [fw.rinfo EXCEPT !.type = t, !.count = 2]
             g == [fw EXCEPT !.rinfo = q]
  <2>3. fw' = g
    BY <1>2
  <2>a. RinfoTypes(q)
    BY <1>0 DEF RinfoTypes, RinfoShape
  <2>b. q.size = fw.rinfo.size /\ q.count = 2 /\ q.rcount = fw.rinfo.rcount /\ q.roff = fw.rinfo.roff
    BY <1>0 DEF RinfoTypes, RinfoShape
  <2>4. /\ RinfoTypes(q) /\ q.size = fw.rinfo.size /\ q.count = 2 /\ q.rcount = fw.rinfo.rcount
        /\ q.roff = fw.rinfo.roff
    BY <2>a, <2>b
  <2> HIDE DEF q
  <2>5. FwTypes(g) /\ g.state = "REQ" /\ g.rinfo = q /\ g.str = fw.str /\ g.announced = fw.announced /\ g.words = fw.words
    BY <1>0, <2>4 DEF FwTypes, FwShape
  <2> HIDE DEF g
  <2>6. RequestInv(g) /\ ResponseInv(g)
    BY <1>0, <1>2, <2>4, <2>5 DEF RequestInv, ResponseInv
  <2> QED BY <2>3, <2>5, <2>6 DEF FwInv
<1>3. ASSUME fw.rinfo.count = 2, fw' = fwctl_request_start([fw EXCEPT !.rinfo = [fw.rinfo EXCEPT !.count = 3]])
      PROVE  FwInv(fw')
  <2> DEFINE q == [fw.rinfo EXCEPT !.count = 3]
             g == [fw EXCEPT !.rinfo = q]
  <2>3. fw' = fwctl_request_start(g)
    BY <1>3
  <2>4. /\ RinfoTypes(q) /\ q.size = fw.rinfo.size /\ q.count = 3 /\ q.rcount = fw.rinfo.rcount
        /\ q.roff = fw.rinfo.roff
    BY <1>0 DEF RinfoTypes, RinfoShape
  <2> HIDE DEF q
  <2>5. FwTypes(g) /\ g.state = "REQ" /\ g.rinfo = q /\ g.str = fw.str /\ g.announced = fw.announced /\ g.words = fw.words
    BY <1>0, <2>4 DEF FwTypes, FwShape
  <2> HIDE DEF g
  <2>6. /\ g.rinfo.size % 4 = 0 /\ g.rinfo.size >= 12 /\ g.rinfo.rcount = 0 /\ g.rinfo.roff = 0
        /\ Len(g.str) * 4 <= FGET_STRSZ /\ (g.announced # 0 => g.words * 4 = g.announced)
    BY <1>0, <1>3, <2>4, <2>5 DEF RequestInv
  <2> QED BY <2>3, <2>4, <2>5, <2>6, RequestStart
<1>4. ASSUME fw.rinfo.count = 3, NEW w \in NameWords, fw' = fwctl_request_data(fw, w)
      PROVE  FwInv(fw')
  BY <1>0, <1>4, RequestData
<1> QED BY <1>0, <1>1, <1>2, <1>3, <1>4, Zenon DEF fwctl_request

\* Every access of the firmware keeps the invariant.
LEMMA FwctlStep == FwctlInv /\ [FwctlNext]_fw => FwctlInv'
<1> SUFFICES ASSUME FwInv(fw), [FwctlNext]_fw PROVE FwInv(fw')
  BY DEF FwctlInv
<1>0. FwTypes(fw) /\ RequestInv(fw)
  BY DEF FwInv
<1>1. CASE fwctl_outw
  <2> DEFINE g == [fw EXCEPT !.state = "IDENT_SEND", !.ident = 0]
  <2>1. fw' = g /\ fw.state = "IDENT_WAIT"
    BY <1>1 DEF fwctl_outw
  <2>2. FwTypes(g) /\ g.state = "IDENT_SEND" /\ g.rinfo = fw.rinfo /\ g.str = fw.str /\ g.announced = fw.announced
    BY <1>0 DEF FwTypes, FwShape
  <2> HIDE DEF g
  <2> QED BY <1>0, <2>1, <2>2 DEF FwInv, RequestInv, ResponseInv
<1>2. CASE fwctl_inb
  <2> DEFINE st == IF fw.ident + 1 >= SigLen THEN "REQ" ELSE "IDENT_SEND"
             g == [fw EXCEPT !.ident = fw.ident + 1, !.state = st]
  <2>1. fw' = g /\ fw.state = "IDENT_SEND" /\ st \in {"REQ", "IDENT_SEND"}
    BY <1>2 DEF fwctl_inb
  <2> HIDE DEF st
  <2>2. FwTypes(g) /\ g.state = st /\ g.rinfo = fw.rinfo /\ g.str = fw.str /\ g.announced = fw.announced
    BY <1>0, <2>1 DEF FwTypes, FwShape
  <2> HIDE DEF g
  <2>3. fw.rinfo = NoReq /\ NoReq.rcount = 0 /\ NoReq.roff = 0 /\ NoReq.count = 0 /\ fw.announced = 0
    BY <1>0, <2>1 DEF RequestInv, NoReq
  <2> QED BY <1>0, <2>1, <2>2, <2>3 DEF FwInv, RequestInv, ResponseInv
<1>3. CASE fwctl_outl
  BY <1>3, RequestStep
<1>4. CASE fwctl_inl
  BY <1>4, ResponseStep
<1>5. CASE UNCHANGED fw
  BY <1>5
<1> QED BY <1>1, <1>2, <1>3, <1>4, <1>5 DEF FwctlNext

\* For any sizes of requests, any bound on names and any length of the answer,
\* requests and responses of fwctl stay in step, and fget_data never writes past
\* fget_str.
THEOREM FwctlCorrect == FwctlSpec => []FwctlInStep
<1>1. FwctlInv => FwctlInStep
  <2> SUFFICES ASSUME FwInv(fw) PROVE FwctlInStep
    BY DEF FwctlInv
  <2>1. Len(fw.str) * 4 <= FGET_STRSZ /\ (fw.announced # 0 /\ fw.state # "RESP" => fw.words * 4 = fw.announced)
    BY DEF FwInv, FwTypes, RequestInv
  <2>2. fw.announced # 0 /\ fw.state = "RESP" => fw.words * 4 < fw.announced
    <3> SUFFICES ASSUME fw.announced # 0, fw.state = "RESP" PROVE fw.words * 4 < fw.announced
      OBVIOUS
    <3> DEFINE r == fw.rinfo
               w == fw.words
               c == Padded(r.rsize)
    <3>1. w \in Nat /\ r.rsize \in Nat /\ r.rcount \in 0 .. 4
      BY DEF FwInv, FwTypes, RinfoTypes, RinfoShape
    <3>2. /\ r.rcount <= w /\ r.roff = 4 * (w - r.rcount) /\ (r.rcount <= 3 => r.roff = 0)
          /\ (r.rcount = 4 => r.roff < r.rsize) /\ fw.announced = 16 + c
      BY DEF FwInv, ResponseInv
    <3>3. c \in Nat
      BY <3>1, WordsUp DEF Padded
    <3>4. r.rcount = 4 => 4 * (w - 4) + 4 <= c
      BY <3>1, <3>2, WordsUp DEF Padded
    <3> HIDE DEF c
    <3> QED BY <3>1, <3>2, <3>3, <3>4
  <2> QED BY <2>1, <2>2 DEF FwctlInStep
<1> QED BY <1>1, FwctlInitInv, FwctlStep, PTL DEF FwctlSpec
=============================================================================
