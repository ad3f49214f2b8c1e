----------------------------- MODULE Virtio9p -----------------------------
(***************************************************************************)
(* The virtio 9P device of src/lib/pci_virtio_9p.c.  A notification takes  *)
(* one chain, records its 9P tag in the first free slot of v9sc_out and    *)
(* writes the request to the server; a thread reads the answers, looks for *)
(* the slot by tag (whether it is in use or not) and returns the chain.    *)
(*                                                                         *)
(* External: the driver uses a tag again only when the request, and every  *)
(* Tflush of it, has been answered; the server answers in any order and    *)
(* never answers a request after the Rflush of it.  Connecting to the      *)
(* server succeeds (the process exits when it does not).                   *)
(*                                                                         *)
(* The thread searches v9sc_out without v9sc_mtx2, while a notification    *)
(* may be writing a slot: `inuse` is already set, `tag` is still the old   *)
(* one.                                                                    *)
(***************************************************************************)
EXTENDS Virtqueue

CONSTANTS Tags, NoTag,
          FlushAlone   \* the driver posts nothing else while a Tflush is out

ASSUME Virtio9pAssumption == 0 \in Tags /\ NoTag \notin Tags /\ FlushAlone \in BOOLEAN

VARIABLES req,    \* what the driver wrote in the chain: tag, and otag of a Tflush
          slots,  \* v9sc_out
          mtx2,   \* the thread that holds v9sc_mtx2
          srv,    \* requests the server has to answer
          p9      \* the device thread: what it does, for which tag (and slot)

p9Vars == <<req, slots, mtx2, srv, p9>>

Blank == [tag |-> 0, otag |-> NoTag]
Request == [tag : Tags, otag : Tags \cup {NoTag}]
Idle9p == <<"idle", NoTag>>

P9Init ==
  /\ req = [h \in Heads |-> Blank]
  /\ slots = [i \in Heads |-> [inuse |-> FALSE, tag |-> 0, idx |-> 0, otag |-> 0]]
  /\ mtx2 = None /\ srv = {} /\ p9 = Idle9p

\* Tags the driver may not use yet.
TagsInUse == UNION {{req[h].tag, req[h].otag} : h \in drv[0].out}

P9Post(c) ==
  /\ FlushAlone => \A h \in drv[0].out : req[h].otag = NoTag
  /\ \E h \in Heads, t \in Tags \ TagsInUse :
       \E o \in {NoTag} \cup {req[g].tag : g \in {f \in drv[0].out : req[f].otag = NoTag}} :
         /\ Post(c, 0, h)
         /\ req' = [req EXCEPT ![h] = [tag |-> t, otag |-> o]]
  /\ UNCHANGED <<slots, mtx2, srv, p9>>

First(S) == CHOOSE i \in S : \A j \in S : i <= j
FreeSlot == First({i \in Heads : ~slots[i].inuse})

\* pci_vt9p_notify takes one chain, if there is one, and locks v9sc_out: the slot
\* is in use ...
pci_vt9p_notify(c) ==
  /\ pc[c] = <<"notify", 0>> /\ ~Confused(0)
  /\ IF vq_has_descs(0)
     THEN /\ mtx2 = None /\ mtx2' = c
          /\ vq_getchain(0)
          /\ slots' = [slots EXCEPT ![FreeSlot].inuse = TRUE]
          /\ pc' = [pc EXCEPT ![c] = <<"fill", FreeSlot>>]
          /\ UNCHANGED vs_mtx
     ELSE Written(c) /\ UNCHANGED <<vq, slots, mtx2>>
  /\ UNCHANGED <<mem, caps, isr, intr, drv, req, srv, p9>>

\* ... and then filled (the otag of other requests is 0).
InHand == mem[0].ring[Slot(Returned(0))]
Fill(c) ==
  /\ pc[c][1] = "fill"
  /\ slots' = [slots EXCEPT ![pc[c][2]] =
       [inuse |-> TRUE, tag |-> req[InHand].tag, idx |-> InHand,
        otag |-> IF req[InHand].otag = NoTag THEN 0 ELSE req[InHand].otag]]
  /\ mtx2' = None
  /\ pc' = [pc EXCEPT ![c] = <<"writev", InHand>>]
  /\ UNCHANGED <<mem, vq, caps, vs_mtx, isr, intr, drv, req, srv, p9>>

\* writev to the server, with the mutex of the device held.
pci_vt9p_writev(c) ==
  /\ pc[c][1] = "writev"
  /\ srv' = srv \cup {req[pc[c][2]]}
  /\ Written(c)
  /\ UNCHANGED <<mem, vq, caps, isr, intr, drv, req, slots, mtx2, p9>>

\* The thread reads an answer.  With the Rflush the server forgets the request.
ReadAnswer(t) ==
  /\ p9 = Idle9p
  /\ \E r \in srv :
       /\ r.tag = t /\ srv' = {x \in srv \ {r} : x.tag # r.otag}
       /\ p9' = <<IF r.otag = NoTag THEN "deliver" ELSE "flush", t>>
  /\ UNCHANGED <<vqVars, req, slots, mtx2>>

Tagged(t) == {i \in Heads : slots[i].tag = t}

Flushed(o) == {i \in Tagged(o) : slots[i].inuse}

\* Rflush: looks for the flushed request in the slots that are in use ...
Rflush ==
  /\ p9[1] = "flush"
  /\ LET found == IF Tagged(p9[2]) = {} THEN {} ELSE Flushed(slots[First(Tagged(p9[2]))].otag)
     IN p9' = IF found = {} THEN <<"deliver", p9[2]>> ELSE <<"release", p9[2], First(found)>>
  /\ UNCHANGED <<vqVars, req, slots, mtx2, srv>>

\* ... locks, and returns the chain of the slot it found, empty.
RflushRelease ==
  /\ p9[1] = "release" /\ mtx2 = None
  /\ slots' = [slots EXCEPT ![p9[3]].inuse = FALSE]
  /\ vq_relchain(0, slots[p9[3]].idx)
  /\ p9' = <<"deliver", p9[2]>>
  /\ UNCHANGED <<vq, caps, vs_mtx, isr, intr, pc, drv, req, mtx2, srv>>

\* The answer is copied to the chain of the first slot with its tag.
Deliver ==
  /\ p9[1] = "deliver"
  /\ IF Tagged(p9[2]) = {} THEN p9' = Idle9p /\ UNCHANGED <<slots, mem, mtx2>>
     ELSE /\ mtx2 = None /\ mtx2' = "p9"
          /\ slots' = [slots EXCEPT ![First(Tagged(p9[2]))].inuse = FALSE]
          /\ vq_relchain(0, slots[First(Tagged(p9[2]))].idx)
          /\ p9' = <<"end", NoTag>>
  /\ UNCHANGED <<vq, caps, vs_mtx, isr, intr, pc, drv, req, srv>>

DeliverEnd ==
  /\ p9[1] = "end"
  /\ vq_endchains(0, TRUE)
  /\ p9' = Idle9p /\ mtx2' = None
  /\ UNCHANGED <<mem, caps, vs_mtx, pc, drv, req, slots, srv>>

pci_vt9p_reset(c) ==
  /\ drv[0].out = {} /\ ResetWrite(c) /\ UNCHANGED p9Vars

P9ResetDone(c) ==
  /\ pc[c][1] = "reset"
  /\ vi_reset_dev /\ Written(c)
  /\ UNCHANGED <<mem, intr, drv, p9Vars>>

P9Cpu(c) == pci_vt9p_notify(c) \/ Fill(c) \/ pci_vt9p_writev(c) \/ P9ResetDone(c)
P9Thread == Rflush \/ RflushRelease \/ Deliver \/ DeliverEnd

\* The driver takes back its descriptors with the chain.
P9Driver ==
  /\ DriverNext(FALSE)
  /\ req' = [h \in Heads |-> IF h \in drv'[0].out THEN req[h] ELSE Blank]
  /\ UNCHANGED <<slots, mtx2, srv, p9>>

P9Next ==
  \/ P9Driver
  \/ \E c \in Vcpus : P9Post(c) \/ pci_vt9p_reset(c) \/ P9Cpu(c)
  \/ P9Thread \/ \E t \in Tags : ReadAnswer(t)

Filling == {pc[c][2] : c \in {d \in Vcpus : pc[d][1] = "fill"}}
P9Holds == {slots[i].idx : i \in {j \in Heads \ Filling : slots[j].inuse}}
             \cup {InHand : i \in Filling}
P9WillEnd == p9[1] \in {"deliver", "end"}
=============================================================================
