-------------------------------- MODULE Mmio --------------------------------
(***************************************************************************)
(* Address decoding: the tree of memory ranges with its per-vcpu hint      *)
(* (mem.c), the I/O port table (inout.c), and the BARs of a PCI function   *)
(* that a guest enables, disables and moves (pci_emul.c) while other vcpus *)
(* access them.  A vcpu that reaches configuration space through the       *)
(* extended window is itself inside emulate_mem.  The guest serialises its *)
(* configuration writes and never makes two BARs overlap.                  *)
(***************************************************************************)
EXTENDS Naturals, FiniteSets, Sequences, SequencesExt

CONSTANTS
  MmioVcpus,
  MemBars, IoBars,    \* the BARs of the function; each one address wide
  Addrs               \* addresses a BAR may be moved to

Bars == MemBars \cup IoBars
Ecfg == "ecfg"        \* the extended configuration window, registered at start
None == [bar |-> "none", base |-> 0]

VARIABLES
  tree,     \* mmio_rb_root: ranges [bar, base]
  hint,     \* mmio_hint[v]
  ports,    \* inout_handlers: [address -> bar]
  readers,  \* who holds mmio_rwlock for reading; a writer does all it does in a step
  bar,      \* pi_bar[b].addr
  cmd,      \* PCIR_COMMAND: "MEMEN", "PORTEN"
  cpu       \* cpu[v]: [pc, entry, todo]: where v is; todo, the registrations its
            \* configuration write still has to make

mmioVars == <<tree, hint, ports, readers, bar, cmd, cpu>>

Decodes(b) == IF b \in IoBars THEN "PORTEN" \in cmd ELSE "MEMEN" \in cmd

NoPort == "default"

MmioInit ==
  /\ bar = CHOOSE f \in [Bars -> Addrs] : \A a, b \in Bars : a # b => f[a] # f[b]
  /\ cmd = {"MEMEN", "PORTEN"}
  /\ tree = {[bar |-> b, base |-> bar[b]] : b \in MemBars} \cup {[bar |-> Ecfg, base |-> 0]}
  /\ hint = [v \in MmioVcpus |-> None]
  /\ ports = [a \in Addrs |-> IF \E b \in IoBars : bar[b] = a
                              THEN CHOOSE b \in IoBars : bar[b] = a ELSE NoPort]
  /\ readers = {}
  /\ cpu = [v \in MmioVcpus |-> [pc |-> "guest", entry |-> None, todo |-> <<>>]]

Goto(v, pc) == cpu' = [cpu EXCEPT ![v].pc = pc]

Lookup(a) == IF \E r \in tree : r.base = a THEN CHOOSE r \in tree : r.base = a ELSE None

\* Under the read lock: the hint if it matches, else the tree, else the
\* fallback range, whose handler does nothing.
emulate_mem(v) ==
  \E paddr \in Addrs \cup {0} :
    LET r == IF hint[v] # None /\ hint[v].base = paddr THEN hint[v] ELSE Lookup(paddr)
    IN /\ cpu[v].pc = "guest"
       /\ hint' = [hint EXCEPT ![v] = IF r # None THEN r ELSE @]
       /\ readers' = readers \cup {v}
       /\ cpu' = [cpu EXCEPT ![v].pc = "found", ![v].entry = r]
       /\ UNCHANGED <<tree, ports, bar, cmd>>


\* The configuration window is never removed.
Immutable(r) == r.bar = Ecfg

Release(v) ==
  /\ cpu[v].pc = "found"
  /\ readers' = IF Immutable(cpu[v].entry) THEN readers \ {v} ELSE readers
  /\ Goto(v, IF cpu[v].entry.bar = Ecfg THEN "cfg" ELSE "handler")
  /\ UNCHANGED <<tree, hint, ports, bar, cmd>>

\* pci_emul_mem_handler ran; emulate_mem drops the lock.
HandlerDone(v) ==
  /\ cpu[v].pc = "handler"
  /\ readers' = readers \ {v}
  /\ cpu' = [cpu EXCEPT ![v].pc = "guest", ![v].entry = None]
  /\ UNCHANGED <<tree, hint, ports, bar, cmd>>

-----------------------------------------------------------------------------
\* Configuration writes, from the window or through ports 0xcf8 and 0xcfc.

CfgIdle == \A u \in MmioVcpus : cpu[u].todo = <<>> /\ cpu[u].pc # "wrlock"

CfgEnter(v) ==
  /\ cpu[v].pc = "guest"
  /\ Goto(v, "cfg")
  /\ UNCHANGED <<tree, hint, ports, readers, bar, cmd>>

\* The command register is written, then every BAR of a space whose decoding
\* changed is registered or unregistered.
pci_emul_cmdsts_write(v) ==
  \E new \in SUBSET {"MEMEN", "PORTEN"} :
    LET changed(b) == Decodes(b) # (IF b \in IoBars THEN "PORTEN" \in new ELSE "MEMEN" \in new)
        step(b)    == [op |-> IF Decodes(b) THEN "unregister" ELSE "register", bar |-> b, addr |-> bar[b]]
    IN /\ cpu[v].pc = "cfg" /\ CfgIdle /\ new # cmd
       /\ cmd' = new
       /\ cpu' = [cpu EXCEPT ![v].todo = SetToSeq({step(b) : b \in {c \in Bars : changed(c)}})]
       /\ UNCHANGED <<tree, hint, ports, readers, bar>>


\* Unregister, change the address, register again; without decoding only the
\* address changes.
update_bar_address(v, b, addr) ==
  /\ cpu' = [cpu EXCEPT ![v].todo =
               IF Decodes(b) THEN <<[op |-> "unregister", bar |-> b, addr |-> bar[b]],
                                    [op |-> "move", bar |-> b, addr |-> addr],
                                    [op |-> "register", bar |-> b, addr |-> addr]>>
               ELSE <<>>]
  /\ bar' = IF Decodes(b) THEN bar ELSE [bar EXCEPT ![b] = addr]
  /\ UNCHANGED <<tree, hint, ports, readers, cmd>>

pci_cfgrw_bar(v) ==
  \E b \in Bars, addr \in Addrs :
    /\ cpu[v].pc = "cfg" /\ CfgIdle
    /\ \A c \in Bars : bar[c] # addr
    /\ update_bar_address(v, b, addr)

CfgDone(v) ==
  /\ cpu[v].pc = "cfg" /\ cpu[v].todo = <<>>
  /\ cpu' = [cpu EXCEPT ![v].pc = "guest", ![v].entry = None]
  /\ readers' = readers \ {v}
  /\ UNCHANGED <<tree, hint, ports, bar, cmd>>

Popped(v) == cpu' = [cpu EXCEPT ![v].pc = "cfg", ![v].todo = Tail(@)]

Move(v) ==
  /\ cpu[v].pc = "cfg" /\ cpu[v].todo # <<>> /\ Head(cpu[v].todo).op = "move"
  /\ bar' = [bar EXCEPT ![Head(cpu[v].todo).bar] = Head(cpu[v].todo).addr]
  /\ Popped(v)
  /\ UNCHANGED <<tree, hint, ports, readers, cmd>>

\* An I/O BAR: a table without a lock.
modify_port_registration(v) ==
  /\ cpu[v].pc = "cfg" /\ cpu[v].todo # <<>>
  /\ LET t == Head(cpu[v].todo)
     IN /\ t.bar \in IoBars /\ t.op # "move"
        /\ ports' = [ports EXCEPT ![t.addr] = IF t.op = "register" THEN t.bar ELSE NoPort]
  /\ Popped(v)
  /\ UNCHANGED <<tree, hint, readers, bar, cmd>>

\* A memory BAR: wait for the write lock ...
WantWrite(v) ==
  /\ cpu[v].pc = "cfg" /\ cpu[v].todo # <<>>
  /\ Head(cpu[v].todo).bar \in MemBars /\ Head(cpu[v].todo).op # "move"
  /\ Goto(v, "wrlock")
  /\ UNCHANGED <<tree, hint, ports, readers, bar, cmd>>

Flushed_None(r) == hint   \* Faulty variant: the hints stay

Flushed(r) == [v \in MmioVcpus |-> IF hint[v] = r THEN None ELSE hint[v]]

\* ... and change the tree under it.
modify_mem_registration(v) ==
  LET t == Head(cpu[v].todo)
      r == [bar |-> t.bar, base |-> t.addr]
  IN /\ cpu[v].pc = "wrlock" /\ readers = {}
     /\ tree' = IF t.op = "register" THEN tree \cup {r} ELSE tree \ {r}
     /\ hint' = IF t.op = "register" THEN hint ELSE Flushed(r)
     /\ Popped(v)
     /\ UNCHANGED <<ports, readers, bar, cmd>>

MmioNext ==
  \E v \in MmioVcpus :
    \/ emulate_mem(v) \/ Release(v) \/ HandlerDone(v)
    \/ CfgEnter(v) \/ pci_emul_cmdsts_write(v) \/ pci_cfgrw_bar(v) \/ CfgDone(v)
    \/ Move(v) \/ modify_port_registration(v) \/ WantWrite(v) \/ modify_mem_registration(v)

-----------------------------------------------------------------------------
\* A handler runs with a range that is still registered, and for the address
\* its BAR has at that moment (the assertion of pci_emul_mem_handler); no hint
\* outlives its range; and nobody waits for mmio_rwlock while holding it: "by
\* registering the extended config space window as 'immutable' the deadlock
\* can be avoided".
RangesSafe ==
  \A v \in MmioVcpus :
    /\ cpu[v].pc = "handler" /\ cpu[v].entry # None =>
         cpu[v].entry \in tree /\ bar[cpu[v].entry.bar] = cpu[v].entry.base
    /\ hint[v] # None => hint[v] \in tree
    /\ cpu[v].pc = "wrlock" => v \notin readers

\* Between configuration writes exactly the BARs whose decoding is enabled are
\* decoded, each at the address its register holds.
DecodeExact ==
  CfgIdle =>
    /\ tree \ {[bar |-> Ecfg, base |-> 0]} = {[bar |-> b, base |-> bar[b]] : b \in {c \in MemBars : Decodes(c)}}
    /\ \A a \in Addrs, b \in IoBars : ports[a] = b <=> (Decodes(b) /\ bar[b] = a)

\* Both: a moving BAR is never reached through a stale range, and none is
\* decoded that should not be or missed that should.
MmioSound == RangesSafe /\ DecodeExact
=============================================================================
