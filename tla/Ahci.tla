-------------------------------- MODULE Ahci --------------------------------
(***************************************************************************)
(* The AHCI controller of pci_ahci.c: one implemented port, a disk or an   *)
(* optical drive, on top of blockif.  A register access and a blockif      *)
(* callback each run under sc->mtx and are one step; the worker threads of *)
(* blockif take requests between them.  The driver follows the AHCI        *)
(* protocol: it restarts a port only once CR is clear and BSY is not set.  *)
(***************************************************************************)
EXTENDS Naturals, FiniteSets, Sequences, SequencesExt

CONSTANTS
  NSlots,       \* slots of the command list (32 in the code)
  IOV_MAX,      \* BLOCKIF_IOV_MAX
  Sect,         \* the sector size
  Menus,        \* [atapi, msien, cmds]: the drive, the kind of interrupt and
                \* the commands a driver uses together
  WildReset     \* the driver resets the controller with commands in flight

Slots == 0 .. NSlots - 1
Ix == {"DHR", "SDB", "TFE"}     \* PxIS
Good == {"READY"}
Bad == {"READY", "ERROR"}

ASSUME AhciConstants == NSlots \in 1 .. 32 /\ IOV_MAX \in Nat \ {0} /\ Sect \in Nat \ {0}

VARIABLES
  ahci,   \* the softc with its port, and the guest's command table
  drv     \* the driver: out, the slots it waits for; isr, its handler; cmds, its commands

ahciVars == <<ahci, drv>>

NoCmd == [op |-> "none", prdt |-> <<>>, len |-> 0, bad |-> FALSE]
Ncq(c) == c.op \in {"ncq", "ncqtrim"}
Dsm(c) == c.op \in {"trim", "ncqtrim"}
SumSeq(s) == FoldLeft(LAMBDA x, y : x + y, 0, s)

\* MSI: one message per call; pin: level.
ahci_generate_intr(a) ==
  LET his == a.his \/ a.is \cap a.ie # {}
      on  == his /\ a.ghcie
  IN [a EXCEPT !.his = his, !.msi = @ \/ (on /\ a.msien), !.lintr = on /\ (@ \/ ~ a.msien)]

\* A FIS for the guest: irq, the interrupt its I bit raises; err, its error bit.
ahci_write_fis(a, irq, err) ==
  IF ~ a.fre THEN a
  ELSE LET new == irq \cup (IF err THEN {"TFE"} ELSE {})
           b   == [a EXCEPT !.wfc = @ \/ err, !.is = @ \cup new]
       IN IF new = {} THEN b ELSE ahci_generate_intr(b)

ahci_write_fis_piosetup(a) == ahci_write_fis(a, {}, FALSE)

\* Set Device Bits leaves BSY (bit 7 of the task file) as it is.
ahci_write_fis_sdb(a, slot, tfd) ==
  ahci_write_fis([a EXCEPT !.sact = IF "ERROR" \in tfd THEN @ ELSE @ \ {slot},
                           !.tfd = (@ \cap {"BUSY"}) \cup tfd],
                 {"SDB"}, "ERROR" \in tfd)

ahci_write_fis_d2h(a, slot, tfd) ==
  ahci_write_fis([a EXCEPT !.ci = IF "ERROR" \in tfd THEN @ ELSE @ \ {slot}, !.tfd = tfd],
                 {"DHR"}, "ERROR" \in tfd)

\* The command was accepted: the device is ready for the next one.
ahci_write_fis_d2h_ncq(a, slot) ==
  ahci_write_fis([a EXCEPT !.ci = @ \ {slot}, !.tfd = Good], {}, FALSE)

ahci_write_reset_fis_d2h(a) == ahci_write_fis(a, {}, FALSE)

ahci_check_stopped(a) ==
  IF a.st \/ a.pending # {} THEN a
  ELSE [a EXCEPT !.ccs = 0, !.cr = FALSE, !.ci = {}, !.sact = {}, !.wfc = FALSE]

\* The end of a command with its last request.
Ended(a, slot, tfd, ncq) ==
  LET b == IF ncq THEN ahci_write_fis_sdb(a, slot, tfd)
           ELSE ahci_write_fis_d2h(a, slot, tfd)
  IN ahci_check_stopped([b EXCEPT !.pending = @ \ {slot}])

\* blockif_cancel fails for a request a worker has taken.  The flag ncq, once
\* set, stays set for the rest of the busy list.
ahci_port_stop(a) ==
  LET step(acc, r) ==
        LET ncq == acc.ncq \/ Ncq(acc.a.tab[r.slot])
        IN IF r.taken THEN [acc EXCEPT !.left = Append(@, r)]
           ELSE [acc EXCEPT
                   !.ncq = ncq,
                   !.a = [@ EXCEPT !.sact = IF ncq THEN @ \ {r.slot} ELSE @,
                                   !.ci = IF ncq THEN @ ELSE @ \ {r.slot},
                                   !.pending = @ \ {r.slot}]]
      end == FoldLeft(step, [a |-> a, ncq |-> FALSE, left |-> <<>>], a.iob)
  IN ahci_check_stopped([end.a EXCEPT !.iob = end.left])

ahci_port_reset(a) ==
  ahci_write_reset_fis_d2h([a EXCEPT !.sact = {}, !.tfd = IF a.atapi THEN {} ELSE Good])

\* Nothing is cancelled; CI, the in-flight mask and the error latch stay.
ahci_reset(a) ==
  ahci_port_reset([a EXCEPT !.ghcie = FALSE, !.his = FALSE, !.lintr = FALSE,
                            !.ie = {}, !.is = {}, !.st = FALSE, !.fre = FALSE, !.cr = FALSE])

\* The part of the PRDT between done and len that one blockif request takes.
ahci_build_iov(c, done) ==
  LET step(acc, dbcsz) ==
        IF Len(acc.iov) = IOV_MAX \/ acc.left = 0 THEN acc
        ELSE IF dbcsz <= acc.skip THEN [acc EXCEPT !.skip = @ - dbcsz, !.i = @ + 1]
        ELSE LET n == IF dbcsz - acc.skip > acc.left THEN acc.left ELSE dbcsz - acc.skip
             IN [iov |-> Append(acc.iov, n), skip |-> 0, left |-> acc.left - n, i |-> acc.i + 1]
      end   == FoldLeft(step, [iov |-> <<>>, skip |-> done, left |-> c.len - done, i |-> 0], c.prdt)
      full  == SumSeq(end.iov)
      todo  == IF Len(end.iov) = IOV_MAX THEN full - (full % Sect) ELSE full
  IN [todo |-> todo, done |-> done + todo, more |-> done + todo < c.len /\ end.i < Len(c.prdt)]

\* Off the free list, onto the busy list, in flight, handed to blockif.
Submit(a, slot, v) ==
  [a EXCEPT !.pending = @ \cup {slot},
            !.iob = <<[slot |-> slot, todo |-> v.todo, done |-> v.done, more |-> v.more,
                       taken |-> FALSE]>> \o @]

\* The FIS that accepts a queued command goes out with its first request.
Accepted(a, slot, first) ==
  IF first /\ Ncq(a.tab[slot]) THEN ahci_write_fis_d2h_ncq(a, slot) ELSE a

ahci_handle_rw(a, slot, done) ==
  Accepted(Submit(a, slot, ahci_build_iov(a.tab[slot], done)), slot, done = 0)

ahci_handle_flush(a, slot) == Submit(a, slot, [todo |-> 0, done |-> 0, more |-> FALSE])

Ran(a, slot, n) == [a EXCEPT !.moved[slot] = @ + n]

\* How a command that needs no blockif request ends.
Abort == [end |-> "abort", asc |-> "none"]
Sense(asc) == [end |-> "abort", asc |-> asc]
Answer == [end |-> "good", asc |-> "none"]
PioAnswer == [end |-> "pio", asc |-> "none"]     \* behind a PIO Setup FIS
Checked(c, asc) == IF c.bad THEN Sense(asc) ELSE Answer

\* write_prdt, the sense data, then the D2H FIS.
Reply(a, slot, r) ==
  LET good == r.end # "abort"
      b    == [a EXCEPT !.sense = IF r.asc = "none" THEN @ ELSE r.asc]
      d    == IF r.end = "pio" THEN ahci_write_fis_piosetup(b) ELSE b
  IN ahci_write_fis_d2h(Ran(d, slot, IF good THEN a.tab[slot].len ELSE 0), slot,
                        IF good THEN Good ELSE Bad)

ahci_handle_read_log(a, c) == IF a.atapi \/ c.prdt = <<>> THEN Abort ELSE PioAnswer

handle_identify(a, c) == IF a.atapi \/ c.prdt = <<>> THEN Abort ELSE PioAnswer

handle_atapi_identify(a) == IF ~ a.atapi THEN Abort ELSE PioAnswer

\* The zero length case answers, and goes on to read nothing.
atapi_read(a, slot, done) ==
  LET c == a.tab[slot]
  IN Submit(IF c.len = 0 THEN Reply(a, slot, Answer) ELSE a, slot, ahci_build_iov(c, done))

\* An entry of length zero is skipped; one request per other entry.
RECURSIVE ahci_handle_dsm_trim(_, _, _, _)
ahci_handle_dsm_trim(a, slot, done, first) ==
  LET c    == a.tab[slot]
      elen == c.prdt[done + 1]
      last == done + 1 >= Len(c.prdt)
  IN IF elen # 0 THEN
       Accepted(Submit(a, slot, [todo |-> elen, done |-> done + 1, more |-> ~ last]), slot, first)
     ELSE IF last THEN Ended(Accepted(a, slot, first), slot, Good, Ncq(c))
     ELSE ahci_handle_dsm_trim(a, slot, done + 1, first)

atapi_inquiry(c) == Checked(c, "field")

atapi_read_capacity == Answer

atapi_read_toc(c) == Checked(c, "field")

atapi_report_luns == Answer

atapi_request_sense == Answer

atapi_start_stop_unit(c) == Checked(c, "eject")

atapi_mode_sense(c) == Checked(c, "field")

atapi_get_event_status_notification(c) == Checked(c, "field")

handle_packet_cmd(c) ==
  CASE c.op = "ready"     -> Answer
    [] c.op = "inquiry"   -> atapi_inquiry(c)
    [] c.op = "capacity"  -> atapi_read_capacity
    [] c.op = "toc"       -> atapi_read_toc(c)
    [] c.op = "luns"      -> atapi_report_luns
    [] c.op = "sense"     -> atapi_request_sense
    [] c.op = "startstop" -> atapi_start_stop_unit(c)
    [] c.op = "mode"      -> atapi_mode_sense(c)
    [] c.op = "event"     -> atapi_get_event_status_notification(c)
    [] OTHER              -> Sense("opcode")

PacketOps == {"ready", "inquiry", "capacity", "toc", "luns", "aread", "sense", "startstop",
              "mode", "event", "unknown"}

\* The commands that are answered at once.  "features" stands for SET FEATURES
\* and SET MULTIPLE, "power" for the power management commands, which do nothing.
AtOnce(a, c) ==
  CASE c.op = "identify"                -> handle_identify(a, c)
    [] c.op \in {"features", "power"}   -> IF c.bad THEN Abort ELSE Answer
    [] c.op = "log"                     -> ahci_handle_read_log(a, c)
    [] c.op = "aidentify"               -> handle_atapi_identify(a)
    [] c.op \in PacketOps /\ a.atapi    -> handle_packet_cmd(c)
    [] OTHER                            -> Abort

ahci_handle_cmd(p, slot) ==
  LET a == [p EXCEPT !.tfd = @ \cup {"BUSY"}]
      c == p.tab[slot]
  IN CASE c.op \in {"rw", "ncq"}          -> ahci_handle_rw(a, slot, 0)
       [] c.op = "flush"                  -> ahci_handle_flush(a, slot)
       [] Dsm(c) /\ ~ c.bad               -> ahci_handle_dsm_trim(a, slot, 0, TRUE)
       [] c.op = "aread" /\ a.atapi       -> atapi_read(a, slot, 0)
       [] OTHER                           -> Reply(a, slot, AtOnce(a, c))

\* Without the C bit the FIS is a device control one: SRST set, then clear.
ahci_handle_slot(a, slot) ==
  CASE a.tab[slot].op = "srst"    -> [a EXCEPT !.reset = TRUE, !.ci = @ \ {slot}]
    [] a.tab[slot].op = "srstoff" ->
         LET b == IF a.reset THEN ahci_port_reset([a EXCEPT !.reset = FALSE]) ELSE a
         IN [b EXCEPT !.ci = @ \ {slot}]
    [] OTHER                      -> ahci_handle_cmd(a, slot)

RECURSIVE Issue(_)
Issue(a) ==
  IF a.ci \ a.pending = {} \/ "BUSY" \in a.tfd \/ a.wfc THEN a
  ELSE IF a.ccs \notin a.ci \ a.pending THEN Issue([a EXCEPT !.ccs = (@ + 1) % NSlots])
  ELSE Issue([ahci_handle_slot(a, a.ccs) EXCEPT !.ccs = (@ + 1) % NSlots])

ahci_handle_port(a) == IF ~ a.st THEN a ELSE Issue(a)

Without(s, i) == [j \in 1 .. Len(s) - 1 |-> IF j < i THEN s[j] ELSE s[j + 1]]

\* Unless the command has another request in flight.
GoOn(a, slot) == IF slot \in a.pending THEN a ELSE ahci_handle_port(a)

ata_ioreq_cb_NoPort(a, i, err) ==   \* Faulty variant: the command list is not looked at again
  LET r == a.iob[i]
      c == a.tab[r.slot]
      f == [a EXCEPT !.iob = Without(@, i)]
      b == IF err THEN f ELSE Ran(f, r.slot, IF c.op = "flush" THEN c.len ELSE r.todo)
  IN IF ~ err /\ r.more
       THEN IF Dsm(c) THEN ahci_handle_dsm_trim(b, r.slot, r.done, FALSE)
            ELSE ahci_handle_rw(b, r.slot, r.done)
     ELSE Ended(b, r.slot, IF err THEN Bad ELSE Good, Ncq(c))

\* A command that goes on with another request does not look for the next one;
\* a trim that ends here does.
ata_ioreq_cb(a, i, err) ==
  LET r == a.iob[i]
      c == a.tab[r.slot]
      f == [a EXCEPT !.iob = Without(@, i)]
      b == IF err THEN f ELSE Ran(f, r.slot, IF c.op = "flush" THEN c.len ELSE r.todo)
      t == IF err \/ ~ r.more THEN Ended(b, r.slot, IF err THEN Bad ELSE Good, Ncq(c))
           ELSE IF Dsm(c) THEN ahci_handle_dsm_trim(b, r.slot, r.done, FALSE)
           ELSE ahci_handle_rw(b, r.slot, r.done)
  IN GoOn(t, r.slot)

atapi_ioreq_cb(a, i, err) ==
  LET r == a.iob[i]
      f == [a EXCEPT !.iob = Without(@, i), !.sense = IF err THEN "lba" ELSE @]
      b == IF err THEN f ELSE Ran(f, r.slot, r.todo)
  IN GoOn(IF err \/ ~ r.more THEN Ended(b, r.slot, IF err THEN Bad ELSE Good, FALSE)
          ELSE atapi_read(b, r.slot, r.done), r.slot)

-----------------------------------------------------------------------------
\* pci_ahci_port_write and pci_ahci_host_write, a register at a time.

WriteIS(a, value) == [a EXCEPT !.is = @ \ value]

WriteIE(a, value) == ahci_generate_intr([a EXCEPT !.ie = value])

\* CR follows ST here, and ahci_check_stopped clears it.
WriteCMD(a, st, fre, clo) ==
  LET b == [a EXCEPT !.st = st, !.fre = fre]
      d == IF st THEN [b EXCEPT !.cr = TRUE] ELSE ahci_port_stop(b)
  IN ahci_handle_port(IF clo THEN [d EXCEPT !.tfd = @ \ {"BUSY"}] ELSE d)

WriteSCTL(a) == IF a.st THEN a ELSE ahci_port_reset(a)

WriteSACT(a, value) == [a EXCEPT !.sact = @ \cup value]

WriteCI(a, value) == ahci_handle_port([a EXCEPT !.ci = @ \cup value])

WriteGHC(a, hr) == IF hr THEN ahci_reset(a) ELSE ahci_generate_intr([a EXCEPT !.ghcie = TRUE])

HostIS(a) == ahci_generate_intr([a EXCEPT !.his = FALSE])

pci_ahci_init(atapi, msien) ==
  [atapi |-> atapi, msien |-> msien, ie |-> {}, is |-> {}, st |-> FALSE, fre |-> FALSE, cr |-> FALSE, ccs |-> 0,
   tfd |-> IF atapi THEN {} ELSE Good, reset |-> FALSE, wfc |-> FALSE, sense |-> "none",
   ci |-> {}, sact |-> {}, pending |-> {}, iob |-> <<>>, ghcie |-> FALSE, his |-> FALSE,
   lintr |-> FALSE, msi |-> FALSE,
   tab |-> [s \in Slots |-> NoCmd], moved |-> [s \in Slots |-> 0]]

-----------------------------------------------------------------------------
\* The driver and the worker threads of blockif.

AhciInit ==
  \E m \in Menus : /\ ahci = pci_ahci_init(m.atapi, m.msien)
                   /\ drv = [out |-> {}, isr |-> "idle", cmds |-> m.cmds]

\* The table entry of a slot nobody uses any more.
Retired(a, out) ==
  LET idle == Slots \ (out \cup a.pending \cup a.ci)
  IN [a EXCEPT !.tab = [s \in Slots |-> IF s \in idle THEN NoCmd ELSE @[s]],
               !.moved = [s \in Slots |-> IF s \in idle THEN 0 ELSE @[s]]]

DrvEnable == ~ ahci.ghcie /\ ahci' = WriteGHC(ahci, FALSE) /\ UNCHANGED drv

DrvMask ==
  \E value \in {{}, Ix} : value # ahci.ie /\ ahci' = WriteIE(ahci, value) /\ UNCHANGED drv

DrvStop == ahci.st /\ ahci' = WriteCMD(ahci, FALSE, TRUE, FALSE) /\ UNCHANGED drv

\* The port is stopped: its commands are void.
DrvForget ==
  /\ ~ ahci.st /\ ~ ahci.cr /\ drv.out # {}
  /\ drv' = [drv EXCEPT !.out = {}] /\ ahci' = Retired(ahci, {})

DrvPrepare ==
  /\ ~ ahci.st /\ (~ ahci.fre \/ "BUSY" \in ahci.tfd)
  /\ ahci' = WriteCMD(ahci, FALSE, TRUE, "BUSY" \in ahci.tfd) /\ UNCHANGED drv

DrvStart ==
  /\ ~ ahci.st /\ ~ ahci.cr /\ ahci.fre /\ "BUSY" \notin ahci.tfd /\ drv.out = {}
  /\ ahci' = WriteCMD(ahci, TRUE, TRUE, FALSE) /\ UNCHANGED drv

DrvComReset == ~ ahci.st /\ ahci.sact # {} /\ ahci' = WriteSCTL(ahci) /\ UNCHANGED drv

DrvHbaReset ==
  /\ WildReset \/ ahci.iob = <<>>
  /\ ahci' = Retired(WriteGHC(ahci, TRUE), {}) /\ drv' = [drv EXCEPT !.out = {}]

\* Queued and other commands are not mixed; PxSACT is written before PxCI.
DrvIssue ==
  \E s \in Slots, c \in drv.cmds :
    LET t == [ahci EXCEPT !.tab[s] = c, !.moved[s] = 0]
        reset == c.op \in {"srst", "srstoff"}
    IN /\ ahci.st /\ s \notin drv.out \cup ahci.ci \cup ahci.sact
       /\ \A u \in drv.out : ~ reset /\ Ncq(ahci.tab[u]) = Ncq(c)
       /\ reset => ahci.ci \cup ahci.sact \cup ahci.pending = {}
       /\ drv' = [drv EXCEPT !.out = IF reset THEN @ ELSE @ \cup {s}]
       /\ ahci' = Retired(WriteCI(IF Ncq(c) THEN WriteSACT(t, {s}) ELSE t, {s}), drv'.out)

IsrEnter ==
  /\ drv.isr = "idle" /\ (ahci.msi \/ ahci.lintr)
  /\ ahci' = [ahci EXCEPT !.msi = FALSE] /\ drv' = [drv EXCEPT !.isr = "port"]

\* Acknowledge the port, then take the slots that left CI and SACT.
IsrPort ==
  LET out == drv.out \cap (ahci.ci \cup ahci.sact)
  IN /\ drv.isr = "port"
     /\ ahci' = Retired(WriteIS(ahci, ahci.is), out)
     /\ drv' = [drv EXCEPT !.out = out, !.isr = "host"]

IsrHost ==
  /\ drv.isr = "host"
  /\ ahci' = HostIS(ahci) /\ drv' = [drv EXCEPT !.isr = "idle"]

BioTake ==
  \E i \in DOMAIN ahci.iob :
    /\ ~ ahci.iob[i].taken
    /\ ahci' = [ahci EXCEPT !.iob[i].taken = TRUE] /\ UNCHANGED drv

BioDone ==
  \E i \in DOMAIN ahci.iob, err \in BOOLEAN :
    /\ ahci.iob[i].taken
    /\ ahci' = Retired(IF ahci.atapi THEN atapi_ioreq_cb(ahci, i, err)
                       ELSE ata_ioreq_cb(ahci, i, err), drv.out)
    /\ UNCHANGED drv

AhciNext ==
  \/ DrvEnable \/ DrvMask \/ DrvStop \/ DrvForget \/ DrvPrepare \/ DrvStart
  \/ DrvComReset \/ DrvHbaReset \/ DrvIssue \/ IsrEnter \/ IsrPort \/ IsrHost
  \/ BioTake \/ BioDone

-----------------------------------------------------------------------------
Need(c) == IF Dsm(c) THEN SumSeq(c.prdt) ELSE c.len

\* While the port runs, a slot leaves CI and SACT without an error only when
\* everything its command asked for was done, however many blockif requests
\* ahci_build_iov and ahci_handle_dsm_trim cut it into.
CompletionHonest ==
  \A s \in drv.out :
    ahci.st /\ s \notin ahci.ci \cup ahci.sact => ahci.moved[s] = Need(ahci.tab[s])

\* The in-flight mask names the slots of the busy list, each once, and "if we
\* are no longer processing the command list and nothing is in-flight, clear
\* the running bit": a port whose CR is clear has no request with blockif.
RunningBitTruthful ==
  /\ ahci.pending = {ahci.iob[i].slot : i \in DOMAIN ahci.iob}
  /\ Len(ahci.iob) = Cardinality(ahci.pending)
  /\ ~ ahci.cr => ahci.iob = <<>>

\* A running port with a command to issue is either halted by an error or has
\* a request in flight whose callback will look at the command list again.
PortNotStalled ==
  ahci.st /\ ahci.ci # {} => ahci.wfc \/ ahci.pending # {}

\* With interrupts enabled, a completed command the driver has not seen is
\* announced: a message or the pin is on its way to the handler, or the
\* handler is about to look.  The pin is asserted exactly while the HBA bit is.
CompletionAnnounced ==
  /\ (/\ ahci.st /\ ahci.ghcie /\ ahci.ie = Ix
      /\ \E s \in drv.out : s \notin ahci.ci \cup ahci.sact)
     => ahci.msi \/ ahci.lintr \/ drv.isr = "port"
  /\ ahci.lintr <=> (ahci.his /\ ahci.ghcie /\ ~ ahci.msien)

\* What the driver of the guest relies on.
AhciSound ==
  CompletionHonest /\ RunningBitTruthful /\ PortNotStalled /\ CompletionAnnounced
=============================================================================
