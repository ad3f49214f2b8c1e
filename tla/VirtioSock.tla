----------------------------- MODULE VirtioSock -----------------------------
(***************************************************************************)
(* The virtio socket device of src/lib/pci_virtio_sock.c.  A sock joins a  *)
(* connection of the guest to a Unix socket of the host.  The tx thread    *)
(* handles the guest's packets and writes to the Unix sockets, the rx      *)
(* thread sends the guest replies and what it reads from them.             *)
(*                                                                         *)
(* Both threads traverse the socks under list_rwlock (`todo`: the socks    *)
(* they have yet to see) and take one sock's mutex at a time; a critical   *)
(* section of a sock is one step.  Only the tx thread keeps a mutex longer *)
(* (`held`), when it allocated a sock and has to free it again.  Which     *)
(* free sock is taken is left open.  Bytes are counted, modulo CntMod as   *)
(* the uint32_t do.  The queues deliver in order, which Virtqueue shows.   *)
(*                                                                         *)
(* External: the guest's driver, which keeps to the credit it was given,   *)
(* sends well-formed headers, answers what it does not expect with a RST   *)
(* and posts receive buffers; the other ends of the Unix sockets; time.    *)
(***************************************************************************)
EXTENDS Integers, Sequences, FiniteSets

CONSTANTS Socks,      \* numbers of the socks, VTSOCK_MAXSOCKS of them
          GuestPorts, \* connections the guest may ask for
          BufLen,     \* WRITE_BUF_LENGTH
          PeerBuf,    \* the guest's buffer
          CntMod,     \* 2^32 in the code
          GenMod,     \* 2^16 in the code
          TxRing, RxRing, ReplyRing, \* slots of the queues; VTSOCK_REPLYRINGSZ
          MaxSends    \* bound: packets of the guest and connections of the host

ASSUME VirtioSockAssumption ==
  /\ BufLen \in Nat \ {0} /\ PeerBuf \in Nat \ {0}
  /\ CntMod > BufLen /\ CntMod > PeerBuf /\ GenMod \in Nat \ {0}

VARIABLES sock,     \* pci_vtsock_sock
          tx, rx,   \* the threads: place and local variables
          txpipe, rxpipe,  \* a byte is in the pipe that wakes the thread
          kick_pending,    \* rx_kick_pending
          replies,  \* the reply ring
          txq,      \* packets the guest has posted
          descs,    \* receive buffers it has posted
          host,     \* the other end of the sock's Unix socket
          backlog,  \* a connection waits to be accepted
          guest,    \* the guest's side of each connection
          sent,     \* packets and connections so far
          aborted   \* an assert failed

sockVars == <<sock, tx, rx, txpipe, rxpipe, kick_pending, replies, txq, descs,
          host, backlog, guest, sent, aborted>>

NoSock == 0
ALL == {"RX", "TX"}
Conns == ({"g"} \X GuestPorts) \cup ({"h"} \X Socks \X (0 .. GenMod - 1))
NoAddr == <<>>

\* A free sock: alloc_sock clears it, except for what may be left from before.
FreeSock(deadline, gen) ==
  [state |-> "FREE", fd |-> FALSE, addr |-> NoAddr, local |-> {}, peer |-> {},
   deadline |-> deadline, gen |-> gen, fwd_cnt |-> 0, credit |-> FALSE,
   rx_cnt |-> 0, peer_alloc |-> 0, peer_fwd |-> 0, head |-> 0, tail |-> 0]

TxIdle == [pc |-> "loop", todo |-> {}, queue |-> {}, timeout |-> FALSE, held |-> NoSock]
RxIdle(poll) == [pc |-> "loop", todo |-> {}, queue |-> {}, rfd |-> {}, closing |-> {},
                 poll |-> poll, credits |-> FALSE, work |-> FALSE, visit |-> {}]
GuestIdle == [st |-> "closed", tx |-> 0, fwd_seen |-> 0, alloc |-> 0, got |-> 0,
              fwd |-> 0, shut |-> {}]

SockInit ==
  /\ sock = [s \in Socks |-> FreeSock("passed", 0)]
  /\ tx = TxIdle /\ rx = RxIdle(TRUE)
  /\ txpipe = FALSE /\ rxpipe = FALSE /\ kick_pending = FALSE
  /\ replies = <<>> /\ txq = <<>> /\ descs = 0
  /\ host = [s \in Socks |-> "open"] /\ backlog = FALSE
  /\ guest = [a \in Conns |-> GuestIdle]
  /\ sent = 0 /\ aborted = FALSE

InUse == {s \in Socks : sock[s].state # "FREE"}
Live(s) == sock[s].state \in {"CONNECTED", "CONNECTING"}
lookup_sock(a) ==
  IF \E s \in Socks : Live(s) /\ sock[s].addr = a
  THEN CHOOSE s \in Socks : Live(s) /\ sock[s].addr = a ELSE NoSock

Packet(op, r, flags, len) ==
  [op |-> op, addr |-> r.addr, flags |-> flags, len |-> len,
   alloc |-> BufLen, fwd |-> r.fwd_cnt]

sock_is_buffering(r) == r.tail > 0
PeerFree(r) == (r.peer_alloc - (r.rx_cnt - r.peer_fwd)) % CntMod

-----------------------------------------------------------------------------
(* Shutting down and closing a sock.                                       *)

\* SHUT_WR waits until the buffered bytes are written.
shutdown_peer_local_fd_Now(r, mode) ==
  [r EXCEPT !.peer = @ \cup mode,
            !.local = @ \cup (IF "RX" \in mode \ r.peer THEN {"TX"} ELSE {})
                        \cup (IF "TX" \in mode \ r.peer THEN {"RX"} ELSE {})]
shutdown_peer_local_fd(r, mode) ==
  [r EXCEPT !.peer = @ \cup mode,
            !.local = @ \cup (IF "RX" \in mode \ r.peer THEN {"TX"} ELSE {})
                        \cup (IF "TX" \in mode \ r.peer /\ ~sock_is_buffering(r)
                              THEN {"RX"} ELSE {})]

\* The tx thread is kicked too.
close_sock_Straight(r) == [shutdown_peer_local_fd(r, ALL) EXCEPT !.state = "CLOSING_RX"]
close_sock(r) == [shutdown_peer_local_fd(r, ALL) EXCEPT !.state = "CLOSING_TX"]

\* The assert of shutdown_local_sock; the tx thread, which alone sets RX, cannot fail it.
MayShutdown(r) == r.state = "CONNECTED" => r.local # ALL

shutdown_local_sock(r, mode) ==
  IF r.state # "CONNECTED" THEN r
  ELSE LET local == r.local \cup mode
           gone  == "RX" \in local
       IN [r EXCEPT !.local = local,
                    !.head = IF gone THEN 0 ELSE @, !.tail = IF gone THEN 0 ELSE @,
                    !.deadline = IF local = ALL THEN "pending" ELSE @]

\* send_response_common, under reply_mtx: a ring that looks empty has overflowed.
Reply(m) ==
  /\ replies' = Append(replies, m)
  /\ aborted' = (Len(replies) + 1 = ReplyRing)
  /\ kick_pending' = TRUE

NoReply == UNCHANGED <<replies, aborted, kick_pending>>

RST(a) == [op |-> "RST", addr |-> a, flags |-> {}, len |-> 0, alloc |-> 0, fwd |-> 0]

-----------------------------------------------------------------------------
(* The tx thread: pci_vtsock_tx_thread.                                    *)

Tx(place) == ~aborted /\ tx.pc = place
RxUntouched == UNCHANGED <<rx, descs, guest, host>>

\* The start of the loop.
TxLoop == [TxIdle EXCEPT !.todo = InUse]

Scanned(s) == [tx EXCEPT !.todo = @ \ {s}]

kick_rx == rxpipe' = TRUE /\ kick_pending' = FALSE

\* Nothing is left to write: the fd is in no select of this thread any more.
Closable(s) == sock[s].state = "CLOSING_TX" /\ ~sock_is_buffering(sock[s])

Expired(s) == /\ sock[s].state \in {"CONNECTED", "CLOSING_TX"}
              /\ sock[s].local = ALL /\ sock[s].deadline = "passed"

\* The kick follows when the traversal is over; the rx thread cannot tell.
TxScanClosing(s) ==
  /\ Closable(s)
  /\ sock' = [sock EXCEPT ![s].state = "CLOSING_RX"]
  /\ tx' = Scanned(s) /\ kick_rx
  /\ UNCHANGED <<txpipe, replies, aborted>>

\* The peer had its time to answer the shutdown of both halves with a RST.
ExpiryReply(s) == Reply(RST(sock[s].addr))
TxScanExpired(s) ==
  /\ ~Closable(s) /\ Expired(s)
  /\ ExpiryReply(s)
  /\ sock' = [sock EXCEPT ![s] = close_sock(@)] /\ txpipe' = TRUE
  /\ tx' = Scanned(s) /\ UNCHANGED rxpipe

TxScanOther(s) ==
  /\ ~Closable(s) /\ ~Expired(s)
  /\ tx' = IF sock[s].state \notin {"CONNECTED", "CLOSING_TX"} THEN Scanned(s)
           ELSE [Scanned(s) EXCEPT
                   !.timeout = @ \/ sock[s].local = ALL,
                   !.queue = IF sock_is_buffering(sock[s]) /\ "RX" \notin sock[s].local
                             THEN @ \cup {s} ELSE @]
  /\ NoReply /\ UNCHANGED <<sock, txpipe, rxpipe>>

TxScan(s) ==
  /\ Tx("loop") /\ s \in tx.todo
  /\ TxScanClosing(s) \/ TxScanExpired(s) \/ TxScanOther(s)
  /\ RxUntouched /\ UNCHANGED <<txq, backlog>>

\* W: the Unix sockets that can be written.
TxSelect(W) ==
  /\ Tx("loop") /\ tx.todo = {} /\ W \subseteq tx.queue
  /\ txpipe \/ backlog \/ W # {} \/ tx.timeout
  /\ tx' = [TxIdle EXCEPT !.pc = IF backlog THEN "accept" ELSE "work", !.queue = W]
  /\ txpipe' = FALSE
  /\ NoReply /\ RxUntouched /\ UNCHANGED <<sock, rxpipe, txq, backlog>>

\* The locks: list_rwlock for writing, while the rx thread is not traversing the list.
WriteLock == rx.todo = {}

Allocated(s, addr, state, gen) ==
  [FreeSock(sock[s].deadline, gen) EXCEPT !.state = state, !.fd = TRUE, !.addr = addr]

NextGen(s) == (sock[s].gen + 1) % GenMod
HostAddr(s) == <<"h", s, NextGen(s)>>

\* handle_connect_fd: the greeting is bad, or there is no free sock.
TxAcceptRefused ==
  /\ Tx("accept") /\ backlog' = FALSE
  /\ tx' = [tx EXCEPT !.pc = "work"]
  /\ NoReply /\ RxUntouched /\ UNCHANGED <<sock, txpipe, rxpipe, txq>>

\* A sock is allocated and the guest asked to connect.
TxAccept(s) ==
  /\ Tx("accept") /\ sock[s].state = "FREE" /\ WriteLock
  /\ sock' = [sock EXCEPT ![s] = Allocated(s, HostAddr(s), "CONNECTING", NextGen(s))]
  /\ Reply(Packet("REQUEST", sock'[s], {}, 0))
  /\ backlog' = FALSE /\ tx' = [tx EXCEPT !.pc = "work"]
  /\ host' = [host EXCEPT ![s] = "open"]
  /\ UNCHANGED <<rx, descs, guest, txpipe, rxpipe, txq>>

\* set_socket_options fails: the sock stays locked while list_rwlock is taken.
TxAcceptFails(s) ==
  /\ Tx("accept") /\ sock[s].state = "FREE" /\ WriteLock
  /\ sock' = [sock EXCEPT ![s] = Allocated(s, HostAddr(s), "CONNECTING", NextGen(s))]
  /\ backlog' = FALSE /\ tx' = [tx EXCEPT !.pc = "accept_err", !.held = s]
  /\ NoReply /\ RxUntouched /\ UNCHANGED <<txpipe, rxpipe, txq>>

Freed(s) == FreeSock(sock[s].deadline, sock[s].gen)

TxAcceptErr ==
  /\ Tx("accept_err") /\ WriteLock
  /\ sock' = [sock EXCEPT ![tx.held] = Freed(tx.held)]
  /\ tx' = [tx EXCEPT !.pc = "work", !.held = NoSock]
  /\ NoReply /\ RxUntouched /\ UNCHANGED <<txpipe, rxpipe, txq, backlog>>

-----------------------------------------------------------------------------
(* Writing to the Unix socket.                                             *)

Credited(r) == [r EXCEPT !.credit = TRUE]

\* n bytes of the buffer are written; fwd_cnt only moves when it is empty.
Emptied_AsWeGo(r, n) ==
  IF r.head + n < r.tail
  THEN [r EXCEPT !.head = @ + n, !.fwd_cnt = (@ + n) % CntMod]
  ELSE Credited([r EXCEPT !.fwd_cnt = (@ + n) % CntMod, !.head = 0, !.tail = 0,
                  !.local = IF "TX" \in r.peer THEN @ \cup {"RX"} ELSE @])
Emptied(r, n) ==
  IF r.head + n < r.tail THEN [r EXCEPT !.head = @ + n]
  ELSE Credited([r EXCEPT !.fwd_cnt = (@ + r.tail) % CntMod, !.head = 0, !.tail = 0,
                  !.local = IF "TX" \in r.peer THEN @ \cup {"RX"} ELSE @])

\* EPIPE: the guest is told that nothing more will be received.
Broken(s, r) ==
  /\ host[s] = "closed"
  /\ sock' = [sock EXCEPT ![s] = shutdown_local_sock(r, {"RX"})]
  /\ Reply(Packet("SHUTDOWN", sock'[s], sock'[s].local, 0))
  /\ UNCHANGED txpipe

\* Another error.
Failed(s, r) ==
  /\ host[s] = "closed"
  /\ sock' = [sock EXCEPT ![s] = close_sock(r)] /\ txpipe' = TRUE
  /\ Reply(RST(sock[s].addr))

buffer_drain(s, n) ==
  /\ host[s] # "closed" /\ n <= sock[s].tail - sock[s].head
  /\ sock' = [sock EXCEPT ![s] = Emptied(@, n)]
  /\ kick_pending' = (kick_pending \/ (sock'[s].credit /\ ~sock[s].credit))
  /\ UNCHANGED <<replies, aborted, txpipe>>

Drains(s) ==
  /\ Tx("work") /\ s \in tx.queue
  /\ tx' = [tx EXCEPT !.queue = @ \ {s}]
  /\ RxUntouched /\ UNCHANGED <<rxpipe, txq, backlog>>

TxDrain(s, n) ==
  /\ Drains(s) /\ sock[s].state \in {"CONNECTED", "CLOSING_TX"} /\ buffer_drain(s, n)

TxDrainBroken(s) ==
  /\ Drains(s) /\ sock[s].state \in {"CONNECTED", "CLOSING_TX"}
  /\ Broken(s, sock[s]) \/ Failed(s, sock[s])

-----------------------------------------------------------------------------
(* pci_vtsock_proc_tx: one packet m of the guest, for sock s or for none.  *)

Proc(m, s) ==
  /\ Tx("work") /\ tx.queue = {} /\ txq # <<>> /\ m = Head(txq) /\ s = lookup_sock(m.addr)
  /\ UNCHANGED <<rx, descs, guest, backlog>>

\* The packet carries the peer's credit.
Heard(m, s) == [sock[s] EXCEPT !.peer_alloc = m.alloc, !.peer_fwd = m.fwd]

NotConnected(s) == s = NoSock \/ (s # NoSock /\ sock[s].state # "CONNECTED")

Refused(m, s) ==
  \/ m.op = "REQUEST" /\ s # NoSock
  \/ m.op = "RESPONSE" /\ (s = NoSock \/ (s # NoSock /\ sock[s].state # "CONNECTING"))
  \/ m.op \in {"SHUTDOWN", "RW", "CREDIT_UPDATE", "CREDIT_REQUEST"} /\ NotConnected(s)
  \/ m.op = "RW" /\ ~NotConnected(s) /\ ("TX" \in sock[s].peer \/ "RX" \in sock[s].local)

Consumed == txq' = Tail(txq) /\ UNCHANGED tx

do_rst(m, s, r) ==
  /\ Reply(RST(m.addr)) /\ Consumed
  /\ IF s = NoSock THEN UNCHANGED <<sock, txpipe>>
     ELSE sock' = [sock EXCEPT ![s] = close_sock(r)] /\ txpipe' = TRUE
  /\ UNCHANGED <<rxpipe, host>>

ProcRefused(m, s) ==
  Proc(m, s) /\ Refused(m, s) /\ do_rst(m, s, IF s = NoSock THEN NoSock ELSE Heard(m, s))

\* connect_sock succeeds with free sock f ...
ProcRequest(m, f) ==
  /\ Proc(m, NoSock) /\ m.op = "REQUEST" /\ sock[f].state = "FREE" /\ WriteLock
  /\ sock' = [sock EXCEPT ![f] = [Allocated(f, m.addr, "CONNECTED", sock[f].gen) EXCEPT
                                    !.peer_alloc = m.alloc, !.peer_fwd = m.fwd]]
  /\ Reply(Packet("RESPONSE", sock'[f], {}, 0)) /\ Consumed
  /\ host' = [host EXCEPT ![f] = "open"]
  /\ UNCHANGED <<txpipe, rxpipe>>

\* ... or there is no sock ...
ProcRequestNoSock(m) ==
  /\ Proc(m, NoSock) /\ m.op = "REQUEST" /\ InUse = Socks
  /\ do_rst(m, NoSock, NoSock)

\* ... or the host refuses: the sock, still locked, has to be freed.
ProcRequestFails(m, f) ==
  /\ Proc(m, NoSock) /\ m.op = "REQUEST" /\ sock[f].state = "FREE" /\ WriteLock
  /\ sock' = [sock EXCEPT ![f].state = "CONNECTING"]
  /\ tx' = [tx EXCEPT !.pc = "connect_err", !.held = f]
  /\ NoReply /\ UNCHANGED <<txpipe, rxpipe, txq, host>>

ProcConnectErr ==
  /\ Tx("connect_err") /\ WriteLock
  /\ sock' = [sock EXCEPT ![tx.held] = Freed(tx.held)]
  /\ tx' = [tx EXCEPT !.pc = "work", !.held = NoSock]
  /\ Reply(RST(Head(txq).addr)) /\ txq' = Tail(txq)
  /\ RxUntouched /\ UNCHANGED <<txpipe, rxpipe, backlog>>

ProcResponse(m, s) ==
  /\ Proc(m, s) /\ m.op = "RESPONSE" /\ ~Refused(m, s)
  /\ sock' = [sock EXCEPT ![s] = [Heard(m, s) EXCEPT !.state = "CONNECTED"]]
  /\ kick_rx /\ Consumed
  /\ UNCHANGED <<txpipe, replies, aborted, host>>

ProcRst(m, s) ==
  /\ Proc(m, s) /\ m.op = "RST"
  /\ IF s = NoSock THEN UNCHANGED <<sock, txpipe>>
     ELSE sock' = [sock EXCEPT ![s] = close_sock(Heard(m, s))] /\ txpipe' = TRUE
  /\ Consumed /\ NoReply /\ UNCHANGED <<rxpipe, host>>

\* When both halves are shut down a RST finishes the connection.
ProcShutdown(m, s) ==
  /\ Proc(m, s) /\ m.op = "SHUTDOWN" /\ ~Refused(m, s)
  /\ LET r == shutdown_peer_local_fd(Heard(m, s), m.flags) IN
     IF r.peer = ALL THEN do_rst(m, s, r)
     ELSE /\ sock' = [sock EXCEPT ![s] = r] /\ Consumed
          /\ NoReply /\ UNCHANGED <<txpipe, rxpipe, host>>

\* set_credit_update_required: the rx thread is kicked once.
RequireCredit(s, r) ==
  /\ sock' = [sock EXCEPT ![s] = Credited(r)]
  /\ kick_pending' = (kick_pending \/ ~r.credit)
  /\ UNCHANGED <<replies, aborted>>

\* handle_write: n bytes are written at once, the others are buffered, behind
\* those that are there.
Fits(r, len) == len <= BufLen - r.tail
ProcRW(m, s, n) ==
  /\ Proc(m, s) /\ m.op = "RW" /\ ~Refused(m, s)
  /\ host[s] # "closed" \/ sock_is_buffering(sock[s])
  /\ n \in 0 .. m.len /\ (sock_is_buffering(sock[s]) => n = 0)
  /\ LET r == [Heard(m, s) EXCEPT !.fwd_cnt = (@ + n) % CntMod] IN
     IF n = m.len THEN RequireCredit(s, r) /\ Consumed /\ UNCHANGED <<txpipe, rxpipe, host>>
     ELSE IF Fits(r, m.len - n)
     THEN /\ sock' = [sock EXCEPT ![s] = [r EXCEPT !.tail = @ + m.len - n]] /\ Consumed
          /\ NoReply /\ UNCHANGED <<txpipe, rxpipe, host>>
     ELSE do_rst(m, s, r)

ProcRWBroken(m, s) ==
  /\ Proc(m, s) /\ m.op = "RW" /\ ~Refused(m, s) /\ ~sock_is_buffering(sock[s])
  /\ Broken(s, Heard(m, s)) \/ Failed(s, Heard(m, s))
  /\ Consumed /\ UNCHANGED <<rxpipe, host>>

\* The rx thread may be able to send more.
ProcCreditUpdate(m, s) ==
  /\ Proc(m, s) /\ m.op = "CREDIT_UPDATE" /\ ~Refused(m, s)
  /\ sock' = [sock EXCEPT ![s] = Heard(m, s)] /\ kick_pending' = TRUE
  /\ Consumed /\ UNCHANGED <<txpipe, rxpipe, replies, aborted, host>>

ProcCreditRequest(m, s) ==
  /\ Proc(m, s) /\ m.op = "CREDIT_REQUEST" /\ ~Refused(m, s)
  /\ RequireCredit(s, Heard(m, s)) /\ Consumed /\ UNCHANGED <<txpipe, rxpipe, host>>

\* The queue is empty.
TxEnd ==
  /\ Tx("work") /\ tx.queue = {} /\ txq = <<>>
  /\ IF kick_pending THEN kick_rx ELSE UNCHANGED <<rxpipe, kick_pending>>
  /\ tx' = TxLoop
  /\ RxUntouched /\ UNCHANGED <<sock, txpipe, replies, txq, backlog, aborted>>

ProcTx ==
  \E m \in {txq[i] : i \in DOMAIN txq} :
    \/ \E s \in Socks \cup {NoSock} : ProcRefused(m, s) \/ ProcRst(m, s)
    \/ ProcRequestNoSock(m)
    \/ \E s \in Socks :
         \/ ProcRequest(m, s) \/ ProcRequestFails(m, s) \/ ProcResponse(m, s)
         \/ ProcShutdown(m, s) \/ ProcRWBroken(m, s)
         \/ ProcCreditUpdate(m, s) \/ ProcCreditRequest(m, s)
         \/ \E n \in 0 .. BufLen : ProcRW(m, s, n)

TxSteps ==
  \/ (\E s \in Socks : TxScan(s))
  \/ (\E W \in SUBSET Socks : TxSelect(W))
  \/ TxAcceptRefused \/ TxAcceptErr
  \/ \E s \in Socks : TxAccept(s) \/ TxAcceptFails(s)
  \/ \E s \in Socks, n \in 0 .. BufLen : TxDrain(s, n)
  \/ (\E s \in Socks : TxDrainBroken(s))
  \/ ProcTx \/ ProcConnectErr \/ TxEnd
TxThread == TxSteps /\ UNCHANGED sent

-----------------------------------------------------------------------------
(* The rx thread: pci_vtsock_rx_thread.                                    *)

Rx(place) == ~aborted /\ rx.pc = place
TxUntouched == UNCHANGED <<tx, txq, host, backlog, kick_pending>>
RxLoop(poll) == [RxIdle(poll) EXCEPT !.todo = InUse]

\* The Unix socket is read when neither side has closed that direction and the
\* guest has room.
Polled(r) == "TX" \notin r.local /\ "RX" \notin r.peer /\ PeerFree(r) > 0

RxScan(s) ==
  /\ Rx("loop") /\ s \in rx.todo /\ tx.held # s
  /\ LET r == sock[s]
         n == [rx EXCEPT !.todo = @ \ {s}] IN
     IF r.state = "CLOSING_RX"
     THEN sock' = [sock EXCEPT ![s].fd = FALSE] /\ rx' = [n EXCEPT !.closing = @ \cup {s}]
     ELSE /\ rx' = IF r.state # "CONNECTED" \/ ~rx.poll THEN n
                   ELSE [n EXCEPT !.credits = @ \/ r.credit,
                           !.rfd = IF Polled(r) THEN @ \cup {s} ELSE @,
                           !.queue = IF Polled(r) \/ r.credit THEN @ \cup {s} ELSE @]
          /\ UNCHANGED sock
  /\ TxUntouched /\ UNCHANGED <<txpipe, rxpipe, replies, descs, guest, aborted>>

\* The closed socks are freed under list_rwlock, when the tx thread does not traverse.
RxFree ==
  /\ Rx("loop") /\ rx.todo = {} /\ rx.closing # {} /\ tx.todo = {}
  /\ sock' = [s \in Socks |-> IF s \in rx.closing THEN Freed(s) ELSE sock[s]]
  /\ host' = [s \in Socks |-> IF s \in rx.closing THEN "open" ELSE host[s]]
  /\ rx' = [rx EXCEPT !.closing = {}]
  /\ UNCHANGED <<tx, txq, backlog, kick_pending, txpipe, rxpipe, replies, descs, guest, aborted>>

\* Reading would find the end of the stream.
AtEof(s) == host[s] # "open" \/ "TX" \in sock[s].local

\* The guest's side of the connection takes packet m.
GuestGot(g, m) ==
  CASE m.op = "RST" -> GuestIdle
    [] g.st = "closed" /\ m.op = "REQUEST" ->
         [GuestIdle EXCEPT !.st = "asked", !.alloc = m.alloc, !.fwd_seen = m.fwd]
    [] g.st = "req" /\ m.op = "RESPONSE" ->
         [g EXCEPT !.st = "open", !.alloc = m.alloc, !.fwd_seen = m.fwd]
    [] g.st = "open" /\ m.op \in {"RW", "CREDIT_UPDATE", "SHUTDOWN"} ->
         [g EXCEPT !.alloc = m.alloc, !.fwd_seen = m.fwd, !.got = @ + m.len]
    [] OTHER -> [GuestIdle EXCEPT !.st = "must_rst"]

Deliver(m) ==
  /\ descs' = descs - 1
  /\ guest' = [guest EXCEPT ![m.addr] = GuestGot(@, m)]

Minimum(m, n) == IF m < n THEN m ELSE n
Nothing(r) == r.visit = {} /\ ~r.work
AndThen(r) == IF Nothing(r) THEN RxLoop(r.poll) ELSE r

\* The replies come first, as far as there are buffers (reply_mtx is held), then
\* the socks of the queue.  When the buffers are used up the socks are not polled
\* until a kick.
Serve(r) ==
  LET n == Minimum(descs, Len(replies))
      after[k \in 0 .. n] ==
        IF k = 0 THEN guest
        ELSE [after[k-1] EXCEPT ![replies[k].addr] = GuestGot(@, replies[k])]
  IN /\ replies' = SubSeq(replies, n + 1, Len(replies))
     /\ descs' = descs - n /\ guest' = after[n]
     /\ rx' = IF descs = 0 \/ n < Len(replies) THEN RxLoop(FALSE)
              ELSE AndThen([r EXCEPT !.pc = "socks", !.visit = r.queue, !.work = n > 1])

\* R: the Unix sockets that can be read.
RxSelect(R) ==
  /\ Rx("loop") /\ rx.todo = {} /\ rx.closing = {}
  /\ R \subseteq rx.rfd /\ {s \in rx.rfd : AtEof(s)} \subseteq R
  /\ rxpipe \/ R # {} \/ rx.credits
  /\ rxpipe' = FALSE
  /\ Serve([rx EXCEPT !.rfd = R, !.poll = @ \/ rxpipe, !.credits = FALSE])
  /\ TxUntouched /\ UNCHANGED <<sock, txpipe, aborted>>

\* One sock of the queue.
Visit(s) ==
  /\ Rx("socks") /\ s \in rx.visit
  /\ TxUntouched /\ UNCHANGED <<rxpipe, replies>>

Visited(s) == [rx EXCEPT !.visit = @ \ {s}]
Dropped(s) == [rx EXCEPT !.visit = @ \ {s}, !.queue = @ \ {s}, !.rfd = @ \ {s}]

Wanted(s) == sock[s].state = "CONNECTED" /\ (s \in rx.rfd \/ sock[s].credit)

RxGone(s) ==
  /\ Visit(s) /\ ~Wanted(s)
  /\ rx' = AndThen(Dropped(s))
  /\ UNCHANGED <<sock, txpipe, descs, guest, aborted>>

RxNoDescs(s) ==
  /\ Visit(s) /\ Wanted(s) /\ descs = 0
  /\ rx' = RxLoop(rx.poll)
  /\ UNCHANGED <<sock, txpipe, descs, guest, aborted>>

\* pci_vtsock_proc_rx: n bytes are read ...
Sent(r, n) == [r EXCEPT !.rx_cnt = (@ + n) % CntMod, !.credit = FALSE]

Readable(s) == Visit(s) /\ Wanted(s) /\ descs > 0 /\ s \in rx.rfd
RxRead(s, n) ==
  /\ Readable(s) /\ ~AtEof(s) /\ n <= PeerFree(sock[s])
  /\ Deliver(Packet("RW", sock[s], {}, n))
  /\ sock' = [sock EXCEPT ![s] = Sent(@, n)]
  /\ rx' = [Visited(s) EXCEPT !.work = TRUE]
  /\ UNCHANGED <<txpipe, aborted>>

\* ... or none: there is nothing to read, or the guest has no room for it ...
RxEmpty(s) ==
  /\ Readable(s) /\ (PeerFree(sock[s]) = 0 \/ ~AtEof(s))
  /\ IF sock[s].credit THEN Deliver(Packet("CREDIT_UPDATE", sock[s], {}, 0))
                       ELSE UNCHANGED <<descs, guest>>
  /\ sock' = [sock EXCEPT ![s].credit = FALSE]
  /\ rx' = AndThen(Dropped(s)) /\ UNCHANGED <<txpipe, aborted>>

\* ... or the stream has ended ...
RxEof(s) ==
  /\ Readable(s) /\ AtEof(s) /\ PeerFree(sock[s]) > 0
  /\ sock' = [sock EXCEPT ![s] = [shutdown_local_sock(@, {"TX"}) EXCEPT !.credit = FALSE]]
  /\ Deliver(Packet("SHUTDOWN", sock[s], sock'[s].local, 0))
  /\ aborted' = ~MayShutdown(sock[s])
  /\ rx' = AndThen(Dropped(s)) /\ UNCHANGED txpipe

\* ... or reading fails.
RxError(s) ==
  /\ Readable(s) /\ host[s] = "closed" /\ PeerFree(sock[s]) > 0
  /\ Deliver(RST(sock[s].addr))
  /\ sock' = [sock EXCEPT ![s] = [close_sock(@) EXCEPT !.credit = FALSE]] /\ txpipe' = TRUE
  /\ rx' = AndThen(Dropped(s)) /\ UNCHANGED aborted

send_credit_update(s) ==
  /\ Visit(s) /\ Wanted(s) /\ descs > 0 /\ s \notin rx.rfd
  /\ Deliver(Packet("CREDIT_UPDATE", sock[s], {}, 0))
  /\ sock' = [sock EXCEPT ![s].credit = FALSE]
  /\ rx' = AndThen(Visited(s)) /\ UNCHANGED <<txpipe, aborted>>

\* Another pass, when this one did some work.
RxPass ==
  /\ Rx("socks") /\ rx.visit = {}
  /\ Serve(rx)
  /\ TxUntouched /\ UNCHANGED <<sock, txpipe, rxpipe, aborted>>

RxSteps ==
  \/ RxFree \/ RxPass
  \/ \E R \in SUBSET Socks : RxSelect(R)
  \/ \E s \in Socks :
       \/ RxScan(s) \/ RxGone(s) \/ RxNoDescs(s) \/ RxEmpty(s) \/ RxEof(s) \/ RxError(s)
       \/ send_credit_update(s) \/ \E n \in 1 .. PeerBuf : RxRead(s, n)
RxThread == RxSteps /\ UNCHANGED sent

-----------------------------------------------------------------------------
(* The guest, the host's end of the Unix sockets, time: external.          *)

\* notify_tx kicks the tx thread.
GuestSend(a, op, flags, len, g) ==
  /\ ~aborted /\ Len(txq) < TxRing /\ sent < MaxSends /\ sent' = sent + 1
  /\ txq' = Append(txq, [op |-> op, addr |-> a, flags |-> flags, len |-> len,
                         alloc |-> PeerBuf, fwd |-> guest[a].fwd])
  /\ guest' = [guest EXCEPT ![a] = g] /\ txpipe' = TRUE
  /\ UNCHANGED <<sock, tx, rx, rxpipe, kick_pending, replies, descs, host, backlog, aborted>>

Credit(g) == (g.alloc - (g.tx - g.fwd_seen)) % CntMod

GuestConnects(a) ==
  /\ guest[a].st = "closed" /\ a[1] = "g"
  /\ GuestSend(a, "REQUEST", {}, 0, [guest[a] EXCEPT !.st = "req"])

GuestAnswers(a) ==
  /\ guest[a].st = "asked" /\ GuestSend(a, "RESPONSE", {}, 0, [guest[a] EXCEPT !.st = "open"])

GuestResets(a) ==
  /\ guest[a].st \in {"asked", "must_rst", "open"} /\ GuestSend(a, "RST", {}, 0, GuestIdle)

GuestOpen(a) == guest[a].st = "open" /\ guest[a].shut # ALL

GuestWrites(a, len) ==
  /\ GuestOpen(a) /\ "TX" \notin guest[a].shut /\ len \in 1 .. Credit(guest[a])
  /\ GuestSend(a, "RW", {}, len, [guest[a] EXCEPT !.tx = (@ + len) % CntMod])

GuestShuts(a, flags) ==
  /\ GuestOpen(a) /\ ~(flags \subseteq guest[a].shut)
  /\ GuestSend(a, "SHUTDOWN", flags, 0, [guest[a] EXCEPT !.shut = @ \cup flags])

GuestCredits(a) ==
  /\ GuestOpen(a)
  /\ \E op \in {"CREDIT_UPDATE", "CREDIT_REQUEST"} : GuestSend(a, op, {}, 0, guest[a])

GuestReads(a) ==
  /\ ~aborted /\ guest[a].st = "open" /\ guest[a].got > 0
  /\ guest' = [guest EXCEPT ![a].got = @ - 1, ![a].fwd = (@ + 1) % CntMod]
  /\ UNCHANGED <<sock, tx, rx, txpipe, rxpipe, kick_pending, replies, txq, descs, host, backlog, sent, aborted>>

\* notify_rx runs on a vcpu and clears rx_kick_pending as every kick does.
pci_vtsock_notify_rx ==
  /\ ~aborted /\ descs < RxRing
  /\ descs' = descs + 1 /\ kick_rx
  /\ UNCHANGED <<sock, tx, rx, txpipe, replies, txq, guest, host, backlog, sent, aborted>>

HostChanges(s) ==
  /\ ~aborted /\ sock[s].fd /\ host[s] # "closed"
  /\ host' \in {[host EXCEPT ![s] = h] : h \in {"eof", "closed"} \ {host[s]}}
  /\ UNCHANGED <<sock, tx, rx, txpipe, rxpipe, kick_pending, replies, txq, descs, guest, backlog, sent, aborted>>

HostConnects ==
  /\ ~aborted /\ ~backlog /\ backlog' = TRUE
  /\ sent < MaxSends /\ sent' = sent + 1
  /\ UNCHANGED <<sock, tx, rx, txpipe, rxpipe, kick_pending, replies, txq, descs, guest, host, aborted>>

\* SHUTDOWN_RST_DELAY seconds pass.
TimePasses(s) ==
  /\ ~aborted /\ sock[s].deadline = "pending"
  /\ sock' = [sock EXCEPT ![s].deadline = "passed"]
  /\ UNCHANGED <<tx, rx, txpipe, rxpipe, kick_pending, replies, txq, descs, guest, host, backlog, sent, aborted>>

Environment ==
  \/ \E a \in Conns :
       \/ GuestConnects(a) \/ GuestAnswers(a) \/ GuestResets(a) \/ GuestCredits(a)
       \/ GuestReads(a) \/ (\E len \in 1 .. BufLen : GuestWrites(a, len))
       \/ \E flags \in SUBSET ALL \ {{}} : GuestShuts(a, flags)
  \/ pci_vtsock_notify_rx \/ HostConnects
  \/ \E s \in Socks : HostChanges(s) \/ TimePasses(s)

SockNext == TxThread \/ RxThread \/ Environment

SockSpec == SockInit /\ [][SockNext]_sockVars

-----------------------------------------------------------------------------
(* Safety.                                                                 *)

\* What the guest has been sent and has not read fits its buffer: the rx thread
\* counts every byte against the credit, whatever the credit updates that are on
\* their way and whatever the 32 bit counters have wrapped to.
CreditRespected == \A a \in Conns : guest[a].got <= PeerBuf

\* A packet within the credit the guest was given fits the write buffer: because
\* fwd_cnt does not move before the whole buffer is drained, the free space at the
\* end of the buffer, which a partial write does not win back, is enough.
CreditSuffices ==
  \A s \in Socks :
    (/\ txq # <<>> /\ Head(txq).op = "RW" /\ sock[s].state = "CONNECTED"
     /\ Head(txq).addr = sock[s].addr /\ sock_is_buffering(sock[s]))
      => Fits(sock[s], Head(txq).len)

\* Flow control works in both directions: the device stays within the guest's
\* credit, and the credit it gives the guest is one it can honour.
CreditSound == CreditRespected /\ CreditSuffices

\* A descriptor that a thread waits for in select is open: whoever closes a sock,
\* it leaves the tx thread's set, then the rx thread closes it.
SelectSafe ==
  /\ \A s \in tx.queue : sock[s].fd
  /\ \A s \in rx.rfd : sock[s].fd

\* Bytes the guest was told are taken are not behind a shutdown or a close: while
\* some are buffered the Unix socket can still be written.
NothingBehindShutdown ==
  \A s \in Socks : ("RX" \in sock[s].local \/ sock[s].state = "CLOSING_RX") => sock[s].tail = 0

\* The guest never keeps a connection the device has forgotten: there is a sock for
\* it, or the RST or RESPONSE for it is still in the reply ring, or the tx thread has
\* yet to see a packet that it will refuse.
HalfOpen ==
  \A a \in Conns :
    guest[a].st \in {"req", "open"} =>
      \/ \E s \in Socks : sock[s].addr = a /\ Live(s)
      \/ \E i \in DOMAIN replies : replies[i].addr = a /\ replies[i].op = "RST"
      \/ \E i \in DOMAIN txq : txq[i].addr = a /\ txq[i].op # "RST"

\* An orderly end: no byte is cut off and no side is left with half a connection.
ShutdownSound == NothingBehindShutdown /\ HalfOpen
=============================================================================
