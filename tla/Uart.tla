-------------------------------- MODULE Uart --------------------------------
(***************************************************************************)
(* The 16550 (uart_emul.c) behind a COM port of the LPC bus (pci_lpc.c),   *)
(* with the event loop that feeds its receive FIFO.  The FIFO switches its *)
(* event off when it fills and on when it has room; the interrupt is an    *)
(* edge.  uart_softc.mtx makes every operation one step.                   *)
(***************************************************************************)
EXTENDS Mevent

CONSTANTS
  FIFOSZ,       \* size of the FIFO when it is enabled
  Iers,         \* values the guest writes to IER, as sets of sources
  MaxInput      \* how many characters wait on the tty at most

VARIABLES
  uart,     \* ier, dlab, loopback, rts (of MCR), oe (of LSR), cts and dcts
            \* (of MSR), fcr (enabled), num and size of the FIFO,
            \* thre_int_pending
  tty,      \* characters that wait on the tty
  com       \* the guest: a latched edge, and whether it is in its handler

uartVars == <<uart, tty, com>>

Tty == "tty"    \* the event of the tty descriptor

UartInit ==
  /\ uart = [ier |-> {}, dlab |-> FALSE, loopback |-> FALSE, rts |-> FALSE, oe |-> FALSE,
             cts |-> FALSE, dcts |-> FALSE, fcr |-> FALSE, num |-> 0, size |-> 1, thre |-> FALSE]
  /\ tty = 0
  /\ com = [edge |-> FALSE, isr |-> FALSE]

rxfifo_available(u) == u.num < u.size

\* The FIFO operations, as the new FIFO and what they ask of the event.
rxfifo_reset(u, size) == [u EXCEPT !.num = 0, !.size = size]

rxfifo_putchar(u) == IF rxfifo_available(u) THEN [u EXCEPT !.num = @ + 1] ELSE u

rxfifo_getchar(u) == IF u.num > 0 THEN [u EXCEPT !.num = @ - 1] ELSE u

uart_intr_reason(u) ==
  CASE u.oe /\ "ERLS" \in u.ier -> "RLS"
    [] u.num > 0 /\ "ERXRDY" \in u.ier -> "RXTOUT"
    [] u.thre /\ "ETXRDY" \in u.ier -> "TXRDY"
    [] u.dcts /\ "EMSC" \in u.ier -> "MLSC"
    [] OTHER -> "NOPEND"

\* lpc_uart_intr_assert pulses the line, lpc_uart_intr_deassert does nothing.
uart_toggle_intr(u) == com' = [com EXCEPT !.edge = @ \/ uart_intr_reason(u) # "NOPEND"]

\* Putting the last character in disables the event, taking one out of a full
\* FIFO enables it, and a reset enables it in any case.
UpdateEvent(u, reset, self) ==
  IF reset \/ (rxfifo_available(u) /\ ~ rxfifo_available(uart))
  THEN mevent_update(Tty, "ENABLE", self)
  ELSE IF ~ rxfifo_available(u) /\ rxfifo_available(uart)
  THEN mevent_update(Tty, "DISABLE", self)
  ELSE UNCHANGED <<mev, pipe>>

\* Characters taken by the loop of uart_drain: until the FIFO is full or the
\* tty is empty.
Drained == IF uart.size - uart.num < tty THEN uart.size - uart.num ELSE tty

uart_drain ==
  /\ Handling(Tty) /\ Handled(Tty)
  /\ IF uart.loopback
     THEN /\ tty' = IF tty > 0 THEN tty - 1 ELSE 0
          /\ UNCHANGED <<uart, com, mev, pipe>>
     ELSE LET u == [uart EXCEPT !.num = @ + Drained] IN
          /\ uart' = u /\ tty' = tty - Drained
          /\ UpdateEvent(u, FALSE, "loop") /\ uart_toggle_intr(u)
  /\ UNCHANGED kq

-----------------------------------------------------------------------------
\* Writes of a vcpu.  Each names the registers it leaves behind, whether the
\* FIFO was reset (which flushes the tty too) and ends with the toggle.

UartStep(u, reset) ==
  /\ uart' = u /\ UpdateEvent(u, reset, "vcpu") /\ uart_toggle_intr(u)
  /\ tty' = IF reset THEN 0 ELSE tty
  /\ UNCHANGED <<kq, loop>>

WriteData ==
  UartStep(IF uart.dlab THEN uart
           ELSE IF uart.loopback
           THEN [rxfifo_putchar(uart) EXCEPT !.oe = @ \/ ~ rxfifo_available(uart), !.thre = TRUE]
           ELSE [uart EXCEPT !.thre = TRUE], FALSE)

WriteIer == \E v \in Iers : UartStep(IF uart.dlab THEN uart ELSE [uart EXCEPT !.ier = v], FALSE)

\* FCR_ENABLE changes reset the FIFO to the new size, FCR_RCV_RST resets it too.
WriteFcr ==
  \E enable, rst \in BOOLEAN :
    LET size == IF enable THEN FIFOSZ ELSE 1
        reset == enable # uart.fcr \/ (enable /\ rst)
    IN UartStep([(IF reset THEN rxfifo_reset(uart, size) ELSE uart) EXCEPT !.fcr = enable], reset)

WriteLcr == UartStep([uart EXCEPT !.dlab = ~ @], FALSE)

\* In loopback RTS is reflected as CTS, otherwise the modem lines are low; a
\* change sets the delta bit.
WriteMcr ==
  \E lp, rts \in BOOLEAN :
    LET cts == lp /\ rts
    IN UartStep([uart EXCEPT !.loopback = lp, !.rts = rts, !.cts = cts,
                             !.dcts = @ \/ cts # uart.cts], FALSE)

uart_write(reg) ==
  \/ reg = "DATA" /\ WriteData
  \/ reg = "IER" /\ WriteIer
  \/ reg = "FCR" /\ WriteFcr
  \/ reg = "LCR" /\ WriteLcr
  \/ reg = "MCR" /\ WriteMcr

-----------------------------------------------------------------------------
\* Reads with an effect.

ReadData == UartStep(IF uart.dlab THEN uart ELSE rxfifo_getchar(uart), FALSE)

\* The guest's handler reads IIR until nothing is pending.
ReadIir ==
  /\ com.isr
  /\ LET reason == uart_intr_reason(uart)
         u == [uart EXCEPT !.thre = @ /\ reason # "TXRDY"]
     IN /\ uart' = u /\ UNCHANGED <<tty, mev, pipe, kq, loop>>
        /\ com' = [edge |-> com.edge \/ uart_intr_reason(u) # "NOPEND",
                   isr |-> reason # "NOPEND"]

ReadLsr == UartStep([uart EXCEPT !.oe = FALSE], FALSE)

ReadMsr == UartStep([uart EXCEPT !.dcts = FALSE], FALSE)

uart_read(reg) ==
  \/ reg = "DATA" /\ ReadData
  \/ reg = "IIR" /\ ReadIir
  \/ reg = "LSR" /\ ReadLsr
  \/ reg = "MSR" /\ ReadMsr

\* The guest takes the latched edge.
ComInterrupt ==
  /\ com.edge /\ ~ com.isr
  /\ com' = [edge |-> FALSE, isr |-> TRUE]
  /\ UNCHANGED <<uart, tty, meventVars>>

TtyInput ==
  /\ tty < MaxInput /\ tty' = tty + 1
  /\ UNCHANGED <<uart, com, meventVars>>

\* regs: the registers the guest uses.
UartNext(regs) ==
  \/ uart_drain \/ ComInterrupt \/ TtyInput
  \/ \E reg \in regs : uart_write(reg) \/ uart_read(reg)

-----------------------------------------------------------------------------
\* Input is never wedged: once the event loop has nothing queued and blocks,
\* the kernel watches the tty exactly when the FIFO has room, so a character
\* that waits is read, and one there is no room for does not spin the loop.
UartInputFlows == Settled => (kq[Tty] = "on" <=> rxfifo_available(uart))

\* No interrupt is lost although the line is edge triggered: while a reason is
\* pending, an edge is latched or the guest's handler has not yet read "nothing
\* pending".
UartInterruptRaised == uart_intr_reason(uart) # "NOPEND" => com.edge \/ com.isr
=============================================================================
