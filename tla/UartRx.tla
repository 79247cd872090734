-------------------------------- MODULE UartRx ---------------------------------
(***************************************************************************)
(* Receiving from a UART through a ring buffer (platform_uart.c and        *)
(* RingBufferUtils.c), and the loop of UartRecv.c that cuts what arrives   *)
(* into packages.  DMA writes bytes round the ring; the interrupt moves    *)
(* the tail and wakes a reader that waits for so many bytes; the reader    *)
(* moves the head.  Nothing but the order of the steps protects them.      *)
(*                                                                         *)
(* Bytes are numbered in the order they arrive.                            *)
(***************************************************************************)
EXTENDS Integers, Sequences, SequencesExt

CONSTANTS RingSize,  \* size of the ring buffer
          Package,   \* UART_ONE_PACKAGE_LENGTH
          MaxBytes   \* bound on the bytes that arrive

ASSUME UartRxAssumption ==
    /\ RingSize \in Nat /\ RingSize >= 2
    /\ Package \in Nat \ {0}
    /\ MaxBytes \in Nat

VARIABLES ring,      \* buffer: the byte in each cell
          head,      \* where the reader reads next
          tail,      \* where, as the last interrupt saw it, DMA writes next
          written,   \* bytes DMA has written
          rxSize,    \* driver->rx_size: bytes the reader waits for, 0 if it does not
          rxToken,   \* the semaphore rx_complete, 0 or 1
          reader,    \* uartRecv_thread: its step and its locals
          handed,    \* history: the bytes of the packages handed on so far
          overrun,   \* history: DMA has caught up with the reader
          stale      \* history: a token was set that nobody waited for any more

uartVars == <<ring, head, tail, written, rxSize, rxToken, reader, handed, overrun, stale>>

Cells == 0 .. RingSize - 1
ReaderSteps == {"call", "arm", "wait", "timeout", "woken", "grab", "length", "deliver"}

\* ring_buffer_used_space: a full ring looks empty.
Used == (RingSize - head + tail) % RingSize

\* transfer_size: at most half the ring at a time.
Transfer(expected) == IF expected < RingSize \div 2 THEN expected ELSE RingSize \div 2

\* A new call of MicoUartRecv for n bytes; whole: the first call of a package.
Calling(n, whole) == [step |-> "call", whole |-> whole, expected |-> n, transfer |-> 0, data |-> << >>]

UartInit ==
    /\ ring = [c \in Cells |-> 0]
    /\ head = 0 /\ tail = 0 /\ written = 0
    /\ rxSize = 0 /\ rxToken = 0
    /\ reader = Calling(Package, TRUE)
    /\ handed = << >>
    /\ overrun = FALSE /\ stale = FALSE
-----------------------------------------------------------------------------
(* The hardware and the interrupt *)

\* DMA stores a byte; the interrupt comes later, maybe for several bytes.
Receive ==
    /\ written < MaxBytes
    /\ written' = written + 1
    /\ ring' = [ring EXCEPT ![written % RingSize] = written']
    /\ overrun' = (overrun \/ written' - Len(handed) - Len(reader.data) >= RingSize)
    /\ UNCHANGED <<head, tail, rxSize, rxToken, reader, handed, stale>>

\* The interrupt (RXNE: a byte has come, and DMA has stored it by then) sees DMA's position
\* t, and wakes the reader for whom there is enough.  One that finds the tail at t already
\* is for a byte that came while the one before ran; it follows that one before any thread
\* goes on, and changes nothing.
SeeTail(t) ==
    /\ tail # t
    /\ tail' = t
    /\ LET enough == rxSize > 0 /\ (RingSize - head + t) % RingSize >= rxSize IN
       /\ rxToken' = IF enough THEN 1 ELSE rxToken
       /\ rxSize' = IF enough THEN 0 ELSE rxSize
       /\ stale' = (stale \/ (enough /\ reader.step # "wait"))
    /\ UNCHANGED <<ring, head, written, reader, handed, overrun>>

\* Mutant: the tail is one byte ahead of what DMA has written.
UartIrqAhead == SeeTail((written + 1) % RingSize)

\* platform_uart_irq
UartIrq == SeeTail(written % RingSize)
-----------------------------------------------------------------------------
(* platform_uart_receive_bytes *)

Check ==
    /\ reader.step = "call"
    /\ LET n == Transfer(reader.expected) IN
       reader' = [reader EXCEPT !.transfer = n, !.step = IF n > Used THEN "arm" ELSE "grab"]
    /\ UNCHANGED <<ring, head, tail, written, rxSize, rxToken, handed, overrun, stale>>

Arm ==
    /\ reader.step = "arm"
    /\ rxSize' = reader.transfer
    /\ reader' = [reader EXCEPT !.step = "wait"]
    /\ UNCHANGED <<ring, head, tail, written, rxToken, handed, overrun, stale>>

Wake ==
    /\ reader.step = "wait" /\ rxToken = 1
    /\ rxToken' = 0
    /\ reader' = [reader EXCEPT !.step = "woken"]
    /\ UNCHANGED <<ring, head, tail, written, rxSize, handed, overrun, stale>>

TimeOut ==
    /\ reader.step = "wait" /\ rxToken = 0
    /\ reader' = [reader EXCEPT !.step = "timeout"]
    /\ UNCHANGED <<ring, head, tail, written, rxSize, rxToken, handed, overrun, stale>>

\* The caller goes on after an error: it looks at the length, or, in the call for what was
\* there, ignores it.
AfterTimeOut == [reader EXCEPT !.step = IF reader.whole THEN "length" ELSE "deliver",
                               !.data = IF reader.whole THEN << >> ELSE @]

\* Mutant: rx_size is not reset, as before "Reset rx_size to prevent semaphore being set".
DisarmNot ==
    /\ reader.step \in {"woken", "timeout"}
    /\ reader' = IF reader.step = "woken" THEN [reader EXCEPT !.step = "grab"] ELSE AfterTimeOut
    /\ UNCHANGED <<ring, head, tail, written, rxSize, rxToken, handed, overrun, stale>>

Disarm ==
    /\ reader.step \in {"woken", "timeout"}
    /\ rxSize' = 0
    /\ reader' = IF reader.step = "woken" THEN [reader EXCEPT !.step = "grab"] ELSE AfterTimeOut
    /\ UNCHANGED <<ring, head, tail, written, rxToken, handed, overrun, stale>>

\* Mutant: bytes that were copied are not consumed.
GrabUnconsumed(n) ==
    /\ reader.step = "grab" /\ n > 0
    /\ LET rest == [reader EXCEPT !.transfer = @ - n,
                                  !.expected = @ - n,
                                  !.data = @ \o [i \in 1 .. n |-> ring[head + i - 1]]] IN
       reader' = [rest EXCEPT !.step = IF rest.transfer > 0 THEN "grab"
                                       ELSE IF rest.expected > 0 THEN "call" ELSE "deliver"]
    /\ UNCHANGED <<ring, head, tail, written, rxSize, rxToken, handed, overrun, stale>>

\* One turn of the loop: the bytes that are there, up to the end of the ring.  With none it
\* turns on, for as long as it takes.
GrabBytes(n) ==
    /\ reader.step = "grab" /\ n > 0
    /\ head' = (head + n) % RingSize
    /\ LET rest == [reader EXCEPT !.transfer = @ - n,
                                  !.expected = @ - n,
                                  !.data = @ \o [i \in 1 .. n |-> ring[head + i - 1]]] IN
       reader' = [rest EXCEPT !.step = IF rest.transfer > 0 THEN "grab"
                                       ELSE IF rest.expected > 0 THEN "call" ELSE "deliver"]
    /\ UNCHANGED <<ring, tail, written, rxSize, rxToken, handed, overrun, stale>>

LesserOf(a, b) == IF a < b THEN a ELSE b

\* Mutant: ring_buffer_get_data takes the bytes up to the end for bytes that are there.
GrabToEnd == GrabBytes(LesserOf(reader.transfer, RingSize - head))

Grab == GrabBytes(LesserOf(reader.transfer, LesserOf(RingSize - head, Used)))
-----------------------------------------------------------------------------
(* _uart_get_one_packet *)

\* After a time-out: what is there, or a whole package again.  If more than a package has
\* come since the time-out, the code overruns its buffer of UART_ONE_PACKAGE_LENGTH bytes;
\* what that spoils is not modelled.
Length ==
    /\ reader.step = "length"
    /\ reader' = IF Used > 0 THEN Calling(Used, FALSE) ELSE Calling(Package, TRUE)
    /\ UNCHANGED <<ring, head, tail, written, rxSize, rxToken, handed, overrun, stale>>

\* The package goes to sppUartCommandProcess, and the next one is waited for.
Deliver ==
    /\ reader.step = "deliver"
    /\ handed' = handed \o reader.data
    /\ reader' = Calling(Package, TRUE)
    /\ UNCHANGED <<ring, head, tail, written, rxSize, rxToken, overrun, stale>>

ReadStep == Check \/ Arm \/ Wake \/ TimeOut \/ Disarm \/ Grab \/ Length

UartNext == Receive \/ UartIrq \/ ReadStep \/ Deliver

UartSpec == UartInit /\ [][UartNext]_uartVars
-----------------------------------------------------------------------------
(* Properties *)

UartTypeOK ==
    /\ ring \in [Cells -> 0 .. MaxBytes] /\ {head, tail} \subseteq Cells
    /\ written \in 0 .. MaxBytes /\ rxToken \in {0, 1} /\ rxSize \in 0 .. RingSize \div 2
    /\ reader.step \in ReaderSteps /\ reader.whole \in BOOLEAN
    /\ rxSize > 0 => reader.step \in {"wait", "woken", "timeout"}
    /\ {ToSet(handed), ToSet(reader.data)} \subseteq SUBSET (0 .. MaxBytes)
    /\ {overrun, stale} \subseteq BOOLEAN

\* The reader gets every byte once and in order, as long as it keeps less than a ring behind and
\* a package is no more than half a ring: ring_buffer_used_space takes a full ring for an empty
\* one, and a package received in two halves loses the first when the second times out.
InOrder ==
    ~overrun /\ Package <= RingSize \div 2 =>
        handed \o reader.data = [i \in 1 .. Len(handed) + Len(reader.data) |-> i]

\* The reader copies only what has arrived: it takes up the loop of line 491, which has no
\* time-out, with fewer bytes than it wants only if it used a token that was set between an
\* earlier time-out and the reset of rx_size (platform_uart.c:467-471).
GrabHasEnough ==
    reader.step = "grab" /\ reader.transfer > Used => stale \/ overrun
=============================================================================
