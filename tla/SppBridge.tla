------------------------------- MODULE SppBridge -------------------------------
(***************************************************************************)
(* The SPP demo from the UART to the sockets: the thread that cuts the     *)
(* UART's bytes into packages (UartRx) is the one that pushes them into    *)
(* the clients' queues (SppQueues), and reads on when that is done.        *)
(***************************************************************************)
EXTENDS UartRx, SppQueues

CONSTANT ServedBytes  \* bound on the bytes that arrive while there are clients, and before one comes

VARIABLES data,     \* the bytes in each message
          lastSent  \* history: the last byte each client has written to its socket

bridgeVars == <<data, lastSent>>
vars == <<uartVars, sppVars, bridgeVars>>

Init ==
    /\ UartInit
    /\ SppInit
    /\ data = [m \in Messages |-> << >>]
    /\ lastSent = [c \in Clients |-> 0]

\* What free() does to a message.
DataFreed == data' = [m \in Messages |-> IF m \in heap' THEN data[m] ELSE << >>]

\* sppUartCommandProcess has returned.
ReaderRuns == thread[Uart].step = "idle"

Read == ReaderRuns /\ ReadStep /\ UNCHANGED <<sppVars, bridgeVars>>

\* A package becomes a message.
Forward ==
    /\ ReaderRuns /\ Deliver
    /\ \E m \in Messages :
          /\ Allocate(m)
          /\ data' = [data EXCEPT ![m] = reader.data]
    /\ UNCHANGED lastSent

\* The early returns of sppUartCommandProcess: no client, too much in use, malloc fails.
Discard ==
    /\ ReaderRuns /\ Deliver
    /\ UNCHANGED <<sppVars, bridgeVars>>

\* write() may fail; the bytes are gone all the same.  (Without an overrun no package is empty.)
Send(c) ==
    /\ Write(c)
    /\ \E m \in thread[c].msg :
          lastSent' = [lastSent EXCEPT ![c] = IF data[m] = << >> THEN @ ELSE Last(data[m])]
    /\ UNCHANGED <<uartVars, data>>

Served == \E c \in Clients : thread[c].step # "off"

Next ==
    /\ ~raced
    /\ \/ Receive /\ (Served => written < ServedBytes) /\ UNCHANGED <<sppVars, bridgeVars>>
       \/ UartIrq /\ UNCHANGED <<sppVars, bridgeVars>>
       \/ Read
       \/ Forward
       \/ Discard
       \/ UartStep /\ DataFreed /\ UNCHANGED <<uartVars, lastSent>>
       \/ \E c \in Clients :
             \/ /\ thread[c].step = "off" => written <= ServedBytes
                /\ ClientStep(c)
                /\ DataFreed
                /\ UNCHANGED <<uartVars, lastSent>>
             \/ Send(c)

\* Interrupts come, the UART's thread runs, and its waits end by UART_RECV_TIMEOUT; no client has
\* to do anything: its peer may stop reading for good.
Fairness ==
    /\ WF_vars(~raced /\ UartIrq /\ UNCHANGED <<sppVars, bridgeVars>>)
    /\ WF_vars(~raced /\ (Read \/ Forward \/ Discard))
    /\ WF_vars(~raced /\ UartStep /\ DataFreed /\ UNCHANGED <<uartVars, lastSent>>)

Spec == Init /\ [][Next]_vars /\ Fairness
-----------------------------------------------------------------------------
(* Properties, besides those of the two parts *)

BridgeTypeOK ==
    /\ UartTypeOK
    /\ SppTypeOK
    /\ data \in [Messages -> Seq(1 .. MaxBytes)]
    /\ lastSent \in [Clients -> 0 .. MaxBytes]

\* What a client writes to its socket are bytes of the UART in the order they arrived, none of
\* them twice, across packages, full queues, messages reused and connections made anew.
StreamInOrder ==
    [][\A c \in Clients : lastSent'[c] # lastSent[c] =>
          overrun \/ \E m \in thread[c].msg :
                        /\ data[m][1] > lastSent[c]
                        /\ \A i \in 1 .. Len(data[m]) - 1 : data[m][i + 1] = data[m][i] + 1]_vars

\* The whole bridge: when no more bytes come, all have left the ring by the end of a package or
\* a time-out, whatever the clients do.
BytesTakenOff == []<>(Len(handed) = written \/ stale \/ overrun \/ raced)
=============================================================================
