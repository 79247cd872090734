------------------------------- MODULE SppQueues -------------------------------
(***************************************************************************)
(* The SPP demo's way from the UART to its TCP clients (SppProtocol.c,     *)
(* LocalTcpServer.c, RemoteTcpClient.c): one thread allocates a message    *)
(* and pushes a pointer to it into the queue of every client; each client  *)
(* pops, writes to its socket and frees.  A message counts its references; *)
(* the counts, and the number of bytes in use, are changed by ordinary ++  *)
(* and --, by the clients without the mutex that the UART's thread holds.  *)
(***************************************************************************)
EXTENDS Integers, Sequences, FiniteSets, SequencesExt, FiniteSetsExt

CONSTANTS Clients,      \* threads with a queue: local clients and the remote one
          Uart,         \* the UART's thread
          NoQueue,      \* NULL
          Slots,        \* MAX_QUEUE_NUM
          QueueLength,  \* MAX_QUEUE_LENGTH
          MaxSockLen,   \* MAX_SOCK_MSG_LEN, in messages
          Messages      \* addresses malloc may return

ASSUME SppAssumption ==
    /\ Uart \notin Clients /\ NoQueue \notin Clients
    /\ {Slots, QueueLength} \subseteq Nat \ {0}
    /\ MaxSockLen \in Nat
    /\ IsFiniteSet(Clients) /\ IsFiniteSet(Messages)

VARIABLES table,    \* socket_out_queue
          open,     \* the clients whose queue is initialised
          queue,    \* the contents of the queues
          heap,     \* allocated messages
          ref,      \* ref of each message
          sockLen,  \* sockmsg_len, in messages
          mutex,    \* queue_mtx: its holder, or {}; clients hold it within one step
          thread,   \* each thread's step and locals
          raced     \* history: two threads have changed one count at once

sppVars == <<table, open, queue, heap, ref, sockLen, mutex, thread, raced>>

Threads == Clients \cup {Uart}
SlotIds == 1 .. Slots

\* msg: the set of the message in hand; loaded: what was read from a count; rest: the slots the
\* UART's thread has still to push to; ending: it does its last free, or the client leaves.
AtRest(step) == [step |-> step, msg |-> {}, loaded |-> 0, rest |-> {}, ending |-> FALSE]

Draining == [step |-> "draining", msg |-> {}, loaded |-> 0, rest |-> {}, ending |-> TRUE]

FreeSteps == {"free", "decrement", "test", "size", "release"}
UartSteps == FreeSteps \cup {"idle", "count", "counted", "lock", "next", "take", "push", "unlock"}
ClientSteps == FreeSteps \cup {"off", "serving", "holding", "draining"}

SppInit ==
    /\ table = [s \in SlotIds |-> NoQueue]
    /\ open = {}
    /\ queue = [c \in Clients |-> << >>]
    /\ heap = {}
    /\ ref = [m \in Messages |-> 0]
    /\ sockLen = 0
    /\ mutex = {}
    /\ thread = [t \in Threads |-> AtRest(IF t = Uart THEN "idle" ELSE "off")]
    /\ raced = FALSE

Goto(t, step) == thread' = [thread EXCEPT ![t].step = step]

\* Another thread is about to store a count of the message m, or to read it back.
OnRef(t, m) == \E o \in Threads \ {t} : thread[o].msg = {m} /\ thread[o].step \in {"take", "decrement", "test"}
OnSockLen(t) == \E o \in Threads \ {t} : thread[o].step \in {"counted", "release"}
-----------------------------------------------------------------------------
(* sppUartCommandProcess.  It may return early without a change: no client *)
(* in the table, or no memory.                                             *)

Allocate(m) ==
    /\ thread[Uart].step = "idle"
    /\ m \notin heap /\ m = CHOOSE free \in Messages \ heap : TRUE  \* any other would do
    /\ \E s \in SlotIds : table[s] # NoQueue
    /\ sockLen <= MaxSockLen
    /\ heap' = heap \cup {m}
    /\ ref' = [ref EXCEPT ![m] = 0]
    /\ thread' = [thread EXCEPT ![Uart].step = "count", ![Uart].msg = {m}]
    /\ UNCHANGED <<table, open, queue, sockLen, mutex, raced>>

CountLoad ==
    /\ thread[Uart].step = "count"
    /\ thread' = [thread EXCEPT ![Uart].step = "counted", ![Uart].loaded = sockLen]
    /\ raced' = (raced \/ OnSockLen(Uart))
    /\ UNCHANGED <<table, open, queue, heap, ref, sockLen, mutex>>

CountStore ==
    /\ thread[Uart].step = "counted"
    /\ sockLen' = thread[Uart].loaded + 1
    /\ thread' = [thread EXCEPT ![Uart].step = "lock", ![Uart].loaded = 0]
    /\ UNCHANGED <<table, open, queue, heap, ref, mutex, raced>>

\* Mutant: the message is pushed without the reference of the thread that pushes it.
LockUntaken ==
    /\ thread[Uart].step = "lock" /\ mutex = {}
    /\ mutex' = {Uart}
    /\ thread' = [thread EXCEPT ![Uart].step = "next",
                                ![Uart].rest = {s \in SlotIds : table[s] # NoQueue}]
    /\ UNCHANGED <<table, open, queue, heap, ref, sockLen, raced>>

\* The mutex, and the thread's own reference: nobody else has the message yet.
Lock ==
    /\ thread[Uart].step = "lock" /\ mutex = {}
    /\ mutex' = {Uart}
    /\ ref' = [m \in Messages |-> IF {m} = thread[Uart].msg THEN ref[m] + 1 ELSE ref[m]]
    /\ thread' = [thread EXCEPT ![Uart].step = "next",
                                ![Uart].rest = {s \in SlotIds : table[s] # NoQueue}]
    /\ UNCHANGED <<table, open, queue, heap, sockLen, raced>>

\* socket_msg_take for the next queue; after the last one, the thread's own free.
NextSlot ==
    /\ thread[Uart].step = "next"
    /\ \E m \in thread[Uart].msg :
          IF thread[Uart].rest = {}
          THEN /\ thread' = [thread EXCEPT ![Uart].step = "free", ![Uart].ending = TRUE]
               /\ UNCHANGED raced
          ELSE /\ thread' = [thread EXCEPT ![Uart].step = "take", ![Uart].loaded = ref[m]]
               /\ raced' = (raced \/ OnRef(Uart, m))
    /\ UNCHANGED <<table, open, queue, heap, ref, sockLen, mutex>>

TakeStore ==
    /\ thread[Uart].step = "take"
    /\ \E m \in thread[Uart].msg : ref' = [ref EXCEPT ![m] = thread[Uart].loaded + 1]
    /\ thread' = [thread EXCEPT ![Uart].step = "push", ![Uart].loaded = 0]
    /\ UNCHANGED <<table, open, queue, heap, sockLen, mutex, raced>>

\* Mutant: the thread waits for a full queue.
PushWaiting ==
    /\ thread[Uart].step = "push"
    /\ LET s == Min(thread[Uart].rest)
           c == table[s] IN
       /\ Len(queue[c]) < QueueLength
       /\ \E m \in thread[Uart].msg : queue' = [queue EXCEPT ![c] = Append(@, m)]
       /\ thread' = [thread EXCEPT ![Uart].rest = @ \ {s}, ![Uart].step = "next"]
    /\ UNCHANGED <<table, open, heap, ref, sockLen, mutex, raced>>

\* A push that fails, for the queue is full, is followed by a free.
Push ==
    /\ thread[Uart].step = "push"
    /\ LET s == Min(thread[Uart].rest)
           c == table[s]
           fits == Len(queue[c]) < QueueLength IN
       /\ \E m \in thread[Uart].msg : queue' = IF fits THEN [queue EXCEPT ![c] = Append(@, m)] ELSE queue
       /\ thread' = [thread EXCEPT ![Uart].rest = @ \ {s},
                                   ![Uart].step = IF fits THEN "next" ELSE "free"]
    /\ UNCHANGED <<table, open, heap, ref, sockLen, mutex, raced>>

Unlock ==
    /\ thread[Uart].step = "unlock"
    /\ mutex' = {}
    /\ thread' = [thread EXCEPT ![Uart] = AtRest("idle")]
    /\ UNCHANGED <<table, open, queue, heap, ref, sockLen, raced>>
-----------------------------------------------------------------------------
(* socket_msg_free, in any thread *)

\* The caller goes on.
Freed(t) ==
    IF t = Uart
    THEN IF thread[t].ending THEN [thread EXCEPT ![t] = AtRest("unlock")]
         ELSE [thread EXCEPT ![t].step = "next", ![t].loaded = 0]
    ELSE [thread EXCEPT ![t] = IF thread[t].ending THEN Draining ELSE AtRest("serving")]

FreeLoad(t) ==
    /\ thread[t].step = "free"
    /\ \E m \in thread[t].msg :
          /\ thread' = [thread EXCEPT ![t].step = "decrement", ![t].loaded = ref[m]]
          /\ raced' = (raced \/ OnRef(t, m))
    /\ UNCHANGED <<table, open, queue, heap, ref, sockLen, mutex>>

\* Whether the test that follows uses the value stored or reads it again is the compiler's choice.
FreeStore(t) ==
    /\ thread[t].step = "decrement"
    /\ \E m \in thread[t].msg : ref' = [ref EXCEPT ![m] = thread[t].loaded - 1]
    /\ \/ thread' = IF thread[t].loaded = 1 THEN [thread EXCEPT ![t].step = "size", ![t].loaded = 0]
                    ELSE Freed(t)
       \/ thread' = [thread EXCEPT ![t].step = "test", ![t].loaded = 0]
    /\ UNCHANGED <<table, open, queue, heap, sockLen, mutex, raced>>

FreeTest(t) ==
    /\ thread[t].step = "test"
    /\ \E m \in thread[t].msg :
          thread' = IF ref[m] = 0 THEN [thread EXCEPT ![t].step = "size"] ELSE Freed(t)
    /\ UNCHANGED <<table, open, queue, heap, ref, sockLen, mutex, raced>>

SizeLoad(t) ==
    /\ thread[t].step = "size"
    /\ thread' = [thread EXCEPT ![t].step = "release", ![t].loaded = sockLen]
    /\ raced' = (raced \/ OnSockLen(t))
    /\ UNCHANGED <<table, open, queue, heap, ref, sockLen, mutex>>

SizeStore(t) ==
    /\ thread[t].step = "release"
    /\ sockLen' = thread[t].loaded - 1
    /\ heap' = heap \ thread[t].msg
    /\ thread' = Freed(t)
    /\ UNCHANGED <<table, open, queue, ref, mutex, raced>>
-----------------------------------------------------------------------------
(* localTcpClient_thread and remoteTcpClient_thread *)

\* socket_queue_create.  With the table full, or when a call fails, nothing is left behind.
Create(c) ==
    /\ thread[c].step = "off" /\ mutex = {}
    /\ \E s \in SlotIds :
          /\ table[s] = NoQueue /\ \A r \in 1 .. s - 1 : table[r] # NoQueue
          /\ table' = [table EXCEPT ![s] = c]
    /\ open' = open \cup {c}
    /\ Goto(c, "serving")
    /\ UNCHANGED <<queue, heap, ref, sockLen, mutex, raced>>

\* There is data and the socket can be written.
Pop(c) ==
    /\ thread[c].step \in {"serving", "draining"} /\ queue[c] # << >>
    /\ queue' = [queue EXCEPT ![c] = Tail(@)]
    /\ thread' = [thread EXCEPT ![c].step = IF @ = "serving" THEN "holding" ELSE "free",
                                ![c].msg = {Head(queue[c])}]
    /\ UNCHANGED <<table, open, heap, ref, sockLen, mutex, raced>>

\* Mutant: a message that could not be written is kept.
WriteUnfreed(c) ==
    /\ thread[c].step = "holding"
    /\ \/ Goto(c, "free")
       \/ thread' = [thread EXCEPT ![c] = AtRest("serving")]
    /\ UNCHANGED <<table, open, queue, heap, ref, sockLen, mutex, raced>>

\* write(): it succeeds or not, the message is freed; an error other than ENOMEM is followed by
\* Leave.
Write(c) ==
    /\ thread[c].step = "holding"
    /\ Goto(c, "free")
    /\ UNCHANGED <<table, open, queue, heap, ref, sockLen, mutex, raced>>

\* Mutant: the queue is emptied before it leaves the table.
LeaveLate(c) ==
    /\ thread[c].step = "serving" /\ mutex = {}
    /\ thread' = [thread EXCEPT ![c] = Draining]
    /\ UNCHANGED <<table, open, queue, heap, ref, sockLen, mutex, raced>>

\* socket_queue_delete: the connection is closed, or failed.
Leave(c) ==
    /\ thread[c].step = "serving" /\ mutex = {}
    /\ table' = [s \in SlotIds |-> IF table[s] = c THEN NoQueue ELSE table[s]]
    /\ thread' = [thread EXCEPT ![c] = Draining]
    /\ UNCHANGED <<open, queue, heap, ref, sockLen, mutex, raced>>

Deinit(c) ==
    /\ thread[c].step = "draining" /\ queue[c] = << >>
    /\ open' = open \ {c}
    /\ thread' = [thread EXCEPT ![c] = AtRest("off")]
    /\ UNCHANGED <<table, queue, heap, ref, sockLen, mutex, raced>>

FreeStep(t) == FreeLoad(t) \/ FreeStore(t) \/ FreeTest(t) \/ SizeLoad(t) \/ SizeStore(t)
UartStep == CountLoad \/ CountStore \/ Lock \/ NextSlot \/ TakeStore \/ Push \/ Unlock \/ FreeStep(Uart)
ClientStep(c) == Create(c) \/ Pop(c) \/ Leave(c) \/ Deinit(c) \/ FreeStep(c)

\* Bound: a behaviour ends with the first race; a wrong count may free a message early, twice or
\* never.
SppNext ==
    /\ ~raced
    /\ \/ \E m \in Messages : Allocate(m)
       \/ UartStep
       \/ \E c \in Clients : ClientStep(c) \/ Write(c)

SppSpec == SppInit /\ [][SppNext]_sppVars
-----------------------------------------------------------------------------
(* Properties *)

SppTypeOK ==
    /\ table \in [SlotIds -> Clients \cup {NoQueue}]
    /\ open \subseteq Clients /\ heap \subseteq Messages /\ raced \in BOOLEAN
    /\ queue \in [Clients -> Seq(Messages)] /\ \A c \in Clients : Len(queue[c]) <= QueueLength
    /\ ref \in [Messages -> Int] /\ sockLen \in Int
    /\ mutex = IF thread[Uart].step \in {"next", "take", "push", "unlock"} \cup FreeSteps THEN {Uart} ELSE {}
    /\ thread[Uart].step \in UartSteps
    /\ \A c \in Clients : thread[c].step \in ClientSteps
    /\ \A t \in Threads :
          /\ thread[t].msg \subseteq Messages
          /\ Cardinality(thread[t].msg) = IF thread[t].step \in FreeSteps \cup
                (IF t = Uart THEN UartSteps \ {"idle", "unlock"} ELSE {"holding"}) THEN 1 ELSE 0

\* The references to a message: the queues it is in, the clients that have it and have not given
\* it up, the UART thread's own, and the one that thread has taken for the next queue.
InQueues(m) == {c \in Clients : m \in ToSet(queue[c])}
InHands(m) == {c \in Clients : thread[c].msg = {m} /\ thread[c].step \in {"holding", "free", "decrement"}}
UartOwn(m) ==
    IF thread[Uart].msg # {m} \/ thread[Uart].step \in {"count", "counted", "lock"} THEN 0
    ELSE IF thread[Uart].ending THEN (IF thread[Uart].step \in {"free", "decrement"} THEN 1 ELSE 0)
    ELSE IF thread[Uart].step \in {"push", "free", "decrement"} THEN 2 ELSE 1
References(m) == Cardinality(InQueues(m)) + Cardinality(InHands(m)) + UartOwn(m)

\* A message's count is the number of its references, as long as no two threads change it at
\* once (SppProtocol.c:114-128: clients free without the mutex).
RefIsReferences ==
    ~raced => \A m \in heap : ref[m] = References(m)

\* Then, too, nothing in a queue or in a thread's hands has been freed, nothing is freed twice
\* and nothing leaks, and sockmsg_len is what is allocated.
HeapIsReachable ==
    ~raced => /\ heap = (UNION {ToSet(queue[c]) : c \in Clients}) \cup (UNION {thread[t].msg : t \in Threads})
              /\ sockLen = Cardinality(heap) - (IF thread[Uart].step \in {"count", "counted"} THEN 1 ELSE 0)

\* A queue is initialised for as long as it is in the table, in one slot, and nothing is
\* left or pushed in one that is not: clients leave the table, then empty it, then destroy it.
QueuesInTableOpen ==
    /\ \A s \in SlotIds : table[s] # NoQueue => table[s] \in open
    /\ \A r, s \in SlotIds : r # s /\ table[r] = table[s] => table[r] = NoQueue
    /\ \A c \in Clients \ open : queue[c] = << >>
=============================================================================
