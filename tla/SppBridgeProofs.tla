---------------------------- MODULE SppBridgeProofs ----------------------------
(***************************************************************************)
(* The SPP bridge, for any number of clients, slots and messages, queues   *)
(* of any length, any ring and any traffic.  In the order of the proofs: a *)
(* queue that is in the table is initialised; the reader gets the bytes of *)
(* the UART in order; the counts of the messages are their references, and *)
(* what is allocated is what somebody has; types; and the bytes reach each *)
(* socket in order.                                                        *)
(***************************************************************************)
EXTENDS SppBridge, FiniteSetTheorems, WellFoundedInduction, TLAPS

Steps == UartSteps \cup ClientSteps
ThreadRecords == [step : Steps, msg : SUBSET Messages, loaded : Int, rest : SUBSET SlotIds, ending : BOOLEAN]

\* Types, of what the properties of the queues depend on.
TypeInv ==
    /\ thread \in [Threads -> ThreadRecords]
    /\ table \in [SlotIds -> Clients \cup {NoQueue}]
    /\ queue \in [Clients -> Seq(Messages)]
    /\ ref \in [Messages -> Int]
    /\ sockLen \in Int

\* A client that has a queue, and has not begun to leave, by its step and locals.
InTable(local) == local.step \in ClientSteps \ {"off", "draining"} /\ ~local.ending

Pushing == thread[Uart].step \in FreeSteps \cup {"next", "take", "push"}

\* Who is in the table, who has a queue; and what the UART's thread has still to push to is in the
\* table, for it holds the mutex without which nobody leaves.
TableInv ==
    /\ \A s \in SlotIds : table[s] # NoQueue => InTable(thread[table[s]])
    /\ \A r, s \in SlotIds : r # s /\ table[r] = table[s] => table[r] = NoQueue
    /\ \A c \in Clients : IF thread[c].step = "off" THEN ~thread[c].ending ELSE c \in open
    /\ \A c \in Clients \ open : queue[c] = << >>
    /\ Pushing => mutex = {Uart} /\ \A s \in thread[Uart].rest : table[s] # NoQueue
    /\ thread[Uart].step \in {"take", "push"} => thread[Uart].rest # {}

IInv == TypeInv /\ TableInv
-----------------------------------------------------------------------------
\* The order of the numbers, as the library's theorem on least elements takes it.
Below == {ss \in Nat \X Nat : ss[1] < ss[2]}

LEMMA BelowIsWellFounded == IsWellFoundedOn(Below, Nat)
<1>1. OpToRel(<, Nat) = Below
  BY Zenon DEF OpToRel, Below
<1> QED BY <1>1, NatLessThanWellFounded, Zenon

\* A set of numbers that is not empty has a least one: the first entry of a table that fits.
LEMMA LeastExists ==
    ASSUME NEW F \in SUBSET Nat, F # {}
    PROVE  (CHOOSE s \in F : \A f \in F : s <= f) \in F
<1>1. PICK s \in F : \A f \in F : ~ (<<f, s>> \in Below)
  BY BelowIsWellFounded, WFMin
<1>2. ASSUME NEW f \in F PROVE s <= f
  <2>1. f \in Nat /\ s \in Nat
    OBVIOUS
  <2>2. f < s => <<f, s>> \in Below
    BY <2>1 DEF Below
  <2> QED BY <1>1, <2>1, <2>2
<1> QED BY <1>2
-----------------------------------------------------------------------------
(* Assignments to the locals of a thread *)

LEMMA EditLoaded ==
    ASSUME NEW o \in [Threads -> ThreadRecords], NEW t \in Threads, NEW x \in Steps, NEW n \in Int
    PROVE  [o EXCEPT ![t].step = x, ![t].loaded = n] \in [Threads -> ThreadRecords]
BY Zenon DEF ThreadRecords

LEMMA EditMsg ==
    ASSUME NEW o \in [Threads -> ThreadRecords], NEW t \in Threads, NEW x \in Steps, NEW m \in SUBSET Messages
    PROVE  [o EXCEPT ![t].step = x, ![t].msg = m] \in [Threads -> ThreadRecords]
BY Zenon DEF ThreadRecords

LEMMA EditRest ==
    ASSUME NEW o \in [Threads -> ThreadRecords], NEW t \in Threads, NEW x \in Steps, NEW r \in SUBSET SlotIds
    PROVE  /\ [o EXCEPT ![t].step = x, ![t].rest = r] \in [Threads -> ThreadRecords]
           /\ [o EXCEPT ![t].rest = r, ![t].step = x] \in [Threads -> ThreadRecords]
BY Zenon DEF ThreadRecords

LEMMA EditEnding ==
    ASSUME NEW o \in [Threads -> ThreadRecords], NEW t \in Threads, NEW x \in Steps, NEW b \in BOOLEAN
    PROVE  [o EXCEPT ![t].step = x, ![t].ending = b] \in [Threads -> ThreadRecords]
BY Zenon DEF ThreadRecords

LEMMA EditStep ==
    ASSUME NEW o \in [Threads -> ThreadRecords], NEW t \in Threads, NEW x \in Steps
    PROVE  [o EXCEPT ![t].step = x] \in [Threads -> ThreadRecords]
BY Zenon DEF ThreadRecords

LEMMA EditAll ==
    ASSUME NEW o \in [Threads -> ThreadRecords], NEW t \in Threads, NEW x \in Steps
    PROVE  /\ [o EXCEPT ![t] = AtRest(x)] \in [Threads -> ThreadRecords]
           /\ [o EXCEPT ![t] = Draining] \in [Threads -> ThreadRecords]
<1>1. AtRest(x) \in ThreadRecords
  BY DEF AtRest, ThreadRecords
<1>2. Draining \in ThreadRecords
  BY DEF Draining, ThreadRecords, Steps, ClientSteps
<1> QED BY <1>1, <1>2
-----------------------------------------------------------------------------
(* Types *)

\* The caller of socket_msg_free goes on.
LEMMA FreedType ==
    ASSUME TypeInv, NEW t \in Threads
    PROVE  Freed(t) \in [Threads -> ThreadRecords]
<1>1. "unlock" \in Steps /\ "next" \in Steps /\ "serving" \in Steps
  BY DEF Steps, UartSteps, ClientSteps
<1>2. thread \in [Threads -> ThreadRecords]
  BY DEF TypeInv
<1>3. /\ [thread EXCEPT ![t] = AtRest("unlock")] \in [Threads -> ThreadRecords]
      /\ [thread EXCEPT ![t] = AtRest("serving")] \in [Threads -> ThreadRecords]
      /\ [thread EXCEPT ![t] = Draining] \in [Threads -> ThreadRecords]
  BY <1>1, <1>2, EditAll
<1>4. [thread EXCEPT ![t].step = "next", ![t].loaded = 0] \in [Threads -> ThreadRecords]
  <2>1. 0 \in Int
    OBVIOUS
  <2> QED BY <1>1, <1>2, <2>1, EditLoaded, Zenon
<1>5. \/ Freed(t) = [thread EXCEPT ![t] = AtRest("unlock")]
      \/ Freed(t) = [thread EXCEPT ![t] = AtRest("serving")]
      \/ Freed(t) = [thread EXCEPT ![t] = Draining]
      \/ Freed(t) = [thread EXCEPT ![t].step = "next", ![t].loaded = 0]
  BY Zenon DEF Freed
<1> QED BY <1>3, <1>4, <1>5, Zenon

LEMMA FreeStepType == ASSUME TypeInv, NEW t \in Threads, FreeStep(t) PROVE TypeInv'
<1>1. FreeSteps \subseteq Steps
  BY DEF Steps, ClientSteps
<1>2. {"decrement", "test", "size", "release"} \subseteq FreeSteps
  BY DEF FreeSteps
<1>3. thread \in [Threads -> ThreadRecords] /\ thread[t].msg \subseteq Messages /\ thread[t].loaded \in Int
  BY DEF TypeInv, ThreadRecords
<1>4. CASE FreeLoad(t)
  <2>1. PICK m \in thread[t].msg : thread' = [thread EXCEPT ![t].step = "decrement", ![t].loaded = ref[m]]
    BY <1>4 DEF FreeLoad
  <2>2. ref[m] \in Int
    BY <1>3 DEF TypeInv
  <2>3. thread' \in [Threads -> ThreadRecords]
    BY <1>1, <1>2, <1>3, <2>1, <2>2, EditLoaded
  <2> QED BY <1>4, <2>3 DEF FreeLoad, TypeInv
<1>5. CASE FreeStore(t)
  <2>1. PICK m \in thread[t].msg : ref' = [ref EXCEPT ![m] = thread[t].loaded - 1]
    BY <1>5 DEF FreeStore
  <2>2. ref' \in [Messages -> Int]
    BY <1>3, <2>1 DEF TypeInv
  <2>3. \/ thread' = [thread EXCEPT ![t].step = "size", ![t].loaded = 0]
        \/ thread' = Freed(t)
        \/ thread' = [thread EXCEPT ![t].step = "test", ![t].loaded = 0]
    BY <1>5 DEF FreeStore
  <2>4. "size" \in Steps /\ "test" \in Steps /\ 0 \in Int
    BY <1>1, <1>2
  <2>5. /\ [thread EXCEPT ![t].step = "size", ![t].loaded = 0] \in [Threads -> ThreadRecords]
        /\ [thread EXCEPT ![t].step = "test", ![t].loaded = 0] \in [Threads -> ThreadRecords]
    BY <1>3, <2>4, EditLoaded, Zenon
  <2>6. thread' \in [Threads -> ThreadRecords]
    BY <2>3, <2>5, FreedType, Zenon
  <2> QED BY <1>5, <2>2, <2>6 DEF FreeStore, TypeInv
<1>6. CASE FreeTest(t)
  <2>1. thread' = [thread EXCEPT ![t].step = "size"] \/ thread' = Freed(t)
    BY <1>6 DEF FreeTest
  <2>2. thread' \in [Threads -> ThreadRecords]
    BY <1>1, <1>2, <1>3, <2>1, EditStep, FreedType
  <2> QED BY <1>6, <2>2 DEF FreeTest, TypeInv
<1>7. CASE SizeLoad(t)
  <2>1. thread' \in [Threads -> ThreadRecords]
    BY <1>1, <1>2, <1>3, <1>7, EditLoaded DEF SizeLoad, TypeInv
  <2> QED BY <1>7, <2>1 DEF SizeLoad, TypeInv
<1>8. CASE SizeStore(t)
  <2>1. thread' \in [Threads -> ThreadRecords] /\ sockLen' \in Int
    BY <1>3, <1>8, FreedType DEF SizeStore
  <2> QED BY <1>8, <2>1 DEF SizeStore, TypeInv
<1> QED BY <1>4, <1>5, <1>6, <1>7, <1>8 DEF FreeStep

LEMMA UartStepType ==
    ASSUME TypeInv, SppAssumption, UartStep \/ \E m \in Messages : Allocate(m)
    PROVE  TypeInv'
<1>1. Uart \in Threads /\ 0 \in Int /\ TRUE \in BOOLEAN
  BY DEF Threads
<1>2. UartSteps \subseteq Steps
  BY DEF Steps
<1>3. {"idle", "count", "counted", "lock", "next", "take", "push", "free"} \subseteq UartSteps
  BY DEF UartSteps, FreeSteps
<1>4. /\ thread \in [Threads -> ThreadRecords]
      /\ thread[Uart].loaded \in Int /\ thread[Uart].rest \subseteq SlotIds
      /\ thread[Uart].msg \subseteq Messages
  BY <1>1 DEF TypeInv, ThreadRecords
<1>5. CASE \E m \in Messages : Allocate(m)
  <2>1. PICK m \in Messages : Allocate(m)
    BY <1>5
  <2>2. {m} \in SUBSET Messages /\ "count" \in Steps
    BY <1>2, <1>3
  <2>3. [thread EXCEPT ![Uart].step = "count", ![Uart].msg = {m}] \in [Threads -> ThreadRecords]
    BY <1>1, <1>4, <2>2, EditMsg, Zenon
  <2>4. ref' \in [Messages -> Int] /\ thread' \in [Threads -> ThreadRecords]
    BY <1>1, <2>1, <2>3 DEF Allocate, TypeInv
  <2> QED BY <2>1, <2>4 DEF Allocate, TypeInv
<1>6. CASE CountLoad
  <2>1. "counted" \in Steps /\ sockLen \in Int
    BY <1>2, <1>3 DEF TypeInv
  <2>2. [thread EXCEPT ![Uart].step = "counted", ![Uart].loaded = sockLen] \in [Threads -> ThreadRecords]
    BY <1>1, <1>4, <2>1, EditLoaded, Zenon
  <2> QED BY <1>6, <2>2 DEF CountLoad, TypeInv
<1>7. CASE CountStore
  <2>1. "lock" \in Steps
    BY <1>2, <1>3
  <2>2. [thread EXCEPT ![Uart].step = "lock", ![Uart].loaded = 0] \in [Threads -> ThreadRecords]
    BY <1>1, <1>4, <2>1, EditLoaded, Zenon
  <2> QED BY <1>4, <1>7, <2>2 DEF CountStore, TypeInv
<1>8. CASE Lock
  <2>1. "next" \in Steps /\ {s \in SlotIds : table[s] # NoQueue} \in SUBSET SlotIds
    BY <1>2, <1>3
  <2>2. [thread EXCEPT ![Uart].step = "next", ![Uart].rest = {s \in SlotIds : table[s] # NoQueue}]
          \in [Threads -> ThreadRecords]
    BY <1>1, <1>4, <2>1, EditRest, Zenon
  <2> QED BY <1>8, <2>2 DEF Lock, TypeInv
<1>9. CASE NextSlot
  <2>1. PICK m \in thread[Uart].msg :
          \/ thread' = [thread EXCEPT ![Uart].step = "free", ![Uart].ending = TRUE]
          \/ thread' = [thread EXCEPT ![Uart].step = "take", ![Uart].loaded = ref[m]]
    BY <1>9 DEF NextSlot
  <2>2. ref[m] \in Int /\ "free" \in Steps /\ "take" \in Steps
    BY <1>2, <1>3, <1>4 DEF TypeInv
  <2>3. [thread EXCEPT ![Uart].step = "free", ![Uart].ending = TRUE] \in [Threads -> ThreadRecords]
    BY <1>1, <1>4, <2>2, EditEnding, Zenon
  <2>4. [thread EXCEPT ![Uart].step = "take", ![Uart].loaded = ref[m]] \in [Threads -> ThreadRecords]
    BY <1>1, <1>4, <2>2, EditLoaded, Zenon
  <2>5. thread' \in [Threads -> ThreadRecords]
    BY <2>1, <2>3, <2>4, Zenon
  <2> QED BY <1>9, <2>5 DEF NextSlot, TypeInv
<1>10. CASE TakeStore
  <2>1. "push" \in Steps
    BY <1>2, <1>3
  <2>2. [thread EXCEPT ![Uart].step = "push", ![Uart].loaded = 0] \in [Threads -> ThreadRecords]
    BY <1>1, <1>4, <2>1, EditLoaded, Zenon
  <2> QED BY <1>4, <1>10, <2>2 DEF TakeStore, TypeInv
<1>11. CASE Push
  <2> DEFINE s == Min(thread[Uart].rest)
  <2> DEFINE fits == Len(queue[table[s]]) < QueueLength
  <2>1. PICK m \in thread[Uart].msg :
          queue' = IF fits THEN [queue EXCEPT ![table[s]] = Append(@, m)] ELSE queue
    BY <1>11 DEF Push
  <2>2. m \in Messages
    BY <1>4
  <2>3. queue' \in [Clients -> Seq(Messages)]
    <3> HIDE DEF s, fits
    <3>1. queue \in [Clients -> Seq(Messages)]
      BY DEF TypeInv
    <3>2. ASSUME NEW c \in Clients PROVE Append(queue[c], m) \in Seq(Messages)
      BY <2>2, <3>1
    <3> QED BY <2>1, <3>1, <3>2
  <2>4. thread[Uart].rest \ {s} \in SUBSET SlotIds
    BY <1>4
  <2>5. (IF fits THEN "next" ELSE "free") \in Steps
    BY <1>2, <1>3
  <2>6. thread' = [thread EXCEPT ![Uart].rest = thread[Uart].rest \ {s}, ![Uart].step = IF fits THEN "next" ELSE "free"]
    BY <1>1, <1>4, <1>11 DEF Push
  <2>7. thread' \in [Threads -> ThreadRecords]
    <3> HIDE DEF s, fits
    <3> QED BY <1>1, <1>4, <2>4, <2>5, <2>6, EditRest, Zenon
  <2> QED BY <1>11, <2>3, <2>7 DEF Push, TypeInv
<1>12. CASE Unlock
  <2>1. "idle" \in Steps
    BY <1>2, <1>3
  <2>2. [thread EXCEPT ![Uart] = AtRest("idle")] \in [Threads -> ThreadRecords]
    BY <1>1, <1>4, <2>1, EditAll, Zenon
  <2> QED BY <1>12, <2>2 DEF Unlock, TypeInv
<1>13. CASE FreeStep(Uart)
  BY <1>1, <1>13, FreeStepType
<1> QED BY <1>5, <1>6, <1>7, <1>8, <1>9, <1>10, <1>11, <1>12, <1>13 DEF UartStep

LEMMA ClientStepType ==
    ASSUME TypeInv, SppAssumption, NEW c \in Clients, ClientStep(c) \/ Write(c)
    PROVE  TypeInv'
<1>1. c \in Threads
  BY DEF Threads
<1>2. {"off", "serving", "holding", "draining", "free"} \subseteq Steps
  BY DEF Steps, ClientSteps, FreeSteps
<1>3. thread \in [Threads -> ThreadRecords]
  BY DEF TypeInv
<1>4. /\ [thread EXCEPT ![c].step = "serving"] \in [Threads -> ThreadRecords]
      /\ [thread EXCEPT ![c].step = "free"] \in [Threads -> ThreadRecords]
      /\ [thread EXCEPT ![c] = Draining] \in [Threads -> ThreadRecords]
      /\ [thread EXCEPT ![c] = AtRest("off")] \in [Threads -> ThreadRecords]
  BY <1>1, <1>2, <1>3, EditStep, EditAll
<1>5. CASE Create(c)
  <2>1. table' \in [SlotIds -> Clients \cup {NoQueue}]
    BY <1>5 DEF Create, TypeInv
  <2> QED BY <1>4, <1>5, <2>1 DEF Create, Goto, TypeInv
<1>6. CASE Pop(c)
  <2>1. queue[c] \in Seq(Messages) /\ queue[c] # << >>
    BY <1>6 DEF Pop, TypeInv
  <2>2. {Head(queue[c])} \in SUBSET Messages /\ Tail(queue[c]) \in Seq(Messages)
    BY <2>1
  <2>3. queue' \in [Clients -> Seq(Messages)]
    BY <1>6, <2>2 DEF Pop, TypeInv
  <2>4. (IF thread[c].step = "serving" THEN "holding" ELSE "free") \in Steps
    BY <1>2
  <2>5. thread' = [thread EXCEPT ![c].step = IF thread[c].step = "serving" THEN "holding" ELSE "free",
                                 ![c].msg = {Head(queue[c])}]
    BY <1>1, <1>3, <1>6 DEF Pop
  <2>6. thread' \in [Threads -> ThreadRecords]
    BY <1>1, <1>3, <2>2, <2>4, <2>5, EditMsg, Zenon
  <2> QED BY <1>6, <2>3, <2>6 DEF Pop, TypeInv
<1>7. CASE Write(c)
  BY <1>4, <1>7 DEF Write, Goto, TypeInv
<1>8. CASE Leave(c)
  <2>1. table' \in [SlotIds -> Clients \cup {NoQueue}]
    BY <1>8 DEF Leave, TypeInv
  <2> QED BY <1>4, <1>8, <2>1 DEF Leave, TypeInv
<1>9. CASE Deinit(c)
  BY <1>4, <1>9 DEF Deinit, TypeInv
<1>10. CASE FreeStep(c)
  BY <1>1, <1>10, FreeStepType
<1> QED BY <1>5, <1>6, <1>7, <1>8, <1>9, <1>10 DEF ClientStep
-----------------------------------------------------------------------------
(* The table and the queues *)

\* socket_msg_free touches neither, and its caller goes on in the table, or leaving it, as it was.
LEMMA FreeStepEffect ==
    ASSUME TypeInv, SppAssumption, NEW t \in Threads, FreeStep(t)
    PROVE  /\ UNCHANGED <<table, open, queue, mutex>>
           /\ thread[t].step \in FreeSteps
           /\ \A o \in Threads \ {t} : thread'[o] = thread[o]
           /\ t # Uart => thread'[t].step # "off" /\ (InTable(thread[t]) => InTable(thread'[t]))
           /\ t = Uart => /\ thread'[t].step \notin {"take", "push"}
                         /\ thread'[t].rest \subseteq thread[t].rest
<1>1. thread \in [Threads -> ThreadRecords]
  BY DEF TypeInv
<1>2. UNCHANGED <<table, open, queue, mutex>> /\ thread[t].step \in FreeSteps
  BY DEF FreeStep, FreeLoad, FreeStore, FreeTest, SizeLoad, SizeStore, FreeSteps
<1>3. \/ thread' = Freed(t)
      \/ \E x \in FreeSteps, n \in Int : thread' = [thread EXCEPT ![t].step = x, ![t].loaded = n]
      \/ \E x \in FreeSteps : thread' = [thread EXCEPT ![t].step = x]
  <2>1. {"decrement", "test", "size", "release"} \subseteq FreeSteps /\ 0 \in Int
    BY DEF FreeSteps
  <2>2. thread[t].msg \subseteq Messages /\ sockLen \in Int
    BY <1>1 DEF TypeInv, ThreadRecords
  <2>3. CASE FreeLoad(t)
    <3>1. PICK m \in thread[t].msg : thread' = [thread EXCEPT ![t].step = "decrement", ![t].loaded = ref[m]]
      BY <2>3 DEF FreeLoad
    <3>2. ref[m] \in Int /\ "decrement" \in FreeSteps
      BY <2>1, <2>2 DEF TypeInv
    <3> QED BY <3>1, <3>2, Zenon
  <2>4. CASE FreeStore(t)
    <3>1. \/ thread' = [thread EXCEPT ![t].step = "size", ![t].loaded = 0]
          \/ thread' = Freed(t)
          \/ thread' = [thread EXCEPT ![t].step = "test", ![t].loaded = 0]
      BY <2>4 DEF FreeStore
    <3>2. "size" \in FreeSteps /\ "test" \in FreeSteps
      BY <2>1
    <3> QED BY <2>1, <3>1, <3>2, Zenon
  <2>5. CASE FreeTest(t)
    <3>1. thread' = [thread EXCEPT ![t].step = "size"] \/ thread' = Freed(t)
      BY <2>5 DEF FreeTest
    <3>2. "size" \in FreeSteps
      BY <2>1
    <3> QED BY <3>1, <3>2, Zenon
  <2>6. CASE SizeLoad(t)
    <3>1. thread' = [thread EXCEPT ![t].step = "release", ![t].loaded = sockLen] /\ "release" \in FreeSteps
      BY <2>1, <2>6 DEF SizeLoad
    <3> QED BY <2>2, <3>1, Zenon
  <2>7. CASE SizeStore(t)
    BY <2>7 DEF SizeStore
  <2> QED BY <2>3, <2>4, <2>5, <2>6, <2>7 DEF FreeStep
<1>4. CASE thread' = Freed(t)
  <2>1. CASE t = Uart /\ thread[t].ending
    <3>1. thread' = [thread EXCEPT ![t] = AtRest("unlock")]
      BY <1>4, <2>1 DEF Freed
    <3> QED BY <1>1, <1>2, <2>1, <3>1 DEF AtRest
  <2>2. CASE t = Uart /\ ~thread[t].ending
    <3>1. thread' = [thread EXCEPT ![t].step = "next", ![t].loaded = 0]
      BY <1>4, <2>2 DEF Freed
    <3> QED BY <1>1, <1>2, <2>2, <3>1 DEF ThreadRecords
  <2>3. CASE t # Uart /\ thread[t].ending
    <3>1. thread' = [thread EXCEPT ![t] = Draining]
      BY <1>4, <2>3 DEF Freed
    <3> QED BY <1>1, <1>2, <2>3, <3>1 DEF Draining, InTable
  <2>4. CASE t # Uart /\ ~thread[t].ending
    <3>1. thread' = [thread EXCEPT ![t] = AtRest("serving")]
      BY <1>4, <2>4 DEF Freed
    <3> QED BY <1>1, <1>2, <2>4, <3>1 DEF AtRest, InTable, ClientSteps
  <2> QED BY <2>1, <2>2, <2>3, <2>4
<1>5. ASSUME NEW x \in FreeSteps,
             \/ \E n \in Int : thread' = [thread EXCEPT ![t].step = x, ![t].loaded = n]
             \/ thread' = [thread EXCEPT ![t].step = x]
      PROVE  /\ \A o \in Threads \ {t} : thread'[o] = thread[o]
             /\ thread'[t].step = x /\ thread'[t].ending = thread[t].ending
             /\ thread'[t].rest = thread[t].rest
  BY <1>1, <1>5 DEF ThreadRecords
<1>6. ASSUME NEW x \in FreeSteps
      PROVE  x \notin {"off", "draining", "take", "push"} /\ x \in ClientSteps
  BY DEF FreeSteps, ClientSteps
<1>7. CASE \E x \in FreeSteps : \/ \E n \in Int : thread' = [thread EXCEPT ![t].step = x, ![t].loaded = n]
                               \/ thread' = [thread EXCEPT ![t].step = x]
  <2>1. PICK x \in FreeSteps : \/ \E n \in Int : thread' = [thread EXCEPT ![t].step = x, ![t].loaded = n]
                               \/ thread' = [thread EXCEPT ![t].step = x]
    BY <1>7
  <2>2. /\ \A o \in Threads \ {t} : thread'[o] = thread[o]
        /\ thread'[t].step = x /\ thread'[t].ending = thread[t].ending
        /\ thread'[t].rest = thread[t].rest
    BY <1>5, <2>1
  <2>3. x \notin {"off", "draining", "take", "push"} /\ x \in ClientSteps
    BY <1>6
  <2> QED BY <1>2, <2>2, <2>3 DEF InTable
<1> QED BY <1>3, <1>4, <1>7

LEMMA FreeStepTable == ASSUME IInv, SppAssumption, NEW t \in Threads, FreeStep(t) PROVE TableInv'
<1>1. /\ UNCHANGED <<table, open, queue, mutex>>
      /\ thread[t].step \in FreeSteps
      /\ \A o \in Threads \ {t} : thread'[o] = thread[o]
      /\ t # Uart => thread'[t].step # "off" /\ (InTable(thread[t]) => InTable(thread'[t]))
      /\ t = Uart => /\ thread'[t].step \notin {"take", "push"}
                    /\ thread'[t].rest \subseteq thread[t].rest
  BY FreeStepEffect DEF IInv
<1>2. Uart \notin Clients /\ Clients \subseteq Threads /\ Uart \in Threads /\ NoQueue \notin Clients
  BY DEF SppAssumption, Threads
<1>3. ASSUME NEW c \in Clients PROVE /\ InTable(thread[c]) => InTable(thread'[c])
                                     /\ thread[c].step = "off" => thread'[c] = thread[c]
                                     /\ thread'[c].step = "off" => thread[c].step = "off"
  <2>1. CASE c = t
    BY <1>1, <1>2, <2>1 DEF FreeSteps
  <2>2. CASE c # t
    BY <1>1, <1>2, <2>2 DEF InTable
  <2> QED BY <2>1, <2>2
<1>4. /\ \A s \in SlotIds : table'[s] # NoQueue => InTable(thread'[table'[s]])
      /\ \A r, s \in SlotIds : r # s /\ table'[r] = table'[s] => table'[r] = NoQueue
      /\ \A c \in Clients : IF thread'[c].step = "off" THEN ~thread'[c].ending ELSE c \in open'
      /\ \A c \in Clients \ open' : queue'[c] = << >>
  <2>1. ASSUME NEW s \in SlotIds, table[s] # NoQueue PROVE InTable(thread'[table[s]])
    <3>1. table[s] \in Clients /\ InTable(thread[table[s]])
      BY <2>1 DEF IInv, TypeInv, TableInv
    <3> QED BY <1>3, <3>1
  <2> QED BY <1>1, <1>3, <2>1 DEF IInv, TableInv
<1>5. Pushing' => mutex' = {Uart} /\ \A s \in thread'[Uart].rest : table'[s] # NoQueue
  <2>1. CASE t = Uart
    BY <1>1, <2>1 DEF IInv, TableInv, Pushing
  <2>2. CASE t # Uart
    BY <1>1, <1>2, <2>2 DEF IInv, TableInv, Pushing
  <2> QED BY <2>1, <2>2
<1>6. thread'[Uart].step \in {"take", "push"} => thread'[Uart].rest # {}
  BY <1>1, <1>2 DEF IInv, TableInv
<1> QED BY <1>4, <1>5, <1>6 DEF TableInv

LEMMA UartStepTable ==
    ASSUME IInv, SppAssumption, UartStep \/ \E m \in Messages : Allocate(m)
    PROVE  TableInv'
<1>1. Uart \notin Clients /\ Clients \subseteq Threads /\ Uart \in Threads /\ NoQueue \notin Clients
  BY DEF SppAssumption, Threads
<1>2. thread \in [Threads -> ThreadRecords] /\ thread[Uart].rest \subseteq SlotIds
  BY <1>1 DEF IInv, TypeInv, ThreadRecords
<1>3. ASSUME UNCHANGED <<table, open>>,
             \A o \in Clients : thread'[o] = thread[o],
             \A c \in Clients \ open : queue'[c] = << >>,
             Pushing' => mutex' = {Uart} /\ \A s \in thread'[Uart].rest : table[s] # NoQueue,
             thread'[Uart].step \in {"take", "push"} => thread'[Uart].rest # {}
      PROVE  TableInv'
  <2>1. ASSUME NEW s \in SlotIds, table[s] # NoQueue PROVE InTable(thread'[table[s]])
    <3>1. table[s] \in Clients /\ InTable(thread[table[s]])
      BY <2>1 DEF IInv, TypeInv, TableInv
    <3> QED BY <1>3, <3>1
  <2> QED BY <1>3, <2>1 DEF IInv, TableInv
<1>4. ASSUME UNCHANGED <<table, open, queue>>,
             \A o \in Clients : thread'[o] = thread[o],
             ~Pushing'
      PROVE  TableInv'
  <2>1. thread'[Uart].step \notin {"take", "push"}
    BY <1>4 DEF Pushing
  <2> QED BY <1>3, <1>4, <2>1 DEF IInv, TableInv
<1>5. CASE \E m \in Messages : Allocate(m)
  <2>1. PICK m \in Messages : Allocate(m)
    BY <1>5
  <2>2. thread' = [thread EXCEPT ![Uart].step = "count", ![Uart].msg = {m}]
    BY <2>1 DEF Allocate
  <2>3. thread'[Uart].step = "count" /\ \A o \in Clients : thread'[o] = thread[o]
    BY <1>1, <1>2, <2>2 DEF ThreadRecords
  <2> QED BY <1>4, <2>1, <2>3 DEF Allocate, Pushing, FreeSteps
<1>6. CASE CountLoad
  <2>1. thread'[Uart].step = "counted" /\ \A o \in Clients : thread'[o] = thread[o]
    BY <1>1, <1>2, <1>6 DEF CountLoad, ThreadRecords
  <2> QED BY <1>4, <1>6, <2>1 DEF CountLoad, Pushing, FreeSteps
<1>7. CASE CountStore
  <2>1. thread'[Uart].step = "lock" /\ \A o \in Clients : thread'[o] = thread[o]
    BY <1>1, <1>2, <1>7 DEF CountStore, ThreadRecords
  <2> QED BY <1>4, <1>7, <2>1 DEF CountStore, Pushing, FreeSteps
<1>8. CASE Lock
  <2>1. /\ thread'[Uart].step = "next" /\ thread'[Uart].rest = {s \in SlotIds : table[s] # NoQueue}
        /\ \A o \in Clients : thread'[o] = thread[o]
    BY <1>1, <1>2, <1>8 DEF Lock, ThreadRecords
  <2>2. mutex' = {Uart} /\ UNCHANGED <<table, open, queue>>
    BY <1>8 DEF Lock
  <2> QED BY <1>3, <2>1, <2>2 DEF IInv, TableInv
<1>9. CASE NextSlot
  <2>1. /\ \A o \in Clients : thread'[o] = thread[o]
        /\ thread'[Uart].rest = thread[Uart].rest
        /\ thread'[Uart].step = "take" => thread[Uart].rest # {}
        /\ thread'[Uart].step \in {"free", "take"}
    BY <1>1, <1>2, <1>9 DEF NextSlot, ThreadRecords
  <2>2. Pushing /\ UNCHANGED <<table, open, queue, mutex>>
    BY <1>9 DEF NextSlot, Pushing
  <2> QED BY <1>3, <2>1, <2>2 DEF IInv, TableInv
<1>10. CASE TakeStore
  <2>1. /\ \A o \in Clients : thread'[o] = thread[o]
        /\ thread'[Uart].rest = thread[Uart].rest
    BY <1>1, <1>2, <1>10 DEF TakeStore, ThreadRecords
  <2>2. Pushing /\ thread[Uart].rest # {} /\ UNCHANGED <<table, open, queue, mutex>>
    BY <1>10 DEF TakeStore, Pushing, IInv, TableInv
  <2> QED BY <1>3, <2>1, <2>2 DEF IInv, TableInv
<1>11. CASE Push
  <2> DEFINE s == Min(thread[Uart].rest)
  <2>1. Pushing /\ thread[Uart].rest # {} /\ UNCHANGED <<table, open, mutex>>
    BY <1>11 DEF Push, Pushing, IInv, TableInv
  <2>2. /\ \A o \in Clients : thread'[o] = thread[o]
        /\ thread'[Uart].rest \subseteq thread[Uart].rest
        /\ thread'[Uart].step \in {"next", "free"}
    BY <1>1, <1>2, <1>11 DEF Push, ThreadRecords
  <2>3. s \in thread[Uart].rest
    <3>1. thread[Uart].rest \in SUBSET Nat
      BY <1>2 DEF SlotIds, SppAssumption
    <3> QED BY <2>1, <3>1, LeastExists, Zenon DEF Min
  <2>4. table[s] \in open
    <3>1. table[s] \in Clients /\ InTable(thread[table[s]])
      BY <1>2, <2>1, <2>3 DEF IInv, TypeInv, TableInv
    <3> QED BY <3>1 DEF IInv, TableInv, InTable
  <2>5. \A c \in Clients \ open : queue'[c] = << >>
    <3>1. \A c \in Clients \ open : queue'[c] = queue[c]
      <4>1. \/ queue' = queue
            \/ \E x : queue' = [queue EXCEPT ![table[s]] = x]
        BY <1>11, Zenon DEF Push
      <4>2. queue \in [Clients -> Seq(Messages)]
        BY DEF IInv, TypeInv
      <4> HIDE DEF s
      <4> QED BY <2>4, <4>1, <4>2
    <3> QED BY <3>1 DEF IInv, TableInv
  <2>6. mutex' = {Uart} /\ \A r \in thread'[Uart].rest : table[r] # NoQueue
    BY <2>1, <2>2 DEF IInv, TableInv
  <2>7. thread'[Uart].step \notin {"take", "push"}
    BY <2>2
  <2> QED BY <1>3, <2>1, <2>2, <2>5, <2>6, <2>7
<1>12. CASE Unlock
  <2>1. thread'[Uart].step = "idle" /\ \A o \in Clients : thread'[o] = thread[o]
    BY <1>1, <1>2, <1>12 DEF Unlock, AtRest
  <2> QED BY <1>4, <1>12, <2>1 DEF Unlock, Pushing, FreeSteps
<1>13. CASE FreeStep(Uart)
  BY <1>1, <1>13, FreeStepTable
<1> QED BY <1>5, <1>6, <1>7, <1>8, <1>9, <1>10, <1>11, <1>12, <1>13 DEF UartStep

LEMMA ClientStepTable ==
    ASSUME IInv, SppAssumption, NEW c \in Clients, ClientStep(c) \/ Write(c)
    PROVE  TableInv'
<1>1. Uart \notin Clients /\ Clients \subseteq Threads /\ c \in Threads /\ Uart \in Threads /\ NoQueue \notin Clients
  BY DEF SppAssumption, Threads
<1>2. thread \in [Threads -> ThreadRecords]
  BY DEF IInv, TypeInv
<1>3. CASE FreeStep(c)
  BY <1>1, <1>3, FreeStepTable
<1>4. ASSUME \A o \in Threads \ {c} : thread'[o] = thread[o],
             \/ UNCHANGED <<table, mutex>>
             \/ mutex = {} /\ UNCHANGED mutex
      PROVE  /\ Pushing' => mutex' = {Uart} /\ \A s \in thread'[Uart].rest : table'[s] # NoQueue
             /\ thread'[Uart].step \in {"take", "push"} => thread'[Uart].rest # {}
  <2>1. thread'[Uart] = thread[Uart]
    BY <1>1, <1>4
  <2>2. ~Pushing \/ UNCHANGED <<table, mutex>>
    BY <1>4 DEF IInv, TableInv
  <2> QED BY <2>1, <2>2 DEF IInv, TableInv, Pushing
<1>5. ASSUME UNCHANGED <<table, open, mutex>>,
             \A o \in Threads \ {c} : thread'[o] = thread[o],
             thread[c].step # "off",
             thread'[c].step # "off",
             InTable(thread[c]) => InTable(thread'[c]),
             \A o \in Clients \ open : queue'[o] = << >>
      PROVE  TableInv'
  <2>1. ASSUME NEW s \in SlotIds, table[s] # NoQueue PROVE InTable(thread'[table[s]])
    <3>1. table[s] \in Clients /\ InTable(thread[table[s]])
      BY <2>1 DEF IInv, TypeInv, TableInv
    <3>2. CASE table[s] = c
      BY <1>5, <3>1, <3>2
    <3>3. CASE table[s] # c
      <4>1. thread'[table[s]] = thread[table[s]]
        BY <1>1, <1>5, <3>1, <3>3
      <4> QED BY <3>1, <4>1
    <3> QED BY <3>2, <3>3
  <2>2. \A o \in Clients : IF thread'[o].step = "off" THEN ~thread'[o].ending ELSE o \in open'
    BY <1>1, <1>5 DEF IInv, TableInv
  <2>3. \A r, s \in SlotIds : r # s /\ table'[r] = table'[s] => table'[r] = NoQueue
    BY <1>5 DEF IInv, TableInv
  <2> QED BY <1>4, <1>5, <2>1, <2>2, <2>3 DEF TableInv
<1>6. CASE Create(c)
  <2>1. PICK n \in SlotIds : table[n] = NoQueue /\ table' = [table EXCEPT ![n] = c]
    BY <1>6 DEF Create
  <2>2. /\ thread'[c].step = "serving" /\ thread'[c].ending = thread[c].ending
        /\ \A o \in Threads \ {c} : thread'[o] = thread[o]
    BY <1>1, <1>2, <1>6 DEF Create, Goto, ThreadRecords
  <2>3. thread[c].step = "off" /\ ~thread[c].ending /\ open' = open \cup {c} /\ UNCHANGED <<queue, mutex>> /\ mutex = {}
    BY <1>6 DEF Create, IInv, TableInv
  <2>4. /\ table'[n] = c
        /\ \A s \in SlotIds \ {n} : table'[s] = table[s] /\ table[s] # c
    <3>1. \A s \in SlotIds : table[s] # c
      BY <1>1, <2>3 DEF IInv, TableInv, InTable
    <3>2. table \in [SlotIds -> Clients \cup {NoQueue}]
      BY DEF IInv, TypeInv
    <3> QED BY <2>1, <3>1, <3>2
  <2>5. ASSUME NEW s \in SlotIds, table'[s] # NoQueue PROVE InTable(thread'[table'[s]])
    <3>1. CASE s = n
      BY <2>2, <2>3, <2>4, <3>1 DEF InTable, ClientSteps
    <3>2. CASE s # n
      <4>1. table[s] \in Clients /\ table[s] # c /\ InTable(thread[table[s]]) /\ table'[s] = table[s]
        BY <2>4, <2>5, <3>2 DEF IInv, TypeInv, TableInv
      <4>2. thread'[table[s]] = thread[table[s]]
        BY <1>1, <2>2, <4>1
      <4> QED BY <4>1, <4>2
    <3> QED BY <3>1, <3>2
  <2>6. \A r, s \in SlotIds : r # s /\ table'[r] = table'[s] => table'[r] = NoQueue
    <3>1. ASSUME NEW r \in SlotIds, NEW s \in SlotIds, r # s, table'[r] = table'[s]
          PROVE  r # n /\ s # n /\ table[r] = table[s]
      BY <2>4, <3>1
    <3> QED BY <2>4, <3>1 DEF IInv, TableInv
  <2>7. /\ \A o \in Clients : IF thread'[o].step = "off" THEN ~thread'[o].ending ELSE o \in open'
        /\ \A o \in Clients \ open' : queue'[o] = << >>
    BY <1>1, <2>2, <2>3 DEF IInv, TableInv
  <2> QED BY <1>4, <2>2, <2>3, <2>5, <2>6, <2>7 DEF TableInv
<1>7. CASE Pop(c)
  <2>1. /\ \A o \in Threads \ {c} : thread'[o] = thread[o]
        /\ thread[c].step \in {"serving", "draining"}
        /\ thread'[c].step = IF thread[c].step = "serving" THEN "holding" ELSE "free"
        /\ thread'[c].ending = thread[c].ending
    <3>1. thread' = [thread EXCEPT ![c].step = IF thread[c].step = "serving" THEN "holding" ELSE "free",
                                   ![c].msg = {Head(queue[c])}]
      BY <1>1, <1>2, <1>7 DEF Pop
    <3> QED BY <1>1, <1>2, <1>7, <3>1 DEF Pop, ThreadRecords
  <2>2. InTable(thread[c]) => InTable(thread'[c])
    BY <2>1 DEF InTable, ClientSteps
  <2>3. c \in open /\ UNCHANGED <<table, open, mutex>>
    BY <1>7, <2>1 DEF Pop, IInv, TableInv
  <2>4. \A o \in Clients \ open : queue'[o] = << >>
    BY <1>7, <2>3 DEF Pop, IInv, TypeInv, TableInv
  <2> QED BY <1>5, <2>1, <2>2, <2>3, <2>4
<1>8. CASE Write(c)
  <2>1. /\ \A o \in Threads \ {c} : thread'[o] = thread[o]
        /\ thread[c].step = "holding" /\ thread'[c].step = "free"
        /\ thread'[c].ending = thread[c].ending
        /\ UNCHANGED <<table, open, queue, mutex>>
    BY <1>1, <1>2, <1>8 DEF Write, Goto, ThreadRecords
  <2>2. InTable(thread[c]) => InTable(thread'[c])
    BY <2>1 DEF InTable, ClientSteps, FreeSteps
  <2> QED BY <1>5, <2>1, <2>2 DEF IInv, TableInv
<1>9. CASE Leave(c)
  <2>1. /\ \A o \in Threads \ {c} : thread'[o] = thread[o]
        /\ thread[c].step = "serving" /\ thread'[c].step = "draining"
        /\ mutex = {} /\ UNCHANGED <<open, queue, mutex>>
    BY <1>1, <1>2, <1>9 DEF Leave, Draining
  <2>2. \A s \in SlotIds : table'[s] = NoQueue \/ (table'[s] = table[s] /\ table[s] # c)
    BY <1>9 DEF Leave
  <2>3. ASSUME NEW s \in SlotIds, table'[s] # NoQueue PROVE InTable(thread'[table'[s]])
    <3>1. table[s] \in Clients /\ InTable(thread[table[s]]) /\ table'[s] = table[s] /\ table[s] # c
      BY <2>2, <2>3 DEF IInv, TypeInv, TableInv
    <3>2. thread'[table[s]] = thread[table[s]]
      BY <1>1, <2>1, <3>1
    <3> QED BY <3>1, <3>2
  <2>4. \A r, s \in SlotIds : r # s /\ table'[r] = table'[s] => table'[r] = NoQueue
    BY <2>2 DEF IInv, TableInv
  <2>5. \A o \in Clients : IF thread'[o].step = "off" THEN ~thread'[o].ending ELSE o \in open'
    BY <1>1, <2>1 DEF IInv, TableInv
  <2>6. \A o \in Clients \ open' : queue'[o] = << >>
    BY <2>1 DEF IInv, TableInv
  <2> QED BY <1>4, <2>1, <2>3, <2>4, <2>5, <2>6 DEF TableInv
<1>10. CASE Deinit(c)
  <2>1. /\ \A o \in Threads \ {c} : thread'[o] = thread[o]
        /\ thread[c].step = "draining" /\ thread'[c].step = "off" /\ ~thread'[c].ending
        /\ queue[c] = << >> /\ open' = open \ {c} /\ UNCHANGED <<table, queue, mutex>>
    BY <1>1, <1>2, <1>10 DEF Deinit, AtRest
  <2>2. ASSUME NEW s \in SlotIds, table[s] # NoQueue PROVE InTable(thread'[table[s]])
    <3>1. table[s] \in Clients /\ InTable(thread[table[s]])
      BY <2>2 DEF IInv, TypeInv, TableInv
    <3>2. table[s] # c
      BY <2>1, <3>1 DEF InTable
    <3>3. thread'[table[s]] = thread[table[s]]
      BY <1>1, <2>1, <3>1, <3>2
    <3> QED BY <3>1, <3>3
  <2>3. \A o \in Clients : IF thread'[o].step = "off" THEN ~thread'[o].ending ELSE o \in open'
    BY <1>1, <2>1 DEF IInv, TableInv
  <2>4. \A o \in Clients \ open' : queue'[o] = << >>
    BY <2>1 DEF IInv, TableInv
  <2>5. \A r, s \in SlotIds : r # s /\ table'[r] = table'[s] => table'[r] = NoQueue
    BY <2>1 DEF IInv, TableInv
  <2> QED BY <1>4, <2>1, <2>2, <2>3, <2>4, <2>5 DEF TableInv
<1> QED BY <1>3, <1>6, <1>7, <1>8, <1>9, <1>10 DEF ClientStep
-----------------------------------------------------------------------------
(* The theorem *)

LEMMA InitInv == SppAssumption /\ Init => IInv
<1> SUFFICES ASSUME SppAssumption, Init PROVE IInv
  OBVIOUS
<1>1. Uart \notin Clients /\ Clients \subseteq Threads /\ Uart \in Threads
  BY DEF SppAssumption, Threads
<1>2. thread = [t \in Threads |-> AtRest(IF t = Uart THEN "idle" ELSE "off")]
  BY DEF Init, SppInit
<1>3. thread \in [Threads -> ThreadRecords]
  <2>1. \A t \in Threads : AtRest(IF t = Uart THEN "idle" ELSE "off") \in ThreadRecords
    BY DEF AtRest, ThreadRecords, Steps, UartSteps, ClientSteps
  <2> QED BY <1>2, <2>1
<1>4. /\ table \in [SlotIds -> Clients \cup {NoQueue}]
      /\ queue \in [Clients -> Seq(Messages)]
      /\ ref \in [Messages -> Int]
      /\ sockLen \in Int
  BY DEF Init, SppInit
<1>5. TableInv
  <2>1. thread[Uart].step = "idle" /\ \A c \in Clients : thread[c].step = "off" /\ ~thread[c].ending
    BY <1>1, <1>2 DEF AtRest
  <2>2. ~Pushing /\ thread[Uart].step \notin {"take", "push"}
    BY <2>1 DEF Pushing, FreeSteps
  <2>3. /\ \A s \in SlotIds : table[s] = NoQueue
        /\ \A c \in Clients : queue[c] = << >>
    BY DEF Init, SppInit
  <2> QED BY <2>1, <2>2, <2>3 DEF TableInv
<1> QED BY <1>3, <1>4, <1>5 DEF IInv, TypeInv

LEMMA StepInv == SppAssumption /\ IInv /\ [Next]_vars => IInv'
<1> SUFFICES ASSUME SppAssumption, IInv, [Next]_vars PROVE IInv'
  OBVIOUS
<1>1. CASE UNCHANGED sppVars
  BY <1>1 DEF IInv, TypeInv, TableInv, sppVars, Pushing
<1>2. CASE UartStep \/ \E m \in Messages : Allocate(m)
  BY <1>2, UartStepType, UartStepTable DEF IInv
<1>3. CASE \E c \in Clients : ClientStep(c) \/ Write(c)
  BY <1>3, ClientStepType, ClientStepTable DEF IInv
<1>4. CASE UNCHANGED vars
  BY <1>1, <1>4 DEF vars
<1> QED BY <1>1, <1>2, <1>3, <1>4 DEF Next, Read, Forward, Discard, Send, vars

\* In every behaviour of the bridge a queue in the table is initialised and in one slot, and one
\* that is not initialised is empty (socket_queue_create, socket_queue_delete and the loop of
\* sppUartCommandProcess, SppProtocol.c:94-180): what is pushed always has an owner who will
\* free it.
THEOREM QueuesHaveOwners == Spec => []QueuesInTableOpen
<1>1. IInv => QueuesInTableOpen
  <2> SUFFICES ASSUME IInv PROVE QueuesInTableOpen
    OBVIOUS
  <2>1. ASSUME NEW s \in SlotIds, table[s] # NoQueue PROVE table[s] \in open
    <3>1. table[s] \in Clients /\ InTable(thread[table[s]])
      BY <2>1 DEF IInv, TypeInv, TableInv
    <3> QED BY <3>1 DEF IInv, TableInv, InTable
  <2> QED BY <2>1 DEF IInv, TableInv, QueuesInTableOpen
<1> QED BY <1>1, InitInv, StepInv, SppAssumption, PTL DEF Spec
-----------------------------------------------------------------------------

ReaderSet == [step : ReaderSteps, whole : BOOLEAN, expected : Nat, transfer : Nat, data : Seq(1 .. MaxBytes)]

\* A package that the ring takes in one transfer is received whole or not at all.
Fits == Package <= RingSize \div 2

\* Types, of what the hardware and the reader share and of the reader's locals.
UartTypes ==
    /\ ring \in [Cells -> 0 .. MaxBytes] /\ head \in Cells /\ tail \in Cells
    /\ written \in 0 .. MaxBytes /\ rxToken \in {0, 1} /\ rxSize \in 0 .. RingSize \div 2
    /\ reader \in ReaderSet /\ handed \in Seq(1 .. MaxBytes)
    /\ overrun \in BOOLEAN /\ stale \in BOOLEAN

\* What the reader asks for, by its step: never more at a time than the driver takes, and, if it
\* asks for a whole package that fits, all of it with nothing received yet.
CallInv ==
    /\ reader.step \in {"arm", "wait", "woken", "grab"} =>
          reader.transfer <= reader.expected /\ reader.transfer \in 1 .. RingSize \div 2
    /\ reader.step = "call" => reader.expected > 0
    /\ reader.step = "length" => reader.whole
    /\ rxSize > 0 => reader.step \in {"wait", "woken", "timeout"}
    /\ Fits /\ reader.whole /\ reader.step \notin {"grab", "deliver"} =>
          reader.data = << >> /\ (reader.step = "call" => reader.expected = Package)
    /\ Fits /\ reader.whole /\ reader.step \in {"arm", "wait", "woken", "grab"} => reader.transfer = reader.expected

\* The bytes DMA has written and the reader has not taken, and the number of those it has: as
\* long as there is no overrun, Used is what the last interrupt has seen of them.
Position == written % RingSize
Behind == IF Position >= head THEN Position - head ELSE RingSize + Position - head
Taken == written - Behind

\* The cell of the d-th byte from the end of what is written.
CellOf(d) == IF Position >= d THEN Position - d ELSE RingSize + Position - d

\* The bytes the reader has passed on, or has in the package it is receiving.
Got == Len(handed) + Len(reader.data)

\* The bytes before those: none of them is in the ring or in the reader's hands any more.
Passed == Taken - Len(reader.data)

\* The ring holds the last RingSize bytes; without an overrun the reader has what came before
\* those it is behind, the last of them in its package.
RingInv ==
    /\ \A d \in 1 .. RingSize : d <= written => ring[CellOf(d)] = written + 1 - d
    /\ \A k \in Cells : k < written => ring[k] > 0
    /\ overrun => written >= RingSize
    /\ ~overrun =>
          /\ Used <= Behind
          /\ Got <= Taken
          /\ \A i \in 1 .. Len(reader.data) : reader.data[i] = Taken - Len(reader.data) + i
          /\ Fits => Got = Taken /\ \A i \in 1 .. Len(handed) : handed[i] = i

\* A token the reader may take means that there is enough, unless it was set too late.
TokenInv ==
    ~stale /\ ~overrun =>
        /\ rxToken = 1 => reader.step = "wait" /\ rxSize = 0
        /\ reader.step = "wait" => rxSize = (IF rxToken = 1 THEN 0 ELSE reader.transfer)
        /\ rxToken = 1 \/ reader.step \in {"woken", "grab"} => reader.transfer <= Used

UartInv == UartTypes /\ CallInv /\ RingInv /\ TokenInv

(* Positions in the ring *)

LEMMA ModuloBelow == ASSUME NEW n \in Nat \ {0}, NEW a \in 0 .. n - 1 PROVE a % n = a
OBVIOUS

LEMMA ModuloOver == ASSUME NEW n \in Nat \ {0}, NEW a \in n .. 2 * n - 1 PROVE a % n = a - n
OBVIOUS

LEMMA Division ==
    ASSUME NEW n \in Nat \ {0}, NEW a \in Nat
    PROVE  a = n * (a \div n) + (a % n) /\ a \div n \in Nat /\ a % n \in 0 .. n - 1
OBVIOUS

LEMMA Remainder ==
    ASSUME NEW n \in Nat \ {0}, NEW q \in Nat, NEW r \in 0 .. n - 1, NEW a \in Nat, a = n * q + r
    PROVE  a % n = r
OBVIOUS

\* The position after a is the next cell, or the first.
LEMMA ModuloNext ==
    ASSUME NEW n \in Nat \ {0}, NEW a \in Nat
    PROVE  (a + 1) % n = IF (a % n) + 1 = n THEN 0 ELSE (a % n) + 1
<1>1. PICK q \in Nat, r \in 0 .. n - 1 : a = n * q + r /\ a % n = r
  BY Division
<1>2. ASSUME NEW b \in Nat, b = a + 1
      PROVE  b % n = IF r + 1 = n THEN 0 ELSE r + 1
  <2>1. CASE r + 1 = n
    <3>1. PICK p \in Nat, z \in 0 .. n - 1 : p = q + 1 /\ z = 0 /\ b = n * p + z
      BY <1>1, <1>2, <2>1
    <3>2. b % n = z
      BY <3>1, Remainder
    <3> QED BY <2>1, <3>1, <3>2
  <2>2. CASE r + 1 # n
    <3>1. PICK z \in 0 .. n - 1 : z = r + 1 /\ b = n * q + z
      BY <1>1, <1>2, <2>2
    <3>2. b % n = z
      BY <3>1, Remainder
    <3> QED BY <2>2, <3>1, <3>2
  <2> QED BY <2>1, <2>2
<1> QED BY <1>1, <1>2

\* How far b is ahead of a round the ring: what ring_buffer_used_space computes.
LEMMA Ahead ==
    ASSUME UartRxAssumption, NEW a \in Cells, NEW b \in Cells
    PROVE  (RingSize - a + b) % RingSize = IF b >= a THEN b - a ELSE RingSize + b - a
<1>1. RingSize \in Nat \ {0} /\ a \in 0 .. RingSize - 1 /\ b \in 0 .. RingSize - 1
  BY DEF UartRxAssumption, Cells
<1>2. CASE b >= a
  <2>1. PICK x \in RingSize .. 2 * RingSize - 1 : x = RingSize - a + b
    BY <1>1, <1>2
  <2>2. x % RingSize = x - RingSize
    BY <1>1, ModuloOver
  <2> QED BY <1>1, <1>2, <2>1, <2>2
<1>3. CASE b < a
  <2>1. PICK x \in 0 .. RingSize - 1 : x = RingSize - a + b
    BY <1>1, <1>3
  <2>2. x % RingSize = x
    BY <1>1, ModuloBelow
  <2> QED BY <1>1, <1>3, <2>1, <2>2
<1> QED BY <1>1, <1>2, <1>3

\* DMA writes the cell at its position, and its position moves to the next cell.
LEMMA Positions ==
    ASSUME UartRxAssumption, written \in Nat
    PROVE  /\ Position \in Cells /\ Position <= written /\ (written < RingSize => Position = written)
           /\ (written + 1) % RingSize = IF Position + 1 = RingSize THEN 0 ELSE Position + 1
<1>1. RingSize \in Nat \ {0}
  BY DEF UartRxAssumption
<1>2. (written + 1) % RingSize = IF Position + 1 = RingSize THEN 0 ELSE Position + 1
  BY <1>1, ModuloNext DEF Position
<1>3. written < RingSize => written % RingSize = written
  <2>1. written < RingSize => written \in 0 .. RingSize - 1
    BY <1>1
  <2> QED BY <1>1, <2>1, ModuloBelow, Zenon
<1>4. written % RingSize \in 0 .. RingSize - 1
  BY <1>1, Division
<1>5. written >= RingSize => written % RingSize <= written
  BY <1>1, <1>4
<1> QED BY <1>1, <1>2, <1>3, <1>4, <1>5 DEF Position, Cells

\* Used is how far the tail is ahead of the head.
LEMMA UsedIs ==
    ASSUME UartRxAssumption, UartTypes
    PROVE  /\ Used = IF tail >= head THEN tail - head ELSE RingSize + tail - head
           /\ Used \in 0 .. RingSize - 1 /\ Behind \in 0 .. RingSize - 1 /\ Position \in Cells
           /\ head \in Nat /\ RingSize \in Nat /\ RingSize >= 2 /\ written \in Nat
           /\ head < RingSize /\ Position < RingSize /\ Position \in Nat
<1>1. RingSize \in Nat /\ RingSize >= 2 /\ head \in Cells /\ tail \in Cells /\ written \in Nat
  BY DEF UartRxAssumption, UartTypes
<1>2. Position \in Cells
  BY <1>1, Positions
<1>3. Used = IF tail >= head THEN tail - head ELSE RingSize + tail - head
  BY <1>1, Ahead DEF Used
<1> QED BY <1>1, <1>2, <1>3 DEF Cells, Behind

\* What is transferred at a time.
LEMMA Transferred ==
    ASSUME UartRxAssumption, NEW n \in Nat \ {0}
    PROVE  /\ Transfer(n) \in 1 .. RingSize \div 2 /\ Transfer(n) <= n
           /\ Fits /\ n = Package => Transfer(n) = n
<1>1. RingSize \in Nat /\ RingSize >= 2 /\ RingSize \div 2 \in Nat /\ RingSize \div 2 >= 1
  BY DEF UartRxAssumption
<1> QED BY <1>1 DEF Transfer, Fits

LEMMA GotIs ==
    ASSUME UartTypes
    PROVE  Got = Len(handed) + Len(reader.data) /\ Len(handed) \in Nat /\ Len(reader.data) \in Nat /\ Got \in Nat
<1>1. handed \in Seq(1 .. MaxBytes) /\ reader.data \in Seq(1 .. MaxBytes)
  BY DEF UartTypes, ReaderSet
<1> QED BY <1>1 DEF Got

LEMMA Less == ASSUME NEW a \in Nat, NEW b \in Nat, NEW w \in Int PROVE w - a - b = w - (a + b)
OBVIOUS

\* A place in two sequences put together is in the first or in the second.
LEMMA Halves ==
    ASSUME NEW a \in Nat, NEW b \in Nat, NEW i \in 1 .. a + b, i \notin 1 .. a
    PROVE  \E j \in 1 .. b : i = a + j
<1>1. i - a \in 1 .. b /\ i = a + (i - a)
  OBVIOUS
<1> QED BY <1>1, Zenon

LEMMA Joined ==
    ASSUME NEW S, NEW s \in Seq(S), NEW t \in Seq(S)
    PROVE  /\ s \o t \in Seq(S) /\ Len(s \o t) = Len(s) + Len(t) /\ Len(s) \in Nat /\ Len(t) \in Nat
           /\ \A i \in 1 .. Len(s) : (s \o t)[i] = s[i]
           /\ \A i \in 1 .. Len(t) : (s \o t)[Len(s) + i] = t[i]
OBVIOUS

LEMMA Shift == ASSUME NEW t \in Int, NEW l \in Nat, NEW j \in Int PROVE t - l + (l + j) = t + j
OBVIOUS

LEMMA JoinedLength == ASSUME NEW S, NEW s \in Seq(S), NEW t \in Seq(S) PROVE Len(s \o t) = Len(s) + Len(t)
OBVIOUS
-----------------------------------------------------------------------------
(* The hardware and the interrupt *)

\* DMA writes the byte the cell of the last byte stands for; what was there is one further off.
LEMMA ReceiveKeeps ==
    ASSUME UartRxAssumption, UartInv, Receive
    PROVE  UartInv' /\ (~overrun' => ~overrun /\ Passed' = Passed)
<1> DEFINE late == written' - Len(handed) - Len(reader.data) >= RingSize
<1>1. /\ written < MaxBytes /\ written' = written + 1
      /\ ring' = [ring EXCEPT ![Position] = written']
      /\ overrun' = (overrun \/ late)
      /\ UNCHANGED <<head, tail, rxSize, rxToken, reader, handed, stale>>
  BY Zenon DEF Receive, Position
<1>a. /\ overrun' => overrun \/ late
      /\ ~overrun' => ~overrun /\ ~late
  BY <1>1, Zenon
<1>2. UartTypes /\ RingInv
  BY DEF UartInv
<1>b. Got \in Nat /\ Got' = Got /\ (late <=> written + 1 - Got >= RingSize)
  <2>1. Len(handed) \in Nat /\ Len(reader.data) \in Nat /\ Got \in Nat /\ written + 1 \in Int
    BY <1>2, GotIs DEF UartTypes
  <2>2. (written + 1) - Len(handed) - Len(reader.data) = (written + 1) - (Len(handed) + Len(reader.data))
    BY <2>1, Less, Zenon
  <2>3. written' - Len(handed) - Len(reader.data) = (written + 1) - Got
    BY <1>1, <2>2, Zenon DEF Got
  <2>4. Got' = Got
    BY <1>1 DEF Got
  <2>5. late <=> (written + 1) - Got >= RingSize
    BY <2>3, Zenon
  <2> HIDE DEF late
  <2>6. Got \in Nat /\ written \in Nat
    BY <1>2, <2>1 DEF UartTypes
  <2>7. (written + 1) - Got = written + 1 - Got
    BY <2>6
  <2> QED BY <2>1, <2>4, <2>5, <2>6, <2>7
<1> HIDE DEF late
<1>3. /\ Used = IF tail >= head THEN tail - head ELSE RingSize + tail - head
      /\ Used \in 0 .. RingSize - 1 /\ Behind \in 0 .. RingSize - 1 /\ Position \in Cells
      /\ head \in Nat /\ RingSize \in Nat /\ RingSize >= 2 /\ written \in Nat
      /\ head < RingSize /\ Position < RingSize /\ Position \in Nat
  BY <1>2, UsedIs
<1>4. /\ Position' = IF Position + 1 = RingSize THEN 0 ELSE Position + 1
      /\ written < RingSize => Position = written
      /\ Position' \in Nat /\ Position' < RingSize
  BY <1>1, <1>3, Positions DEF Position
<1>5. Used' = Used /\ Cells' = Cells
  BY <1>1 DEF Used, Cells
<1>6. MaxBytes \in Nat /\ ring \in [Cells -> 0 .. MaxBytes]
  BY <1>2 DEF UartTypes, ReaderSet, UartRxAssumption
<1>7. UartTypes'
  <2>1. written + 1 \in 0 .. MaxBytes
    BY <1>1, <1>3, <1>6
  <2>2. ring' \in [Cells -> 0 .. MaxBytes]
    BY <1>1, <1>6, <2>1
  <2>3. overrun' \in BOOLEAN
    BY <1>1
  <2> QED BY <1>1, <1>2, <1>5, <2>1, <2>2, <2>3 DEF UartTypes
<1>8. CallInv'
  BY <1>1 DEF UartInv, CallInv
<1>9. TokenInv'
  BY <1>1, <1>5 DEF UartInv, TokenInv
<1>10. /\ ring'[Position] = written + 1
       /\ \A k \in Cells \ {Position} : ring'[k] = ring[k]
  BY <1>1, <1>3, <1>6
<1>11. ASSUME NEW d \in 1 .. RingSize, d <= written'
       PROVE  ring'[IF Position' >= d THEN Position' - d ELSE RingSize + Position' - d] = written' + 1 - d
  <2>1. CASE d = 1
    <3>1. (IF Position' >= d THEN Position' - d ELSE RingSize + Position' - d) = Position
      BY <1>3, <1>4, <2>1
    <3> QED BY <1>1, <1>3, <1>10, <2>1, <3>1
  <2>2. CASE d # 1
    <3>1. d - 1 \in 1 .. RingSize /\ d - 1 < RingSize /\ d - 1 <= written
      BY <1>1, <1>3, <1>11, <2>2
    <3>2. /\ CellOf(d - 1) \in Cells /\ CellOf(d - 1) # Position
          /\ (IF Position' >= d THEN Position' - d ELSE RingSize + Position' - d) = CellOf(d - 1)
      BY <1>3, <1>4, <3>1 DEF CellOf, Cells
    <3>3. ring[CellOf(d - 1)] = written + 1 - (d - 1)
      BY <1>2, <3>1 DEF RingInv
    <3>4. ring'[CellOf(d - 1)] = ring[CellOf(d - 1)]
      BY <1>10, <3>2
    <3> QED BY <1>1, <1>3, <3>1, <3>2, <3>3, <3>4
  <2> QED BY <2>1, <2>2
<1>12. ASSUME NEW k \in Cells, k < written' PROVE ring'[k] > 0
  <2>1. CASE k = Position
    BY <1>3, <1>10, <2>1
  <2>2. CASE k # Position
    <3>1. k < written
      BY <1>1, <1>3, <1>4, <1>12, <2>2 DEF Cells
    <3> QED BY <1>2, <1>10, <2>2, <3>1 DEF RingInv
  <2> QED BY <2>1, <2>2
<1>13. overrun' => written' >= RingSize
  <2>1. CASE overrun
    BY <1>1, <1>2, <1>3, <2>1 DEF RingInv
  <2>2. CASE late
    BY <1>1, <1>3, <1>b, <2>2
  <2> QED BY <1>a, <2>1, <2>2
<1>14. ASSUME ~overrun'
       PROVE  /\ ~overrun /\ Taken' = Taken
              /\ Used' <= Behind'
              /\ Got' <= Taken'
              /\ \A i \in 1 .. Len(reader'.data) : reader'.data[i] = Taken' - Len(reader'.data) + i
              /\ Fits => Got' = Taken' /\ \A i \in 1 .. Len(handed') : handed'[i] = i
  <2>1. ~overrun /\ ~late
    BY <1>a, <1>14
  <2>2. Behind' = Behind + 1
    <3>1. Got <= Taken
      BY <1>2, <2>1 DEF RingInv
    <3>2. Behind + 1 < RingSize
      BY <1>3, <1>b, <2>1, <3>1 DEF Taken
    <3>4. Behind' = IF Position' >= head THEN Position' - head ELSE RingSize + Position' - head
      BY <1>1 DEF Behind
    <3> QED BY <1>3, <1>4, <3>2, <3>4 DEF Behind
  <2>3. Taken' = Taken /\ Taken \in Int
    BY <1>1, <1>3, <2>2 DEF Taken
  <2>4. Used' <= Behind'
    BY <1>2, <1>3, <1>5, <2>1, <2>2 DEF RingInv
  <2> QED BY <1>1, <1>2, <1>b, <2>1, <2>3, <2>4 DEF RingInv
<1>15. RingInv'
  BY <1>5, <1>11, <1>12, <1>13, <1>14 DEF RingInv, CellOf
<1>16. ~overrun' => ~overrun /\ Passed' = Passed
  BY <1>1, <1>14 DEF Passed
<1> QED BY <1>7, <1>8, <1>9, <1>15, <1>16 DEF UartInv

\* The interrupt brings the tail to where DMA is, which is no nearer to the reader than it was.
LEMMA UartIrqKeeps == ASSUME UartRxAssumption, UartInv, UartIrq PROVE UartInv'
<1> DEFINE enough == rxSize > 0 /\ (RingSize - head + Position) % RingSize >= rxSize
<1>1. /\ tail' = Position
      /\ rxToken' = IF enough THEN 1 ELSE rxToken
      /\ rxSize' = IF enough THEN 0 ELSE rxSize
      /\ stale' = (stale \/ (enough /\ reader.step # "wait"))
      /\ UNCHANGED <<ring, head, written, reader, handed, overrun>>
  BY DEF UartIrq, SeeTail, Position
<1>2. UartTypes /\ RingInv
  BY DEF UartInv
<1>3. /\ Used \in 0 .. RingSize - 1 /\ Behind \in 0 .. RingSize - 1 /\ Position \in Cells
      /\ head \in Cells /\ Position \in Cells
  BY <1>2, UsedIs DEF UartTypes
<1>4. (RingSize - head + Position) % RingSize = Behind
  BY <1>3, Ahead DEF Behind
<1>5. Used' = Behind
  BY <1>1, <1>4 DEF Used
<1>6. enough = (rxSize > 0 /\ Behind >= rxSize)
  BY <1>4
<1> HIDE DEF enough
<1>7. rxSize' \in 0 .. RingSize \div 2 /\ rxToken' \in {0, 1} /\ stale' \in BOOLEAN
  <2>1. 0 \in 0 .. RingSize \div 2
    BY <1>2 DEF UartTypes
  <2> QED BY <1>1, <1>2, <2>1 DEF UartTypes
<1>8. UartTypes'
  BY <1>1, <1>2, <1>3, <1>7 DEF UartTypes, Cells
<1>9. CallInv'
  BY <1>1 DEF UartInv, CallInv
<1>10. Behind' = Behind /\ Position' = Position /\ Taken' = Taken /\ Got' = Got
  BY <1>1 DEF Behind, Position, Taken, Got
<1>11. RingInv'
  <2>1. Used' <= Behind'
    BY <1>3, <1>5, <1>10
  <2> QED BY <1>1, <1>2, <1>10, <2>1 DEF RingInv, CellOf, Cells
<1>12. TokenInv'
  <2> SUFFICES ASSUME ~stale', ~overrun' PROVE TokenInv'
    BY DEF TokenInv
  <2>1. /\ ~stale /\ ~overrun /\ (enough => reader.step = "wait")
        /\ Used <= Behind /\ TokenInv
    BY <1>1, <1>2 DEF UartInv, RingInv
  <2>2. CASE enough
    <3>1. reader.step = "wait" /\ rxSize > 0 /\ Behind >= rxSize
      BY <1>6, <2>1, <2>2
    <3>2. rxSize = reader.transfer
      BY <2>1, <3>1 DEF TokenInv
    <3> QED BY <1>1, <1>5, <2>2, <3>1, <3>2 DEF TokenInv
  <2>3. CASE ~enough
    <3>1. UNCHANGED <<rxSize, rxToken, reader>>
      BY <1>1, <2>3
    <3>2. reader.transfer \in Nat
      BY <1>2 DEF UartTypes, ReaderSet
    <3> QED BY <1>3, <1>5, <2>1, <3>1, <3>2 DEF TokenInv
  <2> QED BY <2>2, <2>3
<1> QED BY <1>8, <1>9, <1>11, <1>12 DEF UartInv
-----------------------------------------------------------------------------
(* platform_uart_receive_bytes and _uart_get_one_packet *)

\* A step of the reader that moves neither the head nor a byte, and drops no byte of a package
\* that fits: what RingInv needs of it.
LEMMA RingFrame ==
    ASSUME UartRxAssumption, UartTypes, RingInv, UNCHANGED <<ring, head, tail, written, handed, overrun>>,
           reader'.data = reader.data \/ (reader'.data = << >> /\ (Fits => reader.data = << >>))
    PROVE  RingInv' /\ Used' = Used
<1>1. Used' = Used /\ Behind' = Behind /\ Taken' = Taken /\ Position' = Position /\ Cells' = Cells
  BY DEF Used, Behind, Taken, Position, Cells
<1>2. Got = Len(handed) + Len(reader.data) /\ Len(handed) \in Nat /\ Len(reader.data) \in Nat /\ Got \in Nat
  BY GotIs
<1>3. CASE reader'.data = reader.data
  <2>1. Got' = Got
    BY <1>3 DEF Got
  <2> QED BY <1>1, <1>3, <2>1 DEF RingInv, CellOf
<1>4. CASE reader'.data = << >> /\ (Fits => reader.data = << >>)
  <2>1. Len(reader'.data) = 0
    BY <1>4
  <2>2. Got' = Len(handed) + 0 /\ (Fits => Got' = Got)
    BY <1>4, <2>1 DEF Got
  <2>3. Got' <= Got
    BY <1>2, <2>2
  <2>4. Behind \in Nat /\ written \in Nat /\ Taken \in Int
    BY UsedIs DEF UartTypes, Taken
  <2>5. ~overrun => Got' <= Taken'
    BY <1>1, <1>2, <2>2, <2>3, <2>4 DEF RingInv
  <2> QED BY <1>1, <2>1, <2>2, <2>5 DEF RingInv, CellOf
<1> QED BY <1>3, <1>4

LEMMA CheckKeeps == ASSUME UartRxAssumption, UartInv, Check PROVE UartInv'
<1> DEFINE n == Transfer(reader.expected)
<1>1. /\ reader.step = "call"
      /\ reader' = [reader EXCEPT !.transfer = n, !.step = IF n > Used THEN "arm" ELSE "grab"]
      /\ UNCHANGED <<ring, head, tail, written, rxSize, rxToken, handed, overrun, stale>>
  BY DEF Check
<1>2. UartTypes /\ RingInv /\ CallInv /\ TokenInv
  BY DEF UartInv
<1>3. reader \in ReaderSet /\ reader.expected \in Nat \ {0}
  BY <1>1, <1>2 DEF UartTypes, ReaderSet, CallInv
<1>4. n \in 1 .. RingSize \div 2 /\ n <= reader.expected /\ (Fits /\ reader.expected = Package => n = reader.expected)
  BY <1>3, Transferred
<1>5. n \in Nat /\ RingSize \div 2 \in Nat
  BY <1>3, <1>4 DEF UartRxAssumption
<1> HIDE DEF n
<1>6. /\ reader' \in ReaderSet /\ reader'.data = reader.data /\ reader'.whole = reader.whole
      /\ reader'.expected = reader.expected /\ reader'.transfer = n
      /\ reader'.step = IF n > Used THEN "arm" ELSE "grab"
  BY <1>1, <1>3, <1>5 DEF ReaderSet, ReaderSteps
<1>7. UartTypes'
  BY <1>1, <1>2, <1>6 DEF UartTypes, Cells
<1>8. CallInv'
  BY <1>1, <1>2, <1>4, <1>6 DEF CallInv, Fits
<1>9. RingInv' /\ Used' = Used
  BY <1>1, <1>2, <1>6, RingFrame
<1>10. TokenInv'
  <2>1. Used \in Nat
    BY <1>2, UsedIs
  <2>2. reader'.step = "grab" => reader'.transfer <= Used'
    BY <1>5, <1>6, <1>9, <2>1
  <2>3. ~stale' /\ ~overrun' => rxToken' # 1
    BY <1>1, <1>2 DEF TokenInv
  <2> QED BY <1>6, <2>2, <2>3 DEF TokenInv
<1> QED BY <1>7, <1>8, <1>9, <1>10 DEF UartInv

LEMMA ArmKeeps == ASSUME UartRxAssumption, UartInv, Arm PROVE UartInv'
<1>1. /\ reader.step = "arm" /\ rxSize' = reader.transfer
      /\ reader' = [reader EXCEPT !.step = "wait"]
      /\ UNCHANGED <<ring, head, tail, written, rxToken, handed, overrun, stale>>
  BY DEF Arm
<1>2. UartTypes /\ RingInv /\ CallInv /\ TokenInv
  BY DEF UartInv
<1>3. /\ reader' \in ReaderSet /\ reader'.data = reader.data /\ reader'.whole = reader.whole
      /\ reader'.expected = reader.expected /\ reader'.transfer = reader.transfer /\ reader'.step = "wait"
  BY <1>1, <1>2 DEF UartTypes, ReaderSet, ReaderSteps
<1>4. reader.transfer \in 1 .. RingSize \div 2
  BY <1>1, <1>2 DEF CallInv
<1>5. UartTypes'
  BY <1>1, <1>2, <1>3, <1>4 DEF UartTypes, Cells
<1>6. CallInv'
  BY <1>1, <1>2, <1>3 DEF CallInv, Fits
<1>7. RingInv' /\ Used' = Used
  BY <1>1, <1>2, <1>3, RingFrame
<1>8. TokenInv'
  BY <1>1, <1>2, <1>3, <1>7 DEF TokenInv, UartTypes
<1> QED BY <1>5, <1>6, <1>7, <1>8 DEF UartInv

LEMMA WakeKeeps == ASSUME UartRxAssumption, UartInv, Wake \/ TimeOut PROVE UartInv'
<1>1. /\ reader.step = "wait"
      /\ \/ rxToken = 1 /\ rxToken' = 0 /\ reader' = [reader EXCEPT !.step = "woken"]
         \/ rxToken = 0 /\ rxToken' = 0 /\ reader' = [reader EXCEPT !.step = "timeout"]
      /\ UNCHANGED <<ring, head, tail, written, rxSize, handed, overrun, stale>>
  BY DEF Wake, TimeOut
<1>2. UartTypes /\ RingInv /\ CallInv /\ TokenInv
  BY DEF UartInv
<1>3. /\ reader' \in ReaderSet /\ reader'.data = reader.data /\ reader'.whole = reader.whole
      /\ reader'.expected = reader.expected /\ reader'.transfer = reader.transfer
      /\ reader'.step \in {"woken", "timeout"} /\ (reader'.step = "woken" => rxToken = 1)
  BY <1>1, <1>2 DEF UartTypes, ReaderSet, ReaderSteps
<1>4. UartTypes'
  BY <1>1, <1>2, <1>3 DEF UartTypes, Cells
<1>5. CallInv'
  BY <1>1, <1>2, <1>3 DEF CallInv, Fits
<1>6. RingInv' /\ Used' = Used
  BY <1>1, <1>2, <1>3, RingFrame
<1>7. TokenInv'
  BY <1>1, <1>2, <1>3, <1>6 DEF TokenInv
<1> QED BY <1>4, <1>5, <1>6, <1>7 DEF UartInv

LEMMA DisarmKeeps == ASSUME UartRxAssumption, UartInv, Disarm PROVE UartInv'
<1>1. /\ reader.step \in {"woken", "timeout"} /\ rxSize' = 0
      /\ reader' = IF reader.step = "woken" THEN [reader EXCEPT !.step = "grab"] ELSE AfterTimeOut
      /\ UNCHANGED <<ring, head, tail, written, rxToken, handed, overrun, stale>>
  BY DEF Disarm
<1>2. UartTypes /\ RingInv /\ CallInv /\ TokenInv
  BY DEF UartInv
<1>3. reader \in ReaderSet /\ << >> \in Seq(1 .. MaxBytes) /\ RingSize \div 2 \in Nat
  BY <1>2 DEF UartTypes, UartRxAssumption
<1>4. /\ reader' \in ReaderSet /\ reader'.whole = reader.whole
      /\ reader'.expected = reader.expected /\ reader'.transfer = reader.transfer
  BY <1>1, <1>3 DEF AfterTimeOut, ReaderSet, ReaderSteps
<1>5. /\ reader.step = "woken" => reader'.step = "grab" /\ reader'.data = reader.data
      /\ reader.step = "timeout" =>
            /\ reader'.step = IF reader.whole THEN "length" ELSE "deliver"
            /\ reader'.data = IF reader.whole THEN << >> ELSE reader.data
  BY <1>1, <1>3 DEF AfterTimeOut, ReaderSet
<1>6. UartTypes'
  BY <1>1, <1>2, <1>3, <1>4 DEF UartTypes, Cells
<1>7. CallInv'
  BY <1>1, <1>2, <1>4, <1>5 DEF CallInv, Fits
<1>8. RingInv' /\ Used' = Used
  <2>1. reader'.data = reader.data \/ (reader'.data = << >> /\ (Fits => reader.data = << >>))
    BY <1>1, <1>2, <1>5 DEF CallInv
  <2> QED BY <1>1, <1>2, <2>1, RingFrame
<1>9. TokenInv'
  BY <1>1, <1>2, <1>4, <1>5, <1>8 DEF TokenInv
<1> QED BY <1>6, <1>7, <1>8, <1>9 DEF UartInv

\* A new call, with nothing received yet.
LEMMA CallingIs ==
    ASSUME UartRxAssumption, NEW n \in Nat \ {0}, NEW w \in BOOLEAN
    PROVE  /\ Calling(n, w) \in ReaderSet /\ Calling(n, w).step = "call" /\ Calling(n, w).whole = w
           /\ Calling(n, w).expected = n /\ Calling(n, w).data = << >>
<1>1. << >> \in Seq(1 .. MaxBytes) /\ 0 \in Nat
  OBVIOUS
<1> QED BY <1>1 DEF Calling, ReaderSet, ReaderSteps

LEMMA LengthKeeps == ASSUME UartRxAssumption, UartInv, Length PROVE UartInv'
<1>1. /\ reader.step = "length"
      /\ \/ reader' = Calling(Used, FALSE) /\ Used > 0
         \/ reader' = Calling(Package, TRUE)
      /\ UNCHANGED <<ring, head, tail, written, rxSize, rxToken, handed, overrun, stale>>
  BY DEF Length
<1>2. UartTypes /\ RingInv /\ CallInv /\ TokenInv
  BY DEF UartInv
<1>3. Used \in Nat /\ Package \in Nat \ {0}
  BY <1>2, UsedIs DEF UartRxAssumption
<1>4. /\ reader' \in ReaderSet /\ reader'.step = "call" /\ reader'.data = << >>
      /\ reader'.expected > 0 /\ (reader'.whole => reader'.expected = Package)
  <2>1. CASE reader' = Calling(Used, FALSE) /\ Used > 0
    <3>1. Used \in Nat \ {0}
      BY <1>3, <2>1
    <3>2. /\ Calling(Used, FALSE) \in ReaderSet /\ Calling(Used, FALSE).step = "call"
          /\ Calling(Used, FALSE).whole = FALSE /\ Calling(Used, FALSE).expected = Used
          /\ Calling(Used, FALSE).data = << >>
      BY <3>1, CallingIs, Zenon
    <3> QED BY <2>1, <3>1, <3>2
  <2>2. CASE reader' = Calling(Package, TRUE)
    <3>1. /\ Calling(Package, TRUE) \in ReaderSet /\ Calling(Package, TRUE).step = "call"
          /\ Calling(Package, TRUE).whole = TRUE /\ Calling(Package, TRUE).expected = Package
          /\ Calling(Package, TRUE).data = << >>
      BY <1>3, CallingIs, Zenon
    <3>2. Package > 0
      BY <1>3
    <3> QED BY <2>2, <3>1, <3>2, Zenon
  <2> QED BY <1>1, <2>1, <2>2
<1>5. UartTypes'
  BY <1>1, <1>2, <1>4 DEF UartTypes, Cells
<1>6. CallInv'
  BY <1>1, <1>2, <1>4 DEF CallInv, Fits
<1>7. RingInv' /\ Used' = Used
  <2>1. Fits => reader.data = << >>
    BY <1>1, <1>2 DEF CallInv
  <2> QED BY <1>1, <1>2, <1>4, <2>1, RingFrame
<1>8. TokenInv'
  BY <1>1, <1>2, <1>4, <1>7 DEF TokenInv
<1> QED BY <1>5, <1>6, <1>7, <1>8 DEF UartInv

\* The package goes on whole: what was counted in it is counted among what was handed on.
LEMMA DeliverKeeps == ASSUME UartRxAssumption, UartInv, Deliver PROVE UartInv'
<1>1. /\ reader.step = "deliver" /\ handed' = handed \o reader.data /\ reader' = Calling(Package, TRUE)
      /\ UNCHANGED <<ring, head, tail, written, rxSize, rxToken, overrun, stale>>
  BY DEF Deliver
<1>2. UartTypes /\ RingInv /\ CallInv /\ TokenInv
  BY DEF UartInv
<1>3. Package \in Nat \ {0} /\ TRUE \in BOOLEAN
  BY DEF UartRxAssumption
<1>4. /\ Calling(Package, TRUE) \in ReaderSet /\ Calling(Package, TRUE).step = "call"
      /\ Calling(Package, TRUE).whole = TRUE /\ Calling(Package, TRUE).expected = Package
      /\ Calling(Package, TRUE).data = << >>
  BY <1>3, CallingIs, Zenon
<1>5. Package > 0
  BY <1>3
<1>6. /\ handed \in Seq(1 .. MaxBytes) /\ reader.data \in Seq(1 .. MaxBytes)
      /\ Len(handed) \in Nat /\ Len(reader.data) \in Nat
  BY <1>2 DEF UartTypes, ReaderSet
<1>7. /\ handed' \in Seq(1 .. MaxBytes) /\ Len(handed') = Len(handed) + Len(reader.data)
      /\ \A i \in 1 .. Len(handed) : handed'[i] = handed[i]
      /\ \A i \in 1 .. Len(reader.data) : handed'[Len(handed) + i] = reader.data[i]
  BY <1>1, <1>6
<1>8. UartTypes'
  BY <1>1, <1>2, <1>4, <1>7 DEF UartTypes, Cells
<1>9. CallInv'
  BY <1>1, <1>2, <1>4, <1>5 DEF CallInv, Fits
<1>10. Used' = Used /\ Behind' = Behind /\ Taken' = Taken /\ Position' = Position /\ Cells' = Cells
  BY <1>1 DEF Used, Behind, Taken, Position, Cells
<1>11. Got' = Got /\ Len(reader'.data) = 0
  <2>1. reader'.data = << >>
    BY <1>1, <1>4
  <2>2. Len(reader'.data) = 0
    BY <2>1
  <2>3. Got' = Len(handed') + 0
    BY <2>2 DEF Got
  <2>4. Got' = Len(handed')
    BY <1>6, <1>7, <2>3
  <2> QED BY <1>7, <2>2, <2>4 DEF Got
<1>12. ASSUME ~overrun, Fits, NEW i \in 1 .. Len(handed') PROVE handed'[i] = i
  <2>1. CASE i \in 1 .. Len(handed)
    BY <1>2, <1>7, <1>12, <2>1 DEF RingInv
  <2>2. CASE i \notin 1 .. Len(handed)
    <3>1. PICK j \in 1 .. Len(reader.data) : i = Len(handed) + j
      <4>1. i \in 1 .. Len(handed) + Len(reader.data)
        BY <1>7
      <4> QED BY <1>6, <2>2, <4>1, Halves, Zenon
    <3>2. reader.data[j] = Taken - Len(reader.data) + j /\ Taken = Got
      BY <1>2, <1>12 DEF RingInv
    <3>3. handed'[i] = reader.data[j]
      BY <1>7, <3>1
    <3>4. Taken - Len(reader.data) + j = i
      BY <1>6, <3>1, <3>2 DEF Got
    <3> QED BY <3>2, <3>3, <3>4
  <2> QED BY <2>1, <2>2
<1>13. RingInv'
  <2>1. /\ \A d \in 1 .. RingSize : d <= written' => ring'[CellOf(d)'] = written' + 1 - d
        /\ \A k \in Cells' : k < written' => ring'[k] > 0
        /\ overrun' => written' >= RingSize
    BY <1>1, <1>2, <1>10 DEF RingInv, CellOf
  <2>2. ~overrun' => /\ Used' <= Behind' /\ Got' <= Taken' /\ (Fits => Got' = Taken')
                     /\ (Fits => \A i \in 1 .. Len(handed') : handed'[i] = i)
    BY <1>1, <1>2, <1>10, <1>11, <1>12 DEF RingInv
  <2>3. \A i \in 1 .. Len(reader'.data) : FALSE
    BY <1>11
  <2> QED BY <2>1, <2>2, <2>3 DEF RingInv
<1>14. TokenInv'
  BY <1>1, <1>2, <1>4, <1>10 DEF TokenInv
<1> QED BY <1>8, <1>9, <1>13, <1>14 DEF UartInv

LEMMA Lesser ==
    ASSUME NEW a \in Int, NEW b \in Int
    PROVE  LesserOf(a, b) \in {a, b} /\ LesserOf(a, b) <= a /\ LesserOf(a, b) <= b
BY DEF LesserOf

\* What one turn of the loop copies: the bytes that come next, and the head goes past them.
LEMMA GrabKeeps ==
    ASSUME UartRxAssumption, UartInv, Grab
    PROVE  UartInv' /\ (~overrun => Passed' = Passed)
<1> DEFINE n == LesserOf(reader.transfer, LesserOf(RingSize - head, Used))
           new == [i \in 1 .. n |-> ring[head + i - 1]]
           step == IF reader.transfer - n > 0 THEN "grab" ELSE IF reader.expected - n > 0 THEN "call" ELSE "deliver"
<1>1. UartTypes /\ RingInv /\ CallInv /\ TokenInv
  BY DEF UartInv
<1>2. /\ reader.step = "grab" /\ n > 0 /\ head' = (head + n) % RingSize
      /\ UNCHANGED <<ring, tail, written, rxSize, rxToken, handed, overrun, stale>>
  BY DEF Grab, GrabBytes
<1>3. /\ reader \in ReaderSet /\ reader.transfer \in Nat /\ reader.expected \in Nat
      /\ reader.data \in Seq(1 .. MaxBytes) /\ reader.transfer <= reader.expected
      /\ reader.transfer \in 1 .. RingSize \div 2
  BY <1>1, <1>2 DEF UartTypes, ReaderSet, CallInv
<1>4. /\ Used = IF tail >= head THEN tail - head ELSE RingSize + tail - head
      /\ Used \in 0 .. RingSize - 1 /\ Behind \in 0 .. RingSize - 1 /\ Position \in Cells
      /\ head \in Nat /\ RingSize \in Nat /\ RingSize >= 2 /\ written \in Nat
      /\ head < RingSize /\ Position < RingSize /\ Position \in Nat
  BY <1>1, UsedIs
<1>5. /\ n \in Nat \ {0} /\ n <= reader.transfer /\ n <= Used /\ head + n <= RingSize
  <2>1. PICK room \in Int : room = LesserOf(RingSize - head, Used) /\ room <= RingSize - head /\ room <= Used
    BY <1>4, Lesser
  <2>2. n \in Int /\ n <= reader.transfer /\ n <= room
    BY <1>3, <2>1, Lesser
  <2> HIDE DEF n
  <2> QED BY <1>2, <1>3, <1>4, <2>1, <2>2
<1>6. reader' = [step |-> step, whole |-> reader.whole, expected |-> reader.expected - n,
                 transfer |-> reader.transfer - n, data |-> reader.data \o new]
  <2>1. reader = [step |-> reader.step, whole |-> reader.whole, expected |-> reader.expected,
                  transfer |-> reader.transfer, data |-> reader.data]
    BY <1>3 DEF ReaderSet
  <2> HIDE DEF n, new
  <2> QED BY <2>1 DEF Grab, GrabBytes, n, new
<1> HIDE DEF n
<1>7. new \in [1 .. n -> 0 .. MaxBytes] /\ \A i \in 1 .. n : head + i - 1 \in Cells /\ new[i] = ring[head + i - 1]
  <2>1. \A i \in 1 .. n : head + i - 1 \in Cells
    BY <1>4, <1>5 DEF Cells
  <2> QED BY <1>1, <2>1 DEF UartTypes
\* The i-th byte copied is the one after i - 1 more than the reader has taken.
<1>8. ASSUME ~overrun, NEW i \in 1 .. n PROVE new[i] = Taken + i /\ new[i] > 0
  <2>1. Used <= Behind /\ Got <= Taken /\ Got \in Nat
    BY <1>1, <1>8, GotIs DEF RingInv
  <2>2. PICK d \in 1 .. RingSize : d = Behind + 1 - i
    BY <1>4, <1>5, <2>1
  <2>3. d <= written
    BY <1>4, <1>5, <2>1, <2>2 DEF Taken
  <2>4. CellOf(d) = head + i - 1
    BY <1>4, <1>5, <2>1, <2>2 DEF CellOf, Behind
  <2>5. ring[CellOf(d)] = written + 1 - d
    BY <1>1, <2>3 DEF RingInv
  <2>6. written + 1 - d = Taken + i
    BY <1>4, <2>2 DEF Taken
  <2> QED BY <1>4, <1>7, <2>1, <2>4, <2>5, <2>6 DEF Taken
<1>9. new \in Seq(1 .. MaxBytes) /\ Len(new) = n
  <2>1. ASSUME NEW i \in 1 .. n PROVE new[i] \in 1 .. MaxBytes
    <3>1. CASE ~overrun
      BY <1>7, <1>8, <3>1
    <3>2. CASE overrun
      <4>1. head + i - 1 < written
        BY <1>1, <1>4, <1>7, <3>2 DEF RingInv, Cells
      <4>2. ring[head + i - 1] > 0
        BY <1>1, <1>7, <4>1 DEF RingInv
      <4> QED BY <1>7, <4>2
    <3> QED BY <3>1, <3>2
  <2>2. new \in [1 .. n -> 1 .. MaxBytes]
    BY <1>7, <2>1
  <2> QED BY <1>5, <2>2
<1> HIDE DEF new
<1>a. Len(reader.data) \in Nat /\ n \in Nat
  BY <1>3, <1>5
<1>10. /\ reader.data \o new \in Seq(1 .. MaxBytes)
       /\ Len(reader.data \o new) = Len(reader.data) + n /\ Len(reader.data) \in Nat
       /\ \A i \in 1 .. Len(reader.data) : (reader.data \o new)[i] = reader.data[i]
       /\ \A i \in 1 .. n : (reader.data \o new)[Len(reader.data) + i] = new[i]
  <2>1. Len(new) = n /\ new \in Seq(1 .. MaxBytes)
    BY <1>9
  <2>2. Len(reader.data \o new) = Len(reader.data) + Len(new)
    BY <1>3, <2>1, JoinedLength, Zenon
  <2>5. reader.data \o new \in Seq(1 .. MaxBytes)
    BY <1>3, <2>1, Joined
  <2>3. \A i \in 1 .. Len(reader.data) : (reader.data \o new)[i] = reader.data[i]
    BY <1>3, <2>1
  <2>4. \A i \in 1 .. Len(new) : (reader.data \o new)[Len(reader.data) + i] = new[i]
    BY <1>3, <2>1
  <2> QED BY <1>a, <2>1, <2>2, <2>3, <2>4, <2>5, Zenon
<1>11. /\ step \in {"grab", "call", "deliver"}
       /\ reader.expected - n \in Nat /\ reader.transfer - n \in Nat
       /\ reader.transfer - n <= reader.expected - n
       /\ step = "grab" => reader.transfer - n \in 1 .. RingSize \div 2
       /\ step = "call" => reader.expected - n > 0 /\ reader.transfer - n = 0
  BY <1>3, <1>5
<1> HIDE DEF step
<1>12. reader' \in ReaderSet
  <2>1. step \in ReaderSteps /\ reader.whole \in BOOLEAN
    BY <1>3, <1>11 DEF ReaderSteps, ReaderSet
  <2> QED BY <1>6, <1>10, <1>11, <2>1 DEF ReaderSet
<1>13. head' = (IF head + n = RingSize THEN 0 ELSE head + n) /\ head' \in Cells
  <2>1. CASE head + n = RingSize
    <3>1. RingSize % RingSize = 0
      <4>1. RingSize \in Nat \ {0} /\ RingSize \in RingSize .. 2 * RingSize - 1
        BY <1>4
      <4>2. RingSize % RingSize = RingSize - RingSize
        BY <4>1, ModuloOver
      <4> QED BY <1>4, <4>2
    <3> QED BY <1>2, <1>4, <2>1, <3>1 DEF Cells
  <2>2. CASE head + n # RingSize
    <3>1. PICK x \in 0 .. RingSize - 1 : x = head + n
      BY <1>4, <1>5, <2>2
    <3>2. x % RingSize = x
      BY <1>4, ModuloBelow
    <3> QED BY <1>2, <2>2, <3>1, <3>2 DEF Cells
  <2> QED BY <2>1, <2>2
<1>14. UartTypes'
  BY <1>1, <1>2, <1>12, <1>13 DEF UartTypes, Cells
<1>15. CallInv'
  <2>1. Fits /\ reader.whole => reader.transfer = reader.expected
    BY <1>1, <1>2 DEF CallInv
  <2>2. reader'.step = step /\ reader'.whole = reader.whole /\ reader'.expected = reader.expected - n
        /\ reader'.transfer = reader.transfer - n
    BY <1>6
  <2>3. rxSize' = 0
    BY <1>1, <1>2 DEF CallInv, UartTypes, UartRxAssumption
  <2>4. Fits' = Fits
    BY DEF Fits
  <2> QED BY <1>3, <1>5, <1>11, <2>1, <2>2, <2>3, <2>4 DEF CallInv
<1>16. Used' = Used - n /\ Position' = Position /\ (n <= Behind => Behind' = Behind - n)
  <2>1. Position' = Position
    BY <1>2 DEF Position
  <2>2. tail \in Cells /\ tail' = tail
    BY <1>1, <1>2 DEF UartTypes
  <2>3. Used' = IF tail' >= head' THEN tail' - head' ELSE RingSize + tail' - head'
    BY <1>13, <2>2, Ahead DEF Used
  <2> QED BY <1>4, <1>5, <1>13, <2>1, <2>2, <2>3 DEF Behind, Cells
<1>17. RingInv' /\ (~overrun => Passed' = Passed)
  <2>1. /\ \A d \in 1 .. RingSize : d <= written' => ring'[CellOf(d)'] = written' + 1 - d
        /\ \A k \in Cells' : k < written' => ring'[k] > 0
        /\ overrun' => written' >= RingSize
    BY <1>1, <1>2, <1>16 DEF RingInv, CellOf, Cells
  <2>2. ASSUME ~overrun
        PROVE  /\ Used' <= Behind' /\ Got' <= Taken'
               /\ \A i \in 1 .. Len(reader'.data) : reader'.data[i] = Taken' - Len(reader'.data) + i
               /\ Fits => Got' = Taken' /\ \A i \in 1 .. Len(handed') : handed'[i] = i
               /\ Passed' = Passed
    <3>1. /\ Used <= Behind /\ Got <= Taken /\ Got \in Nat
          /\ Fits => Got = Taken /\ \A i \in 1 .. Len(handed) : handed[i] = i
      BY <1>1, <2>2, GotIs DEF RingInv
    <3>2. Behind' = Behind - n /\ Taken' = Taken + n /\ Taken \in Int
      BY <1>2, <1>4, <1>5, <1>16, <3>1 DEF Taken
    <3>3. reader'.data = reader.data \o new /\ Len(reader'.data) = Len(reader.data) + n
      BY <1>6, <1>10
    <3>4. Got' = Got + n
      BY <1>1, <1>2, <1>5, <3>3, GotIs DEF Got
    <3>5. ASSUME NEW i \in 1 .. Len(reader.data) + n
          PROVE  reader'.data[i] = Taken' - Len(reader'.data) + i
      <4>1. CASE i \in 1 .. Len(reader.data)
        <5>1. reader.data[i] = Taken - Len(reader.data) + i
          BY <1>1, <2>2, <4>1 DEF RingInv
        <5>2. Taken' - Len(reader'.data) + i = Taken - Len(reader.data) + i
          BY <1>a, <3>2, <3>3
        <5> QED BY <1>10, <3>3, <4>1, <5>1, <5>2
      <4>2. CASE i \notin 1 .. Len(reader.data)
        <5>1. PICK j \in 1 .. n : i = Len(reader.data) + j
          BY <1>5, <1>a, <4>2, Halves
        <5>2. new[j] = Taken + j
          BY <1>8, <2>2
        <5>3. Taken' - Len(reader'.data) + i = Taken + j
          <6>1. Taken' - Len(reader'.data) = Taken - Len(reader.data)
            BY <1>a, <3>2, <3>3
          <6>2. Taken - Len(reader.data) + i = Taken + j
            <7>1. Taken \in Int /\ Len(reader.data) \in Nat /\ j \in Int
              BY <1>a, <3>2
            <7>2. Taken - Len(reader.data) + (Len(reader.data) + j) = Taken + j
              BY <7>1, Shift, Zenon
            <7> QED BY <5>1, <7>2, Zenon
          <6> QED BY <6>1, <6>2
        <5> QED BY <1>10, <3>3, <5>1, <5>2, <5>3
      <4> QED BY <4>1, <4>2
    <3>6. Used' <= Behind' /\ Got' <= Taken' /\ (Fits => Got' = Taken')
      BY <1>a, <1>4, <1>16, <3>1, <3>2, <3>4
    <3>7. Taken' - Len(reader'.data) = Taken - Len(reader.data)
      BY <1>a, <3>2, <3>3
    <3> QED BY <1>2, <3>1, <3>3, <3>5, <3>6, <3>7 DEF Passed
  <2> QED BY <1>2, <2>1, <2>2 DEF RingInv
<1>18. TokenInv'
  <2>1. reader'.step = step /\ reader'.transfer = reader.transfer - n
    BY <1>6
  <2>2. ASSUME ~stale, ~overrun
        PROVE  rxToken # 1 /\ reader.transfer - n <= Used'
    BY <1>1, <1>2, <1>3, <1>4, <1>5, <1>16, <2>2 DEF TokenInv
  <2>3. reader'.step # "wait"
    BY <1>11, <2>1
  <2> QED BY <1>2, <2>1, <2>2, <2>3 DEF TokenInv
<1> QED BY <1>14, <1>15, <1>17, <1>18 DEF UartInv

LEMMA UartInitInv == ASSUME UartRxAssumption, UartInit PROVE UartInv
<1>1. RingSize \in Nat /\ RingSize >= 2 /\ MaxBytes \in Nat /\ Package \in Nat \ {0} /\ RingSize \div 2 \in Nat
  BY DEF UartRxAssumption
<1>2. /\ Calling(Package, TRUE) \in ReaderSet /\ Calling(Package, TRUE).step = "call"
      /\ Calling(Package, TRUE).whole = TRUE /\ Calling(Package, TRUE).expected = Package
      /\ Calling(Package, TRUE).data = << >>
  BY <1>1, CallingIs, Zenon
<1>3. /\ reader \in ReaderSet /\ reader.step = "call" /\ reader.expected = Package /\ reader.data = << >>
      /\ head = 0 /\ tail = 0 /\ written = 0 /\ rxSize = 0 /\ rxToken = 0 /\ handed = << >>
      /\ overrun = FALSE /\ stale = FALSE /\ ring = [c \in Cells |-> 0]
  BY <1>2 DEF UartInit
<1>4. UartTypes
  <2>1. 0 \in Cells /\ 0 \in 0 .. MaxBytes /\ 0 \in 0 .. RingSize \div 2 /\ << >> \in Seq(1 .. MaxBytes)
    BY <1>1 DEF Cells
  <2> QED BY <1>3, <2>1 DEF UartTypes
<1>5. CallInv
  BY <1>1, <1>3 DEF CallInv
<1>6. RingInv
  <2>1. Position = 0
    BY <1>1, <1>3, ModuloBelow DEF Position
  <2>2. Behind = 0 /\ Taken = 0
    BY <1>3, <2>1 DEF Behind, Taken
  <2>3. Used = 0
    BY <1>3, <1>4, UsedIs
  <2>4. Len(<< >>) = 0
    OBVIOUS
  <2>5. Got = 0
    BY <1>3, <2>4 DEF Got
  <2> QED BY <1>1, <1>3, <2>2, <2>3, <2>4, <2>5 DEF RingInv, Cells
<1>7. TokenInv
  BY <1>3 DEF TokenInv
<1> QED BY <1>4, <1>5, <1>6, <1>7 DEF UartInv

LEMMA UartStepInv == ASSUME UartRxAssumption, UartInv, [UartNext]_uartVars PROVE UartInv'
<1>1. CASE UNCHANGED uartVars
  BY <1>1 DEF uartVars, UartInv, UartTypes, CallInv, RingInv, TokenInv, Cells, Used, Behind, Taken, Position, CellOf, Got, Fits
<1>2. CASE ReadStep
  BY <1>2, CheckKeeps, ArmKeeps, WakeKeeps, DisarmKeeps, GrabKeeps, LengthKeeps DEF ReadStep
<1> QED BY <1>1, <1>2, ReceiveKeeps, UartIrqKeeps, DeliverKeeps DEF UartNext

LEMMA UartConsequences == ASSUME UartRxAssumption, UartInv PROVE UartTypeOK /\ InOrder /\ GrabHasEnough
<1>1. UartTypes /\ CallInv /\ RingInv /\ TokenInv
  BY DEF UartInv
<1>2. /\ handed \in Seq(1 .. MaxBytes) /\ reader.data \in Seq(1 .. MaxBytes) /\ reader.transfer \in Nat
      /\ reader.step \in ReaderSteps /\ reader.whole \in BOOLEAN
  BY <1>1 DEF UartTypes, ReaderSet
<1>3. UartTypeOK
  <2>1. ASSUME NEW s \in Seq(1 .. MaxBytes) PROVE ToSet(s) \subseteq 0 .. MaxBytes
    <3>1. \A i \in DOMAIN s : s[i] \in 1 .. MaxBytes
      OBVIOUS
    <3> QED BY <3>1 DEF ToSet
  <2>2. {ToSet(handed), ToSet(reader.data)} \subseteq SUBSET (0 .. MaxBytes)
    BY <1>2, <2>1
  <2> QED BY <1>1, <1>2, <2>2 DEF UartTypeOK, UartTypes, CallInv
<1>4. InOrder
  <2> SUFFICES ASSUME ~overrun, Fits
               PROVE  handed \o reader.data = [i \in 1 .. Len(handed) + Len(reader.data) |-> i]
    BY DEF InOrder, Fits
  <2>1. /\ Got = Taken /\ \A i \in 1 .. Len(handed) : handed[i] = i
        /\ \A i \in 1 .. Len(reader.data) : reader.data[i] = Taken - Len(reader.data) + i
    BY <1>1 DEF RingInv
  <2>2. Got = Len(handed) + Len(reader.data) /\ Len(handed) \in Nat /\ Len(reader.data) \in Nat
    BY <1>1, GotIs
  <2>3. ASSUME NEW i \in 1 .. Len(handed) + Len(reader.data) PROVE (handed \o reader.data)[i] = i
    <3>1. CASE i \in 1 .. Len(handed)
      BY <1>2, <2>1, <3>1, Joined
    <3>2. CASE i \notin 1 .. Len(handed)
      <4>1. PICK j \in 1 .. Len(reader.data) : i = Len(handed) + j
        BY <2>2, <3>2, Halves, Zenon
      <4>2. (handed \o reader.data)[Len(handed) + j] = reader.data[j]
        BY <1>2, Joined
      <4>3. Taken - Len(reader.data) + j = i
        BY <2>1, <2>2, <4>1
      <4> QED BY <2>1, <4>1, <4>2, <4>3
    <3> QED BY <3>1, <3>2
  <2>4. handed \o reader.data = [i \in 1 .. Len(handed) + Len(reader.data) |-> (handed \o reader.data)[i]]
    <3>1. handed \o reader.data \in Seq(1 .. MaxBytes) /\ Len(handed \o reader.data) = Len(handed) + Len(reader.data)
      BY <1>2, Joined
    <3> QED BY <3>1
  <2> QED BY <2>3, <2>4
<1>5. GrabHasEnough
  <2>1. Used \in Nat
    BY <1>1, UsedIs
  <2> QED BY <1>1, <1>2, <2>1 DEF GrabHasEnough, TokenInv
<1> QED BY <1>3, <1>4, <1>5

\* What has passed the reader is never fewer.
LEMMA PassedGrows ==
    ASSUME UartRxAssumption, UartInv, [UartNext]_uartVars, ~overrun'
    PROVE  ~overrun /\ Passed \in Int /\ Passed' \in Int /\ Passed <= Passed'
<1>1. UartTypes /\ UartTypes'
  BY UartStepInv DEF UartInv
<1>2. Taken \in Int /\ Taken' \in Int /\ Len(reader.data) \in Nat /\ Len(reader'.data) \in Nat
  <2>1. Position \in Nat /\ head \in Nat /\ RingSize \in Nat /\ written \in Nat
    BY <1>1, UsedIs
  <2>2. head' \in Nat /\ written' \in Nat
    BY <1>1 DEF UartTypes, Cells, UartRxAssumption
  <2>3. Position' \in Nat
    <3>1. RingSize \in Nat \ {0}
      BY DEF UartRxAssumption
    <3>2. \A b \in Nat : b % RingSize \in Nat
      BY <3>1, Division
    <3>3. Position' = written' % RingSize
      BY DEF Position
    <3> QED BY <2>2, <3>2, <3>3
  <2>4. Len(reader.data) \in Nat /\ Len(reader'.data) \in Nat
    BY <1>1 DEF UartTypes, ReaderSet
  <2> QED BY <2>1, <2>2, <2>3, <2>4 DEF Taken, Behind
<1>3. Passed \in Int /\ Passed' \in Int /\ Passed <= Taken
  BY <1>2 DEF Passed
<1>4. ASSUME UNCHANGED <<head, written, overrun>>, reader'.data = reader.data \/ reader'.data = << >>
      PROVE  ~overrun /\ Passed <= Passed'
  <2>1. Taken' = Taken
    BY <1>4 DEF Taken, Behind, Position
  <2>2. CASE reader'.data = reader.data
    BY <1>2, <1>4, <2>1, <2>2 DEF Passed
  <2>3. CASE reader'.data = << >>
    <3>1. Len(<< >>) = 0
      OBVIOUS
    <3>2. Passed' = Taken
      BY <1>2, <2>1, <2>3, <3>1 DEF Passed
    <3> QED BY <1>3, <1>4, <3>2
  <2> QED BY <1>4, <2>2, <2>3
<1>5. CASE Receive
  BY <1>3, <1>5, ReceiveKeeps
<1>6. CASE Grab
  <2>1. ~overrun
    BY <1>6 DEF Grab, GrabBytes
  <2> QED BY <1>3, <1>6, <2>1, GrabKeeps
<1>7. reader \in ReaderSet
  BY <1>1 DEF UartTypes
<1>8. CASE UartIrq \/ UNCHANGED uartVars
  <2>1. UNCHANGED <<head, written, overrun, reader>>
    BY <1>8 DEF UartIrq, SeeTail, uartVars
  <2> QED BY <1>3, <1>4, <2>1
<1>9. CASE Check
  <2>1. UNCHANGED <<head, written, overrun>> /\ reader'.data = reader.data
    BY <1>7, <1>9 DEF Check, ReaderSet
  <2> QED BY <1>3, <1>4, <2>1
<1>10. CASE Arm \/ Wake \/ TimeOut
  <2>1. UNCHANGED <<head, written, overrun>> /\ reader'.data = reader.data
    BY <1>7, <1>10 DEF Arm, Wake, TimeOut, ReaderSet
  <2> QED BY <1>3, <1>4, <2>1
<1>11. CASE Disarm
  <2>1. UNCHANGED <<head, written, overrun>> /\ (reader'.data = reader.data \/ reader'.data = << >>)
    BY <1>7, <1>11 DEF Disarm, AfterTimeOut, ReaderSet
  <2> QED BY <1>3, <1>4, <2>1
<1>12. CASE Length \/ Deliver
  <2>1. UNCHANGED <<head, written, overrun>> /\ reader'.data = << >>
    BY <1>12 DEF Length, Deliver, Calling
  <2> QED BY <1>3, <1>4, <2>1
<1> QED BY <1>5, <1>6, <1>8, <1>9, <1>10, <1>11, <1>12 DEF UartNext, ReadStep

LEMMA BridgeInit == UartRxAssumption /\ Init => UartInv
BY UartInitInv DEF Init

LEMMA BridgeStep == UartRxAssumption /\ UartInv /\ [Next]_vars => UartInv'
<1> SUFFICES ASSUME UartRxAssumption, UartInv, [Next]_vars PROVE UartInv'
  OBVIOUS
<1>1. [UartNext]_uartVars
  BY DEF Next, Read, Forward, Discard, Send, UartNext, vars
<1> QED BY <1>1, UartStepInv

\* In every behaviour of the bridge the reader gets the bytes of the UART once and in order, however
\* interrupts, DMA and the reader's steps fall, until DMA has caught up with the reader; the
\* packages and the ring may be of any size that lets a package into half the ring
\* (platform_uart_receive_bytes, ring_buffer_get_data and the loop of _uart_get_one_packet).
THEOREM BytesInOrder == Spec => []InOrder
<1>1. UartRxAssumption /\ UartInv => InOrder
  BY UartConsequences
<1> QED BY <1>1, BridgeInit, BridgeStep, UartRxAssumption, PTL DEF Spec

\* In every behaviour of the bridge the reader begins to copy only when all it wants has arrived,
\* unless a token came too late for the call it was meant for or there was an overrun
\* (platform_uart.c:453-491).
THEOREM GrabsWhatIsThere == Spec => []GrabHasEnough
<1>1. UartRxAssumption /\ UartInv => GrabHasEnough
  BY UartConsequences
<1> QED BY <1>1, BridgeInit, BridgeStep, UartRxAssumption, PTL DEF Spec
-----------------------------------------------------------------------------
(* The messages: who has one, and its count *)

Has(t, m) == thread[t].msg = {m}
Held(c) == {m \in Messages : m \in ToSet(queue[c])}

\* The steps at which a thread has a message.
MessageSteps(t) == FreeSteps \cup (IF t = Uart THEN UartSteps \ {"idle", "unlock"} ELSE {"holding"})

MessageTypes ==
    /\ \A t \in Threads : IF thread[t].step \in MessageSteps(t) THEN \E m \in Messages : Has(t, m)
                          ELSE thread[t].msg = {}
    /\ open \subseteq Clients /\ heap \subseteq Messages /\ raced \in BOOLEAN
    /\ \A c \in Clients : Len(queue[c]) <= QueueLength
    /\ thread[Uart].step \in UartSteps /\ \A c \in Clients : thread[c].step \in ClientSteps
    /\ thread[Uart].ending => thread[Uart].step \in FreeSteps
    /\ mutex = IF thread[Uart].step \in {"next", "take", "push", "unlock"} \cup FreeSteps THEN {Uart} ELSE {}

\* Between reading a count and the last look at what was stored; with the only reference.
Changing == {"take", "decrement", "test"}
Alone == {"size", "release", "count", "counted", "lock"}

\* What a thread at work on the message's count knows of the count and of the others.
ThreadMsg(t, m) ==
    Has(t, m) =>
        /\ thread[t].step \in {"take", "decrement"} => thread[t].loaded = ref[m]
        /\ thread[t].step \in Changing => \A o \in Threads \ {t} : Has(o, m) => thread[o].step \notin Changing
        /\ thread[t].step \in Alone =>
              /\ ref[m] = 0
              /\ \A o \in Threads \ {t} : ~Has(o, m)
              /\ \A c \in Clients : m \notin Held(c)
        /\ t = Uart /\ thread[t].step \in {"size", "release"} => thread[t].ending

InUse(m) == (\E c \in Clients : m \in Held(c)) \/ \E t \in Threads : Has(t, m)

\* A message is allocated as long as somebody has it, and its count is right; the queues that are
\* still to get it do not have it.
MsgInv(m) ==
    /\ \A t \in Threads : ThreadMsg(t, m)
    /\ m \in heap <=> InUse(m)
    /\ m \in heap => ref[m] = References(m)
    /\ Pushing /\ Has(Uart, m) => \A s \in thread[Uart].rest : m \notin Held(table[s])

\* The number of bytes in use is changed by one thread at a time, and is right.
Sizing == {"counted", "release"}
SizeInv ==
    /\ \A t \in Threads : thread[t].step \in Sizing =>
          thread[t].loaded = sockLen /\ \A o \in Threads \ {t} : thread[o].step \notin Sizing
    /\ sockLen = Cardinality(heap) - (IF thread[Uart].step \in {"count", "counted"} THEN 1 ELSE 0)

Once(s) == \A i, j \in DOMAIN s : s[i] = s[j] => i = j

Counted == (\A m \in Messages : MsgInv(m)) /\ SizeInv /\ \A c \in Clients : Once(queue[c])

HeapInv == ~raced => Counted

MsgsInv == IInv /\ MessageTypes /\ HeapInv
-----------------------------------------------------------------------------
(* Counting *)

\* What a thread adds to the references of a message.
OwnOf(t, m) ==
    IF t = Uart THEN UartOwn(m)
    ELSE IF Has(t, m) /\ thread[t].step \in {"holding", "free", "decrement"} THEN 1 ELSE 0

LEMMA CardinalityOf ==
    ASSUME NEW S, IsFiniteSet(S), NEW x
    PROVE  /\ Cardinality(S) \in Nat
           /\ Cardinality(S \cup {x}) = IF x \in S THEN Cardinality(S) ELSE Cardinality(S) + 1
           /\ Cardinality(S \ {x}) = IF x \in S THEN Cardinality(S) - 1 ELSE Cardinality(S)
BY FS_CardinalityType, FS_AddElement, FS_RemoveElement

LEMMA ThreadsAre ==
    ASSUME SppAssumption
    PROVE  /\ Uart \notin Clients /\ Clients \subseteq Threads /\ Uart \in Threads /\ NoQueue \notin Clients
           /\ Threads \ {Uart} = Clients /\ IsFiniteSet(Clients) /\ IsFiniteSet(Messages)
BY DEF SppAssumption, Threads

LEMMA Sets ==
    ASSUME SppAssumption, NEW m
    PROVE  /\ IsFiniteSet(InQueues(m)) /\ IsFiniteSet(InHands(m))
           /\ Cardinality(InQueues(m)) \in Nat /\ Cardinality(InHands(m)) \in Nat
<1>1. InQueues(m) \subseteq Clients /\ InHands(m) \subseteq Clients /\ IsFiniteSet(Clients)
  BY DEF InQueues, InHands, SppAssumption
<1>2. IsFiniteSet(InQueues(m)) /\ IsFiniteSet(InHands(m))
  BY <1>1, FS_Subset
<1> QED BY <1>2, FS_CardinalityType

LEMMA UartOwnIs == ASSUME NEW m PROVE UartOwn(m) \in {0, 1, 2}
BY DEF UartOwn

LEMMA SetsNext ==
    ASSUME SppAssumption, NEW m
    PROVE  /\ IsFiniteSet(InQueues(m)') /\ IsFiniteSet(InHands(m)')
           /\ Cardinality(InQueues(m)') \in Nat /\ Cardinality(InHands(m)') \in Nat
<1>1. InQueues(m)' \subseteq Clients /\ InHands(m)' \subseteq Clients /\ IsFiniteSet(Clients)
  BY DEF InQueues, InHands, SppAssumption
<1>2. IsFiniteSet(InQueues(m)') /\ IsFiniteSet(InHands(m)')
  BY <1>1, FS_Subset
<1> QED BY <1>2, FS_CardinalityType

\* A message without references is nowhere but with who is about to free it; one with references
\* is in a queue or with a thread.
Nowhere(m) ==
    /\ \A c \in Clients : m \notin Held(c)
    /\ \A c \in Clients : Has(c, m) => thread[c].step \notin {"holding", "free", "decrement"}
    /\ UartOwn(m) = 0

LEMMA Unreferenced == SppAssumption => \A m \in Messages : References(m) = 0 => Nowhere(m)
<1> SUFFICES ASSUME SppAssumption, NEW m \in Messages, References(m) = 0 PROVE Nowhere(m)
  OBVIOUS
<1>1. /\ Cardinality(InQueues(m)) = 0 /\ Cardinality(InHands(m)) = 0 /\ UartOwn(m) = 0
  BY Sets, UartOwnIs DEF References
<1>2. InQueues(m) = {} /\ InHands(m) = {}
  BY <1>1, Sets, FS_EmptySet
<1> QED BY <1>1, <1>2 DEF InQueues, InHands, Held, Has, Nowhere

LEMMA UnreferencedNext == (\A m \in Messages : References(m) = 0 => Nowhere(m))'
BY Unreferenced, SppAssumption, PTL

LEMMA Referenced == SppAssumption => \A m \in Messages : References(m) # 0 => InUse(m)
<1> SUFFICES ASSUME SppAssumption, NEW m \in Messages, References(m) # 0 PROVE InUse(m)
  OBVIOUS
<1>1. CASE InQueues(m) # {}
  BY <1>1 DEF InQueues, InUse, Held
<1>2. CASE InHands(m) # {}
  BY <1>2, ThreadsAre DEF InHands, InUse, Has
<1>3. CASE InQueues(m) = {} /\ InHands(m) = {}
  <2>1. Cardinality(InQueues(m)) = 0 /\ Cardinality(InHands(m)) = 0
    BY <1>3, FS_EmptySet
  <2>2. UartOwn(m) # 0
    BY <2>1, UartOwnIs DEF References
  <2> QED BY <2>2, ThreadsAre DEF UartOwn, InUse, Has
<1> QED BY <1>1, <1>2, <1>3

LEMMA ReferencedNext == (\A m \in Messages : References(m) # 0 => InUse(m))'
BY Referenced, SppAssumption, PTL

\* A step of one thread that leaves the queues alone changes the references by what the thread has.
LEMMA ReferencesChange ==
    ASSUME SppAssumption, NEW m, NEW t \in Threads,
           \A o \in Threads \ {t} : thread'[o] = thread[o], UNCHANGED queue
    PROVE  References(m)' + OwnOf(t, m) = References(m) + OwnOf(t, m)'
<1>1. Cardinality(InQueues(m)') = Cardinality(InQueues(m)) /\ Cardinality(InQueues(m)) \in Nat
  BY Sets DEF InQueues
<1>2. UartOwn(m) \in {0, 1, 2} /\ UartOwn(m)' \in {0, 1, 2}
  BY DEF UartOwn
<1>3. CASE t = Uart
  <2>1. Cardinality(InHands(m)') = Cardinality(InHands(m)) /\ Cardinality(InHands(m)) \in Nat
    BY <1>3, Sets, ThreadsAre DEF InHands
  <2> QED BY <1>1, <1>2, <1>3, <2>1 DEF References, OwnOf
<1>4. CASE t # Uart
  <2>1. t \in Clients /\ thread'[Uart] = thread[Uart]
    BY <1>4, ThreadsAre
  <2>2. UartOwn(m)' = UartOwn(m)
    BY <2>1 DEF UartOwn
  <2>3. \A c \in Clients \ {t} : c \in InHands(m)' <=> c \in InHands(m)
    BY <2>1, ThreadsAre DEF InHands
  <2>4. t \in InHands(m) <=> OwnOf(t, m) = 1
    BY <1>4, <2>1 DEF InHands, OwnOf, Has
  <2>5. t \in InHands(m)' <=> OwnOf(t, m)' = 1
    BY <1>4, <2>1 DEF InHands, OwnOf, Has
  <2>6. OwnOf(t, m) \in {0, 1} /\ OwnOf(t, m)' \in {0, 1}
    BY <1>4 DEF OwnOf
  <2>7. InHands(m)' = IF OwnOf(t, m)' = 1 THEN InHands(m) \cup {t} ELSE InHands(m) \ {t}
    <3>1. InHands(m) \subseteq Clients /\ InHands(m)' \subseteq Clients
      BY DEF InHands
    <3> QED BY <2>1, <2>3, <2>5, <3>1
  <2>8. Cardinality(InHands(m)) \in Nat /\ Cardinality(InHands(m)') + OwnOf(t, m) = Cardinality(InHands(m)) + OwnOf(t, m)'
    <3>1. /\ Cardinality(InHands(m)) \in Nat
          /\ Cardinality(InHands(m) \cup {t}) = IF t \in InHands(m) THEN Cardinality(InHands(m)) ELSE Cardinality(InHands(m)) + 1
          /\ Cardinality(InHands(m) \ {t}) = IF t \in InHands(m) THEN Cardinality(InHands(m)) - 1 ELSE Cardinality(InHands(m))
      <4>1. IsFiniteSet(InHands(m))
        BY Sets, Zenon
      <4> QED BY <4>1, CardinalityOf, Zenon
    <3>2. CASE OwnOf(t, m)' = 1
      BY <2>4, <2>6, <2>7, <3>1, <3>2
    <3>3. CASE OwnOf(t, m)' # 1
      BY <2>4, <2>6, <2>7, <3>1, <3>3
    <3> QED BY <3>2, <3>3
  <2>9. /\ References(m) = Cardinality(InQueues(m)) + Cardinality(InHands(m)) + UartOwn(m)
        /\ References(m)' = Cardinality(InQueues(m)) + Cardinality(InHands(m)') + UartOwn(m)
    BY <1>1, <2>2 DEF References
  <2>10. Cardinality(InHands(m)') \in Nat
    BY SetsNext
  <2> HIDE DEF OwnOf, UartOwn
  <2> QED BY <1>1, <1>2, <2>6, <2>8, <2>9, <2>10
<1> QED BY <1>3, <1>4
-----------------------------------------------------------------------------
(* A step of one thread: what it leaves of the other threads and of the other messages *)

Moves(t) == \A o \in Threads \ {t} : thread'[o] = thread[o]

\* The clients in the table do not change while the UART's thread pushes.
TableKept == Pushing => UNCHANGED table

LEMMA RestIsInTable ==
    SppAssumption /\ IInv /\ Pushing => \A s \in thread[Uart].rest : s \in SlotIds /\ table[s] \in Clients
<1> SUFFICES ASSUME SppAssumption, IInv, Pushing, NEW s \in thread[Uart].rest
             PROVE  s \in SlotIds /\ table[s] \in Clients
  OBVIOUS
<1>1. s \in SlotIds
  BY ThreadsAre DEF IInv, TypeInv, ThreadRecords
<1>2. table[s] # NoQueue
  BY DEF IInv, TableInv
<1> QED BY <1>1, <1>2 DEF IInv, TypeInv

LEMMA RestIsInTableNext ==
    IInv' /\ Pushing' => (\A s \in thread[Uart].rest : s \in SlotIds /\ table[s] \in Clients)'
BY RestIsInTable, SppAssumption, PTL

LEMMA Untouched ==
    ASSUME SppAssumption, IInv, NEW t \in Threads, NEW m \in Messages, MsgInv(m), Moves(t), TableKept,
           ~Has(t, m), ~Has(t, m)', ref'[m] = ref[m], m \in heap' <=> m \in heap,
           \A c \in Clients : m \in Held(c)' <=> m \in Held(c)
    PROVE  MsgInv(m)'
<1>1. \A o \in Threads \ {t} : thread'[o] = thread[o] /\ (Has(o, m)' <=> Has(o, m))
  BY DEF Moves, Has
<1>2. ASSUME NEW o \in Threads PROVE ThreadMsg(o, m)'
  <2>1. CASE o = t
    BY <2>1 DEF ThreadMsg
  <2>2. CASE o # t
    <3>1. ThreadMsg(o, m)
      BY DEF MsgInv
    <3>2. \A p \in Threads \ {o} : Has(p, m)' => Has(p, m) /\ thread'[p] = thread[p]
      BY <1>1
    <3> QED BY <1>1, <2>2, <3>1, <3>2 DEF ThreadMsg
  <2> QED BY <2>1, <2>2
<1>3. InUse(m)' <=> InUse(m)
  BY <1>1 DEF InUse
<1>4. References(m)' = References(m)
  <2>1. InQueues(m)' = InQueues(m)
    <3>1. \A c \in Clients : (m \in ToSet(queue'[c])) <=> (m \in ToSet(queue[c]))
      BY DEF Held
    <3> QED BY <3>1 DEF InQueues
  <2>2. InHands(m)' = InHands(m)
    <3>1. \A c \in Clients : /\ thread'[c].msg = {m} <=> thread[c].msg = {m}
                             /\ thread[c].msg = {m} => thread'[c] = thread[c]
      BY <1>1, ThreadsAre DEF Has
    <3> QED BY <3>1 DEF InHands
  <2>3. UartOwn(m)' = UartOwn(m)
    <3>1. thread'[Uart].msg = {m} <=> thread[Uart].msg = {m}
      BY <1>1, ThreadsAre DEF Has
    <3>2. thread[Uart].msg = {m} => thread'[Uart] = thread[Uart]
      BY <1>1, ThreadsAre DEF Has
    <3> QED BY <3>1, <3>2 DEF UartOwn
  <2> QED BY <2>1, <2>2, <2>3 DEF References
<1>5. ASSUME Pushing', Has(Uart, m)', NEW s \in thread'[Uart].rest PROVE m \notin ToSet(queue'[table'[s]])
  <2>1. thread'[Uart] = thread[Uart] /\ Has(Uart, m)
    BY <1>1, <1>5, ThreadsAre
  <2>2. Pushing
    BY <1>5, <2>1 DEF Pushing
  <2>3. m \notin Held(table[s]) /\ table' = table
    BY <1>5, <2>1, <2>2 DEF MsgInv, TableKept
  <2>4. table[s] \in Clients
    BY <1>5, <2>1, <2>2, RestIsInTable
  <2> QED BY <2>3, <2>4 DEF Held
<1>6. (m \in heap => ref[m] = References(m))'
  BY <1>4 DEF MsgInv
<1>7. (m \in heap <=> InUse(m))'
  BY <1>3 DEF MsgInv
<1>8. (Pushing /\ Has(Uart, m) => \A s \in thread[Uart].rest : m \notin Held(table[s]))'
  BY <1>5 DEF Held
<1> QED BY <1>2, <1>6, <1>7, <1>8 DEF MsgInv
-----------------------------------------------------------------------------
(* A step of the thread that has the message *)

\* Nobody else works on the message's count.
Quiet(t, m) == \A o \in Threads \ {t} : Has(o, m) => thread[o].step \notin Changing

\* What the other threads know stays true.
LEMMA OthersKeep ==
    ASSUME SppAssumption, NEW t \in Threads, NEW m \in Messages, NEW o \in Threads \ {t},
           MsgInv(m), Has(t, m), Moves(t),
           Quiet(t, m) \/ (ref'[m] = ref[m] /\ ~(Has(t, m)' /\ thread'[t].step \in Changing))
    PROVE  ThreadMsg(o, m)'
<1>1. ThreadMsg(o, m) /\ thread'[o] = thread[o] /\ (Has(o, m)' <=> Has(o, m))
  BY DEF MsgInv, Moves, Has
<1>2. Has(o, m) => thread[o].step \notin Alone
  BY <1>1 DEF ThreadMsg
<1>3. CASE Quiet(t, m)
  <2>1. Has(o, m) => thread[o].step \notin Changing
    BY <1>3 DEF Quiet
  <2> QED BY <1>1, <1>2, <2>1 DEF ThreadMsg, Changing, Alone
<1>4. CASE ref'[m] = ref[m] /\ ~(Has(t, m)' /\ thread'[t].step \in Changing)
  <2>1. ASSUME Has(o, m), thread[o].step \in Changing, NEW p \in Threads \ {o}, Has(p, m)'
        PROVE  thread'[p].step \notin Changing
    <3>1. CASE p = t
      BY <1>4, <2>1, <3>1
    <3>2. CASE p # t
      <4>1. thread'[p] = thread[p] /\ Has(p, m)
        BY <2>1, <3>2 DEF Moves, Has
      <4> QED BY <1>1, <2>1, <4>1 DEF ThreadMsg
    <3> QED BY <3>1, <3>2
  <2> QED BY <1>1, <1>2, <1>4, <2>1 DEF ThreadMsg, Changing, Alone
<1> QED BY <1>3, <1>4

\* A step on the message in hand that leaves queues and heap alone and changes the count by as much
\* as the thread's references, and gives up the message only if there are others.
LEMMA AtWork ==
    ASSUME SppAssumption, IInv, IInv', NEW t \in Threads, NEW m \in Messages, MsgInv(m), Moves(t),
           Has(t, m), UNCHANGED <<queue, heap>>,
           ref[m] \in Int, ref'[m] \in Int,
           ref'[m] + OwnOf(t, m) = ref[m] + OwnOf(t, m)',
           Has(t, m)' \/ ref'[m] # 0,
           ThreadMsg(t, m)',
           Quiet(t, m) \/ (ref'[m] = ref[m] /\ ~(Has(t, m)' /\ thread'[t].step \in Changing)),
           \/ \A c \in Clients : m \notin Held(c)
           \/ TableKept /\ (Pushing' => Pushing /\ thread'[Uart].rest \subseteq thread[Uart].rest)
    PROVE  MsgInv(m)'
<1>1. m \in heap
  BY DEF MsgInv, InUse
<1>2. ref'[m] = References(m)'
  <2>1. References(m)' + OwnOf(t, m) = References(m) + OwnOf(t, m)'
    BY ReferencesChange, Zenon DEF Moves
  <2>2. References(m) = ref[m]
    BY <1>1 DEF MsgInv
  <2>3. OwnOf(t, m) \in Int /\ OwnOf(t, m)' \in Int
    BY DEF OwnOf, UartOwn
  <2>4. References(m)' \in Int
    <3>1. UartOwn(m)' \in Nat
      BY DEF UartOwn
    <3> QED BY <3>1, SetsNext DEF References
  <2> QED BY <2>1, <2>2, <2>3, <2>4
<1>3. InUse(m)'
  <2>1. CASE Has(t, m)'
    BY <2>1 DEF InUse
  <2>2. CASE ref'[m] # 0
    BY <1>2, <2>2, ReferencedNext
  <2> QED BY <2>1, <2>2
<1>4. \A o \in Threads : ThreadMsg(o, m)'
  BY OthersKeep
<1>5. ASSUME Pushing', Has(Uart, m)', NEW s \in thread'[Uart].rest PROVE m \notin ToSet(queue'[table'[s]])
  <2>1. CASE \A c \in Clients : m \notin Held(c)
    <3>1. table'[s] \in Clients
      BY <1>5, RestIsInTableNext
    <3> QED BY <2>1, <3>1 DEF Held
  <2>2. CASE TableKept /\ (Pushing' => Pushing /\ thread'[Uart].rest \subseteq thread[Uart].rest)
    <3>1. Has(Uart, m)
      BY <1>5, ThreadsAre DEF Moves, Has
    <3>2. Pushing /\ s \in thread[Uart].rest /\ table' = table
      BY <1>5, <2>2 DEF TableKept
    <3>3. m \notin Held(table[s]) /\ table[s] \in Clients
      BY <3>1, <3>2, RestIsInTable DEF MsgInv
    <3> QED BY <3>2, <3>3 DEF Held
  <2> QED BY <2>1, <2>2
<1>6. (m \in heap <=> InUse(m))'
  BY <1>1, <1>3
<1>7. (m \in heap => ref[m] = References(m))'
  BY <1>2
<1>8. (Pushing /\ Has(Uart, m) => \A s \in thread[Uart].rest : m \notin Held(table[s]))'
  BY <1>5 DEF Held
<1> QED BY <1>4, <1>6, <1>7, <1>8 DEF MsgInv

LEMMA OneMessage ==
    ASSUME SppAssumption, IInv, NEW t \in Threads, NEW m \in Messages, \A n \in Messages : MsgInv(n),
           thread[t].msg \subseteq {m}, Moves(t), TableKept, thread'[t].msg \subseteq {m}, MsgInv(m)',
           \A n \in Messages \ {m} :
              ref'[n] = ref[n] /\ (n \in heap' <=> n \in heap) /\ \A c \in Clients : n \in Held(c)' <=> n \in Held(c)
    PROVE  \A n \in Messages : MsgInv(n)'
<1> SUFFICES ASSUME NEW n \in Messages \ {m} PROVE MsgInv(n)'
  OBVIOUS
<1>1. ~Has(t, n) /\ ~Has(t, n)'
  BY DEF Has
<1> QED BY <1>1, Untouched

LEMMA NoMessage ==
    ASSUME SppAssumption, IInv, NEW t \in Threads, \A n \in Messages : MsgInv(n),
           thread[t].msg = {}, Moves(t), TableKept, thread'[t].msg = {}, UNCHANGED <<queue, heap, ref>>
    PROVE  \A n \in Messages : MsgInv(n)'
<1> SUFFICES ASSUME NEW n \in Messages PROVE MsgInv(n)'
  OBVIOUS
<1>1. ~Has(t, n) /\ ~Has(t, n)' /\ \A c \in Clients : n \in Held(c)' <=> n \in Held(c)
  BY DEF Has, Held
<1> QED BY <1>1, Untouched
-----------------------------------------------------------------------------
(* The number of bytes in use *)

Counting == thread[Uart].step \in {"count", "counted"}

LEMMA SizeFrame ==
    ASSUME SizeInv, NEW t \in Threads, Moves(t), UNCHANGED <<sockLen, heap>>,
           thread'[t].step \in Sizing =>
              thread'[t].loaded = sockLen /\ \A o \in Threads \ {t} : thread[o].step \notin Sizing,
           Counting' <=> Counting
    PROVE  SizeInv'
<1>1. ASSUME NEW o \in Threads, thread'[o].step \in Sizing
      PROVE  thread'[o].loaded = sockLen /\ \A p \in Threads \ {o} : thread'[p].step \notin Sizing
  BY <1>1 DEF SizeInv, Moves
<1>2. (IF thread[Uart].step \in {"count", "counted"} THEN 1 ELSE 0)' = IF thread[Uart].step \in {"count", "counted"} THEN 1 ELSE 0
  BY DEF Counting
<1>3. (sockLen = Cardinality(heap) - (IF thread[Uart].step \in {"count", "counted"} THEN 1 ELSE 0))'
  BY <1>2 DEF SizeInv
<1> QED BY <1>1, <1>3 DEF SizeInv

LEMMA SizeStored ==
    ASSUME SizeInv, NEW t \in Threads, Moves(t), thread[t].step \in Sizing, thread'[t].step \notin Sizing,
           (sockLen = Cardinality(heap) - (IF thread[Uart].step \in {"count", "counted"} THEN 1 ELSE 0))'
    PROVE  SizeInv'
<1>1. \A o \in Threads : thread'[o].step \notin Sizing
  BY DEF SizeInv, Moves
<1> QED BY <1>1 DEF SizeInv
-----------------------------------------------------------------------------
(* socket_msg_free *)

\* The caller goes on without the message, or, after a push that failed, with its own reference.
LEMMA FreedIs ==
    ASSUME SppAssumption, TypeInv, NEW t \in Threads, thread' = Freed(t)
    PROVE  /\ Moves(t)
           /\ IF t = Uart /\ ~thread[t].ending
              THEN /\ thread'[t].step = "next" /\ thread'[t].msg = thread[t].msg
                   /\ thread'[t].rest = thread[t].rest /\ ~thread'[t].ending
              ELSE thread'[t].msg = {}
           /\ thread'[t].step = IF t # Uart THEN IF thread[t].ending THEN "draining" ELSE "serving"
                                ELSE IF thread[t].ending THEN "unlock" ELSE "next"
           /\ t = Uart => ~thread'[t].ending
<1>1. thread \in [Threads -> ThreadRecords]
  BY DEF TypeInv
<1> QED BY <1>1 DEF Freed, AtRest, Draining, Moves, ThreadRecords

\* A thread between free() and the last look at the count has one message.
LEMMA InHand ==
    ASSUME MessageTypes, NEW t \in Threads, thread[t].step \in MessageSteps(t)
    PROVE  \E m \in Messages : Has(t, m)
BY DEF MessageTypes

LEMMA StillPushing ==
    ASSUME SppAssumption, NEW t \in Threads, Moves(t),
           t = Uart => Pushing /\ thread'[Uart].rest \subseteq thread[Uart].rest
    PROVE  Pushing' => Pushing /\ thread'[Uart].rest \subseteq thread[Uart].rest
<1>1. CASE t = Uart
  BY <1>1
<1>2. CASE t # Uart
  <2>1. thread'[Uart] = thread[Uart]
    BY <1>2, ThreadsAre DEF Moves
  <2> QED BY <2>1 DEF Pushing
<1> QED BY <1>1, <1>2

LEMMA FreeLoadKeeps ==
    ASSUME SppAssumption, IInv, IInv', MessageTypes, Counted, NEW t \in Threads, FreeLoad(t), ~raced'
    PROVE  Counted'
<1>1. thread \in [Threads -> ThreadRecords] /\ UNCHANGED <<table, queue, heap, ref, sockLen>>
  BY DEF IInv, TypeInv, FreeLoad
<1>2. PICK m \in Messages : Has(t, m)
  BY InHand DEF FreeLoad, MessageSteps, FreeSteps
<1>3. /\ Moves(t) /\ thread[t].step = "free" /\ thread'[t].step = "decrement"
      /\ thread'[t].msg = thread[t].msg /\ thread'[t].loaded = ref[m]
      /\ thread'[t].rest = thread[t].rest /\ thread'[t].ending = thread[t].ending
  BY <1>1, <1>2 DEF FreeLoad, Moves, ThreadRecords, Has
<1>4. Quiet(t, m)
  BY <1>2 DEF FreeLoad, OnRef, Quiet, Has, Changing
<1>5. OwnOf(t, m)' = OwnOf(t, m)
  BY <1>2, <1>3 DEF OwnOf, UartOwn, Has
<1>6. ThreadMsg(t, m)'
  <2>1. \A o \in Threads \ {t} : Has(o, m)' => thread'[o].step \notin Changing
    BY <1>3, <1>4 DEF Quiet, Has, Moves
  <2> QED BY <1>1, <1>3, <2>1 DEF ThreadMsg, Alone
<1>7. MsgInv(m)'
  <2>1. Pushing' => Pushing /\ thread'[Uart].rest \subseteq thread[Uart].rest
    BY <1>3, StillPushing DEF Pushing, FreeSteps
  <2>2. MsgInv(m) /\ ref[m] \in Int /\ Has(t, m)' /\ OwnOf(t, m) \in Int
    BY <1>2, <1>3 DEF Counted, Has, OwnOf, UartOwn, IInv, TypeInv
  <2>3. ref'[m] = ref[m] /\ TableKept /\ UNCHANGED <<queue, heap>>
    BY <1>1 DEF TableKept
  <2> QED BY <1>2, <1>3, <1>4, <1>5, <1>6, <2>1, <2>2, <2>3, AtWork
<1>8. \A n \in Messages : MsgInv(n)'
  <2>1. /\ thread[t].msg \subseteq {m} /\ thread'[t].msg \subseteq {m} /\ TableKept
        /\ \A n \in Messages : MsgInv(n)
        /\ \A n \in Messages : ref'[n] = ref[n] /\ (n \in heap' <=> n \in heap) /\ \A c \in Clients : n \in Held(c)' <=> n \in Held(c)
    BY <1>1, <1>2, <1>3 DEF Has, TableKept, Held, Counted
  <2> QED BY <1>3, <1>7, <2>1, OneMessage
<1>9. SizeInv'
  <2>1. Counting' <=> Counting
    BY <1>3, ThreadsAre DEF Counting, Moves
  <2> QED BY <1>1, <1>3, <2>1, SizeFrame DEF Counted, Sizing
<1> QED BY <1>1, <1>8, <1>9 DEF Counted

\* What all the others that have a message whose count is not being changed elsewhere may be doing,
\* when there are no references left.
LEMMA OnlyOne ==
    ASSUME SppAssumption, IInv, MessageTypes, NEW t \in Threads, NEW m \in Messages, MsgInv(m),
           Has(t, m), thread[t].step \in Changing, Moves(t), UNCHANGED queue,
           References(m)' = 0
    PROVE  /\ \A o \in Threads \ {t} : ~Has(o, m)'
           /\ \A c \in Clients : m \notin Held(c)'
<1>1. Nowhere(m)'
  BY UnreferencedNext
<1>2. ASSUME NEW o \in Threads \ {t}, Has(o, m)' PROVE FALSE
  <2>1. Has(o, m) /\ thread'[o] = thread[o] /\ thread[o].step \in MessageSteps(o)
    BY <1>2 DEF Moves, Has, MessageTypes
  <2>2. thread[o].step \notin Changing \cup Alone
    BY <2>1 DEF MsgInv, ThreadMsg
  <2>3. CASE o = Uart
    <3>1. UartOwn(m)' = 0 /\ thread'[Uart] = thread[Uart] /\ Has(Uart, m)'
      BY <1>1, <1>2, <2>1, <2>3 DEF Nowhere
    <3>2. thread[Uart].step \in {"free", "next", "push"}
      BY <2>1, <2>2, <2>3 DEF MessageSteps, Changing, Alone, UartSteps, FreeSteps
    <3>3. thread[Uart].ending => thread[Uart].step \in FreeSteps
      BY DEF MessageTypes
    <3> QED BY <3>1, <3>2, <3>3 DEF UartOwn, FreeSteps, Has
  <2>4. CASE o # Uart
    <3>1. o \in Clients /\ thread'[o].step \notin {"holding", "free", "decrement"}
      BY <1>1, <1>2, <2>4, ThreadsAre DEF Nowhere
    <3> QED BY <2>1, <2>2, <2>4, <3>1 DEF MessageSteps, Changing, Alone, FreeSteps
  <2> QED BY <2>3, <2>4
<1> QED BY <1>1, <1>2 DEF Nowhere

LEMMA FreeStoreKeeps ==
    ASSUME SppAssumption, IInv, IInv', MessageTypes, Counted, NEW t \in Threads, FreeStore(t), ~raced'
    PROVE  Counted'
<1>1. thread \in [Threads -> ThreadRecords] /\ UNCHANGED <<table, queue, heap, sockLen>> /\ ref \in [Messages -> Int]
  BY DEF IInv, TypeInv, FreeStore
<1>2. PICK m \in Messages : Has(t, m)
  BY InHand DEF FreeStore, MessageSteps, FreeSteps
<1>3. thread[t].step = "decrement" /\ MsgInv(m) /\ thread[t].loaded = ref[m] /\ Quiet(t, m)
  BY <1>2 DEF FreeStore, Counted, MsgInv, ThreadMsg, Changing, Quiet
<1>4. ref' = [ref EXCEPT ![m] = ref[m] - 1]
  BY <1>2, <1>3 DEF FreeStore, Has
<1>5. ref[m] \in Int /\ ref'[m] = ref[m] - 1 /\ \A n \in Messages \ {m} : ref'[n] = ref[n]
  BY <1>1, <1>4
<1>6. ref[m] = References(m)
  BY <1>2, <1>3 DEF MsgInv, InUse
<1>7. OwnOf(t, m) = IF t = Uart /\ ~thread[t].ending THEN 2 ELSE 1
  BY <1>2, <1>3 DEF OwnOf, UartOwn, Has
<1>8. Moves(t) /\ (thread'[t].step \notin FreeSteps => thread'[t].step \in {"next", "unlock", "draining", "serving"})
      /\ thread'[t].msg \subseteq {m} /\ (t = Uart /\ Pushing' => thread'[t].rest = thread[t].rest)
      /\ thread'[t].step \notin Sizing /\ thread'[t].step \notin {"count", "counted"}
  <2>1. CASE thread' = Freed(t)
    <3>1. TypeInv
      BY DEF IInv
    <3> QED BY <1>2, <2>1, <3>1, FreedIs DEF FreeSteps, Sizing, Has, Pushing
  <2>2. CASE thread' # Freed(t)
    <3>1. thread' = [thread EXCEPT ![t].step = "size", ![t].loaded = 0] \/ thread' = [thread EXCEPT ![t].step = "test", ![t].loaded = 0]
      BY <2>2 DEF FreeStore
    <3> QED BY <1>1, <1>2, <3>1 DEF ThreadRecords, Moves, FreeSteps, Sizing, Has
  <2> QED BY <2>1, <2>2
<1>9. ASSUME OwnOf(t, m)' = OwnOf(t, m) - 1 PROVE References(m)' = ref[m] - 1
  <2>1. References(m)' + OwnOf(t, m) = References(m) + OwnOf(t, m)'
    BY <1>1, <1>8, ReferencesChange, Zenon DEF Moves
  <2>2. References(m)' \in Int
    <3>1. UartOwn(m)' \in Nat
      BY DEF UartOwn
    <3> QED BY <3>1, SetsNext DEF References
  <2>3. OwnOf(t, m) \in Int
    BY <1>7
  <2> QED BY <1>5, <1>6, <1>9, <2>1, <2>2, <2>3
<1>10. /\ OwnOf(t, m)' = OwnOf(t, m) - 1
       /\ Has(t, m)' \/ ref'[m] # 0
       /\ ThreadMsg(t, m)'
  <2>1. CASE thread' = [thread EXCEPT ![t].step = "test", ![t].loaded = 0]
    <3>1. /\ thread'[t].step = "test" /\ thread'[t].msg = thread[t].msg
          /\ thread'[t].ending = thread[t].ending
      BY <1>1, <2>1 DEF ThreadRecords
    <3>2. OwnOf(t, m)' = IF t = Uart /\ ~thread[t].ending THEN 1 ELSE 0
      BY <1>2, <3>1 DEF OwnOf, UartOwn, Has
    <3>3. \A o \in Threads \ {t} : Has(o, m)' => thread'[o].step \notin Changing
      BY <1>3, <1>8 DEF Quiet, Has, Moves
    <3> QED BY <1>2, <1>7, <3>1, <3>2, <3>3 DEF Has, ThreadMsg, Alone
  <2>2. CASE thread[t].loaded = 1 /\ thread' = [thread EXCEPT ![t].step = "size", ![t].loaded = 0]
    <3>1. /\ thread'[t].step = "size" /\ thread'[t].msg = thread[t].msg
          /\ thread'[t].ending = thread[t].ending
      BY <1>1, <2>2 DEF ThreadRecords
    <3>2. ~(t = Uart /\ ~thread[t].ending)
      <4>1. ASSUME t = Uart, ~thread[t].ending PROVE FALSE
        <5>1. UartOwn(m) = 2
          BY <1>7, <4>1 DEF OwnOf
        <5>2. References(m) >= 2
          BY <5>1, Sets DEF References
        <5> QED BY <1>3, <1>6, <2>2, <5>2
      <4> QED BY <4>1
    <3>3. OwnOf(t, m)' = 0 /\ OwnOf(t, m) = 1
      BY <1>2, <1>7, <3>1, <3>2 DEF OwnOf, UartOwn, Has
    <3>4. References(m)' = 0 /\ ref'[m] = 0
      BY <1>3, <1>5, <1>9, <2>2, <3>3
    <3>5. (\A o \in Threads \ {t} : ~Has(o, m)') /\ \A c \in Clients : m \notin Held(c)'
      BY <1>1, <1>2, <1>3, <1>8, <3>4, OnlyOne DEF Changing
    <3> QED BY <1>2, <3>1, <3>2, <3>3, <3>4, <3>5 DEF Has, ThreadMsg, Changing
  <2>3. CASE thread[t].loaded # 1 /\ thread' = Freed(t)
    <3>1. TypeInv
      BY DEF IInv
    <3>2. /\ IF t = Uart /\ ~thread[t].ending
             THEN /\ thread'[t].step = "next" /\ thread'[t].msg = thread[t].msg
                  /\ ~thread'[t].ending
             ELSE thread'[t].msg = {}
          /\ thread'[t].step \in {"draining", "serving", "unlock", "next"}
      BY <2>3, <3>1, FreedIs
    <3>3. OwnOf(t, m)' = IF t = Uart /\ ~thread[t].ending THEN 1 ELSE 0
      BY <1>2, <3>2 DEF OwnOf, UartOwn, Has, FreeSteps
    <3>4. ref'[m] # 0
      BY <1>3, <1>5, <2>3
    <3> QED BY <1>7, <3>2, <3>3, <3>4 DEF ThreadMsg, Changing, Alone
  <2> QED BY <2>1, <2>2, <2>3 DEF FreeStore
<1>11. MsgInv(m)'
  <2>1. Pushing' => Pushing /\ thread'[Uart].rest \subseteq thread[Uart].rest
    <3>1. CASE t = Uart /\ Pushing'
      BY <1>3, <1>8, <3>1 DEF Pushing, FreeSteps
    <3>2. CASE t # Uart
      BY <1>8, <3>2, StillPushing
    <3> QED BY <3>1, <3>2
  <2>2. ref'[m] \in Int /\ TableKept /\ UNCHANGED <<queue, heap>>
    BY <1>1, <1>5 DEF TableKept
  <2>3. ref'[m] + OwnOf(t, m) = ref[m] + OwnOf(t, m)'
    BY <1>5, <1>7, <1>10
  <2> QED BY <1>2, <1>3, <1>5, <1>8, <1>10, <2>1, <2>2, <2>3, AtWork
<1>12. \A n \in Messages : MsgInv(n)'
  <2>1. /\ thread[t].msg \subseteq {m} /\ TableKept /\ \A n \in Messages : MsgInv(n)
        /\ \A n \in Messages : (n \in heap' <=> n \in heap) /\ \A c \in Clients : n \in Held(c)' <=> n \in Held(c)
    BY <1>1, <1>2 DEF Has, TableKept, Held, Counted
  <2> QED BY <1>5, <1>8, <1>11, <2>1, OneMessage
<1>13. SizeInv'
  <2>1. Counting' <=> Counting
    BY <1>3, <1>8, ThreadsAre DEF Counting, Moves
  <2> QED BY <1>1, <1>8, <2>1, SizeFrame DEF Counted
<1> QED BY <1>1, <1>12, <1>13 DEF Counted

LEMMA FreeTestKeeps ==
    ASSUME SppAssumption, IInv, IInv', MessageTypes, Counted, NEW t \in Threads, FreeTest(t), ~raced'
    PROVE  Counted'
<1>1. thread \in [Threads -> ThreadRecords] /\ UNCHANGED <<table, queue, heap, ref, sockLen>> /\ ref \in [Messages -> Int]
  BY DEF IInv, TypeInv, FreeTest
<1>2. PICK m \in Messages : Has(t, m)
  BY InHand DEF FreeTest, MessageSteps, FreeSteps
<1>3. thread[t].step = "test" /\ MsgInv(m) /\ Quiet(t, m) /\ ref[m] \in Int
  BY <1>1, <1>2 DEF FreeTest, Counted, MsgInv, ThreadMsg, Changing, Quiet
<1>4. thread' = IF ref[m] = 0 THEN [thread EXCEPT ![t].step = "size"] ELSE Freed(t)
  BY <1>2 DEF FreeTest, Has
<1>5. ref[m] = References(m)
  BY <1>2, <1>3 DEF MsgInv, InUse
<1>6. OwnOf(t, m) = IF t = Uart /\ ~thread[t].ending THEN 1 ELSE 0
  BY <1>2, <1>3 DEF OwnOf, UartOwn, Has
<1>7. /\ Moves(t) /\ thread'[t].msg \subseteq {m} /\ (t = Uart /\ Pushing' => thread'[t].rest = thread[t].rest)
      /\ thread'[t].step \notin Sizing /\ thread'[t].step \notin {"count", "counted"} \cup Changing
      /\ OwnOf(t, m)' = OwnOf(t, m)
      /\ Has(t, m)' \/ ref[m] # 0
      /\ ThreadMsg(t, m)'
  <2>1. CASE ref[m] = 0
    <3>1. /\ Moves(t) /\ thread'[t].step = "size" /\ thread'[t].msg = thread[t].msg
          /\ thread'[t].ending = thread[t].ending /\ thread'[t].rest = thread[t].rest
      BY <1>1, <1>4, <2>1 DEF ThreadRecords, Moves
    <3>2. UartOwn(m) = 0
      BY <1>5, <2>1, Unreferenced DEF Nowhere
    <3>3. ~(t = Uart /\ ~thread[t].ending) /\ OwnOf(t, m) = 0
      BY <1>6, <3>2 DEF OwnOf
    <3>4. OwnOf(t, m)' = 0
      BY <1>2, <3>1, <3>3 DEF OwnOf, UartOwn, Has
    <3>5. References(m)' = 0
      <4>1. References(m)' + OwnOf(t, m) = References(m) + OwnOf(t, m)'
        BY <1>1, <3>1, ReferencesChange, Zenon DEF Moves
      <4>2. References(m)' \in Int
        <5>1. UartOwn(m)' \in Nat
          BY DEF UartOwn
        <5> QED BY <5>1, SetsNext DEF References
      <4> QED BY <1>5, <2>1, <3>3, <3>4, <4>1, <4>2
    <3>6. (\A o \in Threads \ {t} : ~Has(o, m)') /\ \A c \in Clients : m \notin Held(c)'
      BY <1>1, <1>2, <1>3, <3>1, <3>5, OnlyOne DEF Changing
    <3>7. ThreadMsg(t, m)'
      BY <1>1, <2>1, <3>1, <3>3, <3>6 DEF ThreadMsg, Changing
    <3> QED BY <1>2, <3>1, <3>3, <3>4, <3>7 DEF Has, Sizing, Changing
  <2>2. CASE ref[m] # 0
    <3>1. TypeInv
      BY DEF IInv
    <3>2. thread' = Freed(t)
      BY <1>4, <2>2
    <3>3. /\ IF t = Uart /\ ~thread[t].ending
             THEN /\ thread'[t].step = "next" /\ thread'[t].msg = thread[t].msg
                  /\ thread'[t].rest = thread[t].rest /\ ~thread'[t].ending
             ELSE thread'[t].msg = {}
          /\ thread'[t].step \in {"draining", "serving", "unlock", "next"}
          /\ Moves(t) /\ (t = Uart /\ thread[t].ending => thread'[t].step = "unlock")
      BY <3>1, <3>2, FreedIs
    <3>4. OwnOf(t, m)' = IF t = Uart /\ ~thread[t].ending THEN 1 ELSE 0
      BY <1>2, <3>3 DEF OwnOf, UartOwn, Has, FreeSteps
    <3>5. t = Uart /\ Pushing' => thread'[t].rest = thread[t].rest
      BY <3>3 DEF Pushing, FreeSteps
    <3>6. ThreadMsg(t, m)'
      BY <3>3 DEF ThreadMsg, Changing, Alone
    <3> QED BY <1>2, <1>6, <2>2, <3>3, <3>4, <3>5, <3>6 DEF Has, Sizing, Changing
  <2> QED BY <2>1, <2>2
<1>8. MsgInv(m)'
  <2>1. Pushing' => Pushing /\ thread'[Uart].rest \subseteq thread[Uart].rest
    <3>1. CASE t = Uart /\ Pushing'
      BY <1>3, <1>7, <3>1 DEF Pushing, FreeSteps
    <3>2. CASE t # Uart
      BY <1>7, <3>2, StillPushing
    <3> QED BY <3>1, <3>2
  <2>2. ref'[m] = ref[m] /\ TableKept /\ UNCHANGED <<queue, heap>>
    BY <1>1 DEF TableKept
  <2>3. OwnOf(t, m) \in Int
    BY <1>6
  <2> QED BY <1>2, <1>3, <1>7, <2>1, <2>2, <2>3, AtWork
<1>9. \A n \in Messages : MsgInv(n)'
  <2>1. /\ thread[t].msg \subseteq {m} /\ TableKept /\ \A n \in Messages : MsgInv(n)
        /\ \A n \in Messages : ref'[n] = ref[n] /\ (n \in heap' <=> n \in heap) /\ \A c \in Clients : n \in Held(c)' <=> n \in Held(c)
    BY <1>1, <1>2 DEF Has, TableKept, Held, Counted
  <2> QED BY <1>7, <1>8, <2>1, OneMessage
<1>10. SizeInv'
  <2>1. Counting' <=> Counting
    BY <1>3, <1>7, ThreadsAre DEF Counting, Moves
  <2> QED BY <1>1, <1>7, <2>1, SizeFrame DEF Counted
<1> QED BY <1>1, <1>9, <1>10 DEF Counted

LEMMA SizeLoadKeeps ==
    ASSUME SppAssumption, IInv, IInv', MessageTypes, Counted, NEW t \in Threads, SizeLoad(t), ~raced'
    PROVE  Counted'
<1>1. thread \in [Threads -> ThreadRecords] /\ UNCHANGED <<table, queue, heap, ref, sockLen>> /\ ref \in [Messages -> Int]
  BY DEF IInv, TypeInv, SizeLoad
<1>2. PICK m \in Messages : Has(t, m)
  BY InHand DEF SizeLoad, MessageSteps, FreeSteps
<1>3. /\ Moves(t) /\ thread[t].step = "size" /\ thread'[t].step = "release"
      /\ thread'[t].msg = thread[t].msg /\ thread'[t].loaded = sockLen
      /\ thread'[t].rest = thread[t].rest /\ thread'[t].ending = thread[t].ending
  BY <1>1 DEF SizeLoad, Moves, ThreadRecords
<1>4. ThreadMsg(t, m) /\ MsgInv(m) /\ ref[m] \in Int
  BY <1>1 DEF Counted, MsgInv
<1>5. /\ ref[m] = 0 /\ (t = Uart => thread[t].ending)
      /\ \A o \in Threads \ {t} : ~Has(o, m)
      /\ \A c \in Clients : m \notin Held(c)
  BY <1>2, <1>3, <1>4 DEF ThreadMsg, Alone
<1>6. OwnOf(t, m) = 0 /\ OwnOf(t, m)' = 0 /\ Quiet(t, m)
  BY <1>2, <1>3, <1>5 DEF OwnOf, UartOwn, Has, Quiet
<1>7. ThreadMsg(t, m)'
  <2>1. (\A o \in Threads \ {t} : ~Has(o, m)') /\ \A c \in Clients : m \notin Held(c)'
    BY <1>1, <1>3, <1>5 DEF Has, Moves, Held
  <2> QED BY <1>1, <1>3, <1>5, <2>1 DEF ThreadMsg, Changing
<1>8. MsgInv(m)'
  BY <1>1, <1>2, <1>3, <1>4, <1>5, <1>6, <1>7, AtWork DEF Has
<1>9. \A n \in Messages : MsgInv(n)'
  <2>1. /\ thread[t].msg \subseteq {m} /\ thread'[t].msg \subseteq {m} /\ TableKept
        /\ \A n \in Messages : MsgInv(n)
        /\ \A n \in Messages : ref'[n] = ref[n] /\ (n \in heap' <=> n \in heap) /\ \A c \in Clients : n \in Held(c)' <=> n \in Held(c)
    BY <1>1, <1>2, <1>3 DEF Has, TableKept, Held, Counted
  <2> QED BY <1>3, <1>8, <2>1, OneMessage
<1>10. SizeInv'
  <2>1. Counting' <=> Counting
    BY <1>3, ThreadsAre DEF Counting, Moves
  <2>2. \A o \in Threads \ {t} : thread[o].step \notin Sizing
    BY DEF SizeLoad, OnSockLen, Sizing
  <2> QED BY <1>1, <1>3, <2>1, <2>2, SizeFrame DEF Counted
<1> QED BY <1>1, <1>9, <1>10 DEF Counted

LEMMA SizeStoreKeeps ==
    ASSUME SppAssumption, IInv, IInv', MessageTypes, Counted, NEW t \in Threads, SizeStore(t), ~raced'
    PROVE  Counted'
<1>1. thread \in [Threads -> ThreadRecords] /\ UNCHANGED <<table, queue, ref>> /\ TypeInv
  BY DEF IInv, TypeInv, SizeStore
<1>2. PICK m \in Messages : Has(t, m)
  BY InHand DEF SizeStore, MessageSteps, FreeSteps
<1>3. ThreadMsg(t, m) /\ MsgInv(m) /\ thread[t].step = "release"
  BY <1>1 DEF Counted, MsgInv, SizeStore
<1>4. /\ (t = Uart => thread[t].ending)
      /\ \A o \in Threads \ {t} : ~Has(o, m)
      /\ \A c \in Clients : m \notin Held(c)
  BY <1>2, <1>3 DEF ThreadMsg, Alone
<1>5. /\ Moves(t) /\ thread'[t].msg = {} /\ thread'[t].step \in {"draining", "serving", "unlock"}
  BY <1>1, <1>4, FreedIs DEF SizeStore
<1>6. heap' = heap \ {m} /\ m \in heap
  BY <1>2, <1>3 DEF SizeStore, Has, MsgInv, InUse
<1>7. ~InUse(m)' /\ \A o \in Threads : ~Has(o, m)'
  BY <1>1, <1>4, <1>5 DEF InUse, Has, Held, Moves
<1>8. MsgInv(m)'
  BY <1>6, <1>7, ThreadsAre DEF MsgInv, ThreadMsg
<1>9. \A n \in Messages : MsgInv(n)'
  <2>1. /\ thread[t].msg \subseteq {m} /\ thread'[t].msg \subseteq {m} /\ TableKept
        /\ \A n \in Messages : MsgInv(n)
        /\ \A n \in Messages \ {m} : ref'[n] = ref[n] /\ (n \in heap' <=> n \in heap) /\ \A c \in Clients : n \in Held(c)' <=> n \in Held(c)
    BY <1>1, <1>2, <1>5, <1>6 DEF Has, TableKept, Held, Counted
  <2> QED BY <1>5, <1>8, <2>1, OneMessage
<1>10. SizeInv'
  <2>1. Counting' <=> Counting
    BY <1>3, <1>5, ThreadsAre DEF Counting, Moves
  <2>2. thread[t].loaded = sockLen /\ sockLen' = sockLen - 1 /\ sockLen \in Int
    BY <1>1, <1>3 DEF Counted, SizeInv, Sizing, SizeStore, TypeInv
  <2>3. Cardinality(heap') = Cardinality(heap) - 1 /\ Cardinality(heap) \in Nat
    <3>1. IsFiniteSet(heap)
      BY FS_Subset, ThreadsAre DEF MessageTypes
    <3> QED BY <1>6, <3>1, CardinalityOf
  <2>4. (sockLen = Cardinality(heap) - (IF thread[Uart].step \in {"count", "counted"} THEN 1 ELSE 0))'
    BY <2>1, <2>2, <2>3 DEF Counted, SizeInv, Counting
  <2> QED BY <1>3, <1>5, <2>4, SizeStored DEF Sizing, Counted
<1> QED BY <1>1, <1>9, <1>10 DEF Counted
-----------------------------------------------------------------------------
(* The UART's thread *)

LEMMA AllocateKeeps ==
    ASSUME SppAssumption, IInv, MessageTypes, Counted, NEW m \in Messages, Allocate(m)
    PROVE  Counted'
<1>1. /\ thread \in [Threads -> ThreadRecords] /\ UNCHANGED <<table, queue, sockLen>>
      /\ ref \in [Messages -> Int] /\ sockLen \in Int
  BY DEF IInv, TypeInv, Allocate
<1>2. /\ m \notin heap /\ heap' = heap \cup {m} /\ ref' = [ref EXCEPT ![m] = 0]
      /\ thread[Uart].step = "idle" /\ thread[Uart].msg = {}
  BY ThreadsAre DEF Allocate, MessageTypes, MessageSteps, FreeSteps
<1>3. Moves(Uart) /\ thread'[Uart].step = "count" /\ thread'[Uart].msg = {m}
  BY <1>1, ThreadsAre DEF Allocate, Moves, ThreadRecords
<1>4. MsgInv(m) /\ ~InUse(m)
  BY <1>2 DEF Counted, MsgInv
<1>5. (\A c \in Clients : m \notin Held(c)') /\ \A o \in Threads \ {Uart} : ~Has(o, m)'
  BY <1>1, <1>3, <1>4 DEF InUse, Held, Moves, Has
<1>6. ref'[m] = 0 /\ m \in heap' /\ Has(Uart, m)' /\ \A n \in Messages \ {m} : ref'[n] = ref[n]
  BY <1>1, <1>2, <1>3 DEF Has
<1>7. References(m)' = 0
  <2>1. \A c \in Clients : m \notin ToSet(queue'[c]) /\ thread'[c].msg # {m}
    BY <1>5, ThreadsAre DEF Held, Has
  <2>2. InQueues(m)' = {} /\ InHands(m)' = {} /\ UartOwn(m)' = 0
    BY <1>3, <2>1 DEF InQueues, InHands, UartOwn
  <2>3. Cardinality({}) = 0
    BY FS_EmptySet
  <2>4. References(m)' = Cardinality(InQueues(m)') + Cardinality(InHands(m)') + UartOwn(m)'
    BY DEF References
  <2> QED BY <2>2, <2>3, <2>4
<1>8. MsgInv(m)'
  <2>1. \A o \in Threads : ThreadMsg(o, m)'
    BY <1>3, <1>5, <1>6 DEF ThreadMsg, Changing
  <2>2. InUse(m)'
    BY <1>6, ThreadsAre DEF InUse
  <2>3. ~Pushing'
    BY <1>3 DEF Pushing, FreeSteps
  <2> QED BY <1>6, <1>7, <2>1, <2>2, <2>3 DEF MsgInv
<1>9. \A n \in Messages : MsgInv(n)'
  <2>1. /\ thread[Uart].msg \subseteq {m} /\ thread'[Uart].msg \subseteq {m} /\ TableKept
        /\ \A n \in Messages : MsgInv(n)
        /\ \A n \in Messages \ {m} : (n \in heap' <=> n \in heap) /\ \A c \in Clients : n \in Held(c)' <=> n \in Held(c)
    BY <1>1, <1>2, <1>3 DEF TableKept, Held, Counted
  <2> QED BY <1>3, <1>6, <1>8, <2>1, ThreadsAre, OneMessage
<1>10. SizeInv'
  <2>1. Cardinality(heap') = Cardinality(heap) + 1 /\ Cardinality(heap) \in Nat
    <3>1. IsFiniteSet(heap)
      BY FS_Subset, ThreadsAre DEF MessageTypes
    <3> QED BY <1>2, <3>1, CardinalityOf
  <2>2. sockLen = Cardinality(heap)
    BY <1>1, <1>2, <2>1 DEF Counted, SizeInv
  <2>3. (sockLen = Cardinality(heap) - (IF thread[Uart].step \in {"count", "counted"} THEN 1 ELSE 0))'
    BY <1>1, <1>3, <2>1, <2>2
  <2>4. ASSUME NEW o \in Threads, thread'[o].step \in Sizing
        PROVE  thread'[o].loaded = sockLen /\ \A p \in Threads \ {o} : thread'[p].step \notin Sizing
    BY <1>3, <2>4 DEF Counted, SizeInv, Moves, Sizing
  <2> QED BY <1>1, <2>3, <2>4 DEF SizeInv
<1> QED BY <1>1, <1>9, <1>10 DEF Counted

\* While it counts and waits for the mutex nobody else knows the message.
LEMMA CountKeeps ==
    ASSUME SppAssumption, IInv, IInv', MessageTypes, Counted, CountLoad \/ CountStore, ~raced'
    PROVE  Counted'
<1>1. /\ thread \in [Threads -> ThreadRecords] /\ UNCHANGED <<table, queue, heap, ref>>
      /\ ref \in [Messages -> Int] /\ sockLen \in Int
  BY DEF IInv, TypeInv, CountLoad, CountStore
<1>2. PICK m \in Messages : Has(Uart, m)
  BY InHand, ThreadsAre DEF CountLoad, CountStore, MessageSteps, UartSteps
<1>3. /\ Moves(Uart) /\ thread[Uart].step \in {"count", "counted"} /\ thread'[Uart].step \in {"counted", "lock"}
      /\ thread'[Uart].msg = thread[Uart].msg
  BY <1>1, ThreadsAre DEF CountLoad, CountStore, Moves, ThreadRecords
<1>4. ThreadMsg(Uart, m) /\ MsgInv(m) /\ ref[m] \in Int
  BY <1>1, ThreadsAre DEF Counted, MsgInv
<1>5. /\ ref[m] = 0
      /\ \A o \in Threads \ {Uart} : ~Has(o, m)
      /\ \A c \in Clients : m \notin Held(c)
  BY <1>2, <1>3, <1>4 DEF ThreadMsg, Alone
<1>6. OwnOf(Uart, m) = 0 /\ OwnOf(Uart, m)' = 0 /\ Quiet(Uart, m)
  BY <1>3, <1>5 DEF OwnOf, UartOwn, Quiet
<1>7. ThreadMsg(Uart, m)'
  <2>1. (\A o \in Threads \ {Uart} : ~Has(o, m)') /\ \A c \in Clients : m \notin Held(c)'
    BY <1>1, <1>3, <1>5 DEF Has, Moves, Held
  <2> QED BY <1>1, <1>3, <1>5, <2>1 DEF ThreadMsg, Changing
<1>8. MsgInv(m)'
  BY <1>1, <1>2, <1>3, <1>4, <1>5, <1>6, <1>7, ThreadsAre, AtWork DEF Has
<1>9. \A n \in Messages : MsgInv(n)'
  <2>1. /\ thread[Uart].msg \subseteq {m} /\ thread'[Uart].msg \subseteq {m} /\ TableKept
        /\ \A n \in Messages : MsgInv(n)
        /\ \A n \in Messages : ref'[n] = ref[n] /\ (n \in heap' <=> n \in heap) /\ \A c \in Clients : n \in Held(c)' <=> n \in Held(c)
    BY <1>1, <1>2, <1>3 DEF Has, TableKept, Held, Counted
  <2> QED BY <1>3, <1>8, <2>1, ThreadsAre, OneMessage
<1>10. CASE CountLoad
  <2>1. thread[Uart].step = "count" /\ thread'[Uart].step = "counted" /\ thread'[Uart].loaded = sockLen /\ sockLen' = sockLen
    BY <1>1, <1>10, ThreadsAre DEF CountLoad, ThreadRecords
  <2>2. \A o \in Threads \ {Uart} : thread[o].step \notin Sizing
    BY <1>10 DEF CountLoad, OnSockLen, Sizing
  <2>3. SizeInv'
    BY <1>1, <1>3, <2>1, <2>2, ThreadsAre, SizeFrame DEF Counted, Counting
  <2> QED BY <1>1, <1>9, <2>3 DEF Counted
<1>11. CASE CountStore
  <2>1. thread[Uart].step = "counted" /\ thread'[Uart].step = "lock" /\ sockLen' = thread[Uart].loaded + 1
    BY <1>1, <1>11, ThreadsAre DEF CountStore, ThreadRecords
  <2>2. thread[Uart].loaded = sockLen
    BY <2>1, ThreadsAre DEF Counted, SizeInv, Sizing
  <2>3. Cardinality(heap) \in Nat
    BY FS_Subset, FS_CardinalityType, ThreadsAre DEF MessageTypes
  <2>4. (sockLen = Cardinality(heap) - (IF thread[Uart].step \in {"count", "counted"} THEN 1 ELSE 0))'
    BY <1>1, <2>1, <2>2, <2>3 DEF Counted, SizeInv
  <2>5. SizeInv'
    BY <1>3, <2>1, <2>4, ThreadsAre, SizeStored DEF Counted, Sizing
  <2> QED BY <1>1, <1>9, <2>5 DEF Counted
<1> QED BY <1>10, <1>11

LEMMA LockKeeps ==
    ASSUME SppAssumption, IInv, IInv', MessageTypes, Counted, Lock
    PROVE  Counted'
<1>1. /\ thread \in [Threads -> ThreadRecords] /\ UNCHANGED <<table, queue, heap, sockLen>>
      /\ ref \in [Messages -> Int]
  BY DEF IInv, TypeInv, Lock
<1>2. PICK m \in Messages : Has(Uart, m)
  BY InHand, ThreadsAre DEF Lock, MessageSteps, UartSteps
<1>3. /\ Moves(Uart) /\ thread[Uart].step = "lock" /\ thread'[Uart].step = "next"
      /\ thread'[Uart].msg = thread[Uart].msg /\ thread'[Uart].ending = thread[Uart].ending
  BY <1>1, ThreadsAre DEF Lock, Moves, ThreadRecords
<1>4. ThreadMsg(Uart, m) /\ MsgInv(m) /\ ref[m] \in Int
  BY <1>1, ThreadsAre DEF Counted, MsgInv
<1>5. /\ ref[m] = 0
      /\ \A o \in Threads \ {Uart} : ~Has(o, m)
      /\ \A c \in Clients : m \notin Held(c)
  BY <1>2, <1>3, <1>4 DEF ThreadMsg, Alone
<1>6. ref'[m] = ref[m] + 1 /\ \A n \in Messages \ {m} : ref'[n] = ref[n]
  BY <1>1, <1>2 DEF Lock, Has
<1>7. OwnOf(Uart, m) = 0 /\ OwnOf(Uart, m)' = 1 /\ Quiet(Uart, m)
  <2>1. ~thread[Uart].ending
    BY <1>3 DEF MessageTypes, FreeSteps
  <2> QED BY <1>2, <1>3, <1>5, <2>1 DEF OwnOf, UartOwn, Quiet, Has
<1>8. ThreadMsg(Uart, m)'
  BY <1>3 DEF ThreadMsg, Changing, Alone
<1>9. MsgInv(m)'
  <2>1. Has(Uart, m)' /\ UNCHANGED <<queue, heap>> /\ ref'[m] \in Int /\ ref'[m] + 0 = ref[m] + 1
    BY <1>1, <1>2, <1>3, <1>4, <1>6 DEF Has
  <2> QED BY <1>2, <1>3, <1>4, <1>5, <1>7, <1>8, <2>1, ThreadsAre, AtWork
<1>10. \A n \in Messages : MsgInv(n)'
  <2>1. /\ thread[Uart].msg \subseteq {m} /\ thread'[Uart].msg \subseteq {m} /\ TableKept
        /\ \A n \in Messages : MsgInv(n)
        /\ \A n \in Messages : (n \in heap' <=> n \in heap) /\ \A c \in Clients : n \in Held(c)' <=> n \in Held(c)
    BY <1>1, <1>2, <1>3 DEF Has, TableKept, Held, Counted
  <2> QED BY <1>3, <1>6, <1>9, <2>1, ThreadsAre, OneMessage
<1>11. SizeInv'
  BY <1>1, <1>3, ThreadsAre, SizeFrame DEF Counted, Counting, Sizing
<1> QED BY <1>1, <1>10, <1>11 DEF Counted

LEMMA NextSlotKeeps ==
    ASSUME SppAssumption, IInv, IInv', MessageTypes, Counted, NextSlot, ~raced'
    PROVE  Counted'
<1>1. /\ thread \in [Threads -> ThreadRecords] /\ UNCHANGED <<table, queue, heap, ref, sockLen>>
      /\ ref \in [Messages -> Int] /\ Uart \in Threads
  BY ThreadsAre DEF IInv, TypeInv, NextSlot
<1>2. PICK m \in Messages : Has(Uart, m)
  BY <1>1, InHand DEF NextSlot, MessageSteps, UartSteps
<1>3. MsgInv(m) /\ ref[m] \in Int /\ thread[Uart].step = "next" /\ ~thread[Uart].ending
  BY <1>1 DEF Counted, MessageTypes, FreeSteps, NextSlot
<1>4. /\ Moves(Uart) /\ thread'[Uart].msg = thread[Uart].msg /\ thread'[Uart].rest = thread[Uart].rest
      /\ \/ thread'[Uart].step = "free" /\ thread'[Uart].ending = TRUE
         \/ /\ thread'[Uart].step = "take" /\ thread'[Uart].ending = FALSE
            /\ thread'[Uart].loaded = ref[m] /\ Quiet(Uart, m)
  <2>1. CASE thread[Uart].rest = {}
    BY <1>1, <2>1 DEF NextSlot, Moves, ThreadRecords
  <2>2. CASE thread[Uart].rest # {}
    <3>1. thread' = [thread EXCEPT ![Uart].step = "take", ![Uart].loaded = ref[m]] /\ ~OnRef(Uart, m)
      BY <1>2, <2>2 DEF NextSlot, Has
    <3>2. Quiet(Uart, m)
      BY <3>1 DEF OnRef, Quiet, Has, Changing
    <3> QED BY <1>1, <1>3, <3>1, <3>2 DEF Moves, ThreadRecords
  <2> QED BY <2>1, <2>2
<1>5. OwnOf(Uart, m) = 1 /\ OwnOf(Uart, m)' = 1
  BY <1>2, <1>3, <1>4 DEF OwnOf, UartOwn, Has
<1>6. ThreadMsg(Uart, m)' /\ (Quiet(Uart, m) \/ thread'[Uart].step \notin Changing)
  <2>1. CASE thread'[Uart].step = "free"
    BY <2>1 DEF ThreadMsg, Changing, Alone
  <2>2. CASE thread'[Uart].step # "free"
    <3>1. \A o \in Threads \ {Uart} : Has(o, m)' => thread'[o].step \notin Changing
      BY <1>4, <2>2 DEF Quiet, Has, Moves
    <3> QED BY <1>1, <1>4, <2>2, <3>1 DEF ThreadMsg, Alone
  <2> QED BY <2>1, <2>2
<1>7. MsgInv(m)'
  <2>1. Pushing /\ TableKept /\ UNCHANGED <<queue, heap>> /\ ref'[m] = ref[m] /\ Has(Uart, m)' /\ ref'[m] + 1 = ref[m] + 1
    BY <1>1, <1>2, <1>3, <1>4 DEF Pushing, TableKept, Has
  <2> QED BY <1>1, <1>2, <1>3, <1>4, <1>5, <1>6, <2>1, AtWork
<1>8. \A n \in Messages : MsgInv(n)'
  <2>1. /\ thread[Uart].msg \subseteq {m} /\ thread'[Uart].msg \subseteq {m} /\ TableKept
        /\ \A n \in Messages : MsgInv(n)
        /\ \A n \in Messages : ref'[n] = ref[n] /\ (n \in heap' <=> n \in heap) /\ \A c \in Clients : n \in Held(c)' <=> n \in Held(c)
    BY <1>1, <1>2, <1>4 DEF Has, TableKept, Held, Counted
  <2> QED BY <1>1, <1>4, <1>7, <2>1, OneMessage
<1>9. SizeInv'
  BY <1>1, <1>3, <1>4, SizeFrame DEF Counted, Counting, Sizing
<1> QED BY <1>1, <1>8, <1>9 DEF Counted

LEMMA TakeStoreKeeps ==
    ASSUME SppAssumption, IInv, IInv', MessageTypes, Counted, TakeStore
    PROVE  Counted'
<1>1. /\ thread \in [Threads -> ThreadRecords] /\ UNCHANGED <<table, queue, heap, sockLen>>
      /\ ref \in [Messages -> Int] /\ Uart \in Threads
  BY ThreadsAre DEF IInv, TypeInv, TakeStore
<1>2. PICK m \in Messages : Has(Uart, m)
  BY <1>1, InHand DEF TakeStore, MessageSteps, UartSteps
<1>3. MsgInv(m) /\ ref[m] \in Int /\ thread[Uart].step = "take" /\ ~thread[Uart].ending
  BY <1>1 DEF Counted, MessageTypes, FreeSteps, TakeStore
<1>4. /\ Moves(Uart) /\ thread'[Uart].msg = thread[Uart].msg /\ thread'[Uart].rest = thread[Uart].rest
      /\ thread'[Uart].step = "push" /\ thread'[Uart].ending = thread[Uart].ending
  BY <1>1 DEF TakeStore, Moves, ThreadRecords
<1>5. thread[Uart].loaded = ref[m] /\ Quiet(Uart, m)
  BY <1>1, <1>2, <1>3 DEF MsgInv, ThreadMsg, Changing, Quiet
<1>6. ref'[m] = ref[m] + 1 /\ \A n \in Messages \ {m} : ref'[n] = ref[n]
  BY <1>1, <1>2, <1>5 DEF TakeStore, Has
<1>7. OwnOf(Uart, m) = 1 /\ OwnOf(Uart, m)' = 2
  BY <1>2, <1>3, <1>4 DEF OwnOf, UartOwn, Has
<1>8. ThreadMsg(Uart, m)'
  BY <1>4 DEF ThreadMsg, Changing, Alone
<1>9. MsgInv(m)'
  <2>1. Pushing /\ TableKept /\ UNCHANGED <<queue, heap>> /\ ref'[m] \in Int /\ Has(Uart, m)' /\ ref'[m] + 1 = ref[m] + 2
    BY <1>1, <1>2, <1>3, <1>4, <1>6 DEF Pushing, TableKept, Has
  <2> QED BY <1>1, <1>2, <1>3, <1>4, <1>5, <1>7, <1>8, <2>1, AtWork
<1>10. \A n \in Messages : MsgInv(n)'
  <2>1. /\ thread[Uart].msg \subseteq {m} /\ thread'[Uart].msg \subseteq {m} /\ TableKept
        /\ \A n \in Messages : MsgInv(n)
        /\ \A n \in Messages : (n \in heap' <=> n \in heap) /\ \A c \in Clients : n \in Held(c)' <=> n \in Held(c)
    BY <1>1, <1>2, <1>4 DEF Has, TableKept, Held, Counted
  <2> QED BY <1>1, <1>4, <1>6, <1>9, <2>1, OneMessage
<1>11. SizeInv'
  BY <1>1, <1>3, <1>4, SizeFrame DEF Counted, Counting, Sizing
<1> QED BY <1>1, <1>10, <1>11 DEF Counted

\* What Append and Tail do to the members of a queue, and that they keep it without repetition.
LEMMA Appended ==
    ASSUME NEW S, NEW q \in Seq(S), NEW m \in S
    PROVE  /\ ToSet(Append(q, m)) = ToSet(q) \cup {m}
           /\ Once(q) /\ m \notin ToSet(q) => Once(Append(q, m))
<1>1. /\ Len(q) \in Nat /\ DOMAIN q = 1 .. Len(q) /\ DOMAIN Append(q, m) = 1 .. Len(q) + 1
      /\ \A i \in 1 .. Len(q) : Append(q, m)[i] = q[i]
      /\ Append(q, m)[Len(q) + 1] = m
  OBVIOUS
<1>2. \A i \in 1 .. Len(q) + 1 : i \in 1 .. Len(q) \/ i = Len(q) + 1
  BY <1>1
<1>3. 1 .. Len(q) \subseteq 1 .. Len(q) + 1 /\ Len(q) + 1 \in 1 .. Len(q) + 1
  BY <1>1
<1>4. ToSet(Append(q, m)) = ToSet(q) \cup {m}
  BY <1>1, <1>2, <1>3 DEF ToSet
<1>5. ASSUME Once(q), m \notin ToSet(q), NEW i \in 1 .. Len(q) + 1, NEW j \in 1 .. Len(q) + 1,
             Append(q, m)[i] = Append(q, m)[j]
      PROVE  i = j
  <2>1. \A k \in 1 .. Len(q) : q[k] # m
    BY <1>1, <1>5 DEF ToSet
  <2> QED BY <1>1, <1>2, <1>5, <2>1 DEF Once
<1> QED BY <1>1, <1>4, <1>5 DEF Once

LEMMA Dequeued ==
    ASSUME NEW S, NEW q \in Seq(S), q # << >>
    PROVE  /\ Head(q) \in ToSet(q) /\ ToSet(Tail(q)) \subseteq ToSet(q)
           /\ ToSet(q) \subseteq ToSet(Tail(q)) \cup {Head(q)}
           /\ Once(q) => Once(Tail(q)) /\ Head(q) \notin ToSet(Tail(q))
<1>1. /\ Len(q) \in Nat /\ Len(q) >= 1 /\ DOMAIN q = 1 .. Len(q) /\ DOMAIN Tail(q) = 1 .. Len(q) - 1
      /\ \A i \in 1 .. Len(q) - 1 : Tail(q)[i] = q[i + 1]
      /\ Head(q) = q[1]
  OBVIOUS
<1>2. /\ \A i \in 1 .. Len(q) : i = 1 \/ (i - 1 \in 1 .. Len(q) - 1 /\ (i - 1) + 1 = i)
      /\ 1 \in 1 .. Len(q)
      /\ \A i \in 1 .. Len(q) - 1 : i + 1 \in 1 .. Len(q) /\ i + 1 # 1
  BY <1>1
<1>3. Head(q) \in ToSet(q) /\ ToSet(Tail(q)) \subseteq ToSet(q)
  BY <1>1, <1>2 DEF ToSet
<1>4. ASSUME NEW i \in 1 .. Len(q) PROVE q[i] \in ToSet(Tail(q)) \cup {Head(q)}
  <2>1. i # 1 => q[i] = Tail(q)[i - 1] /\ i - 1 \in 1 .. Len(q) - 1
    BY <1>1, <1>2
  <2> QED BY <1>1, <2>1 DEF ToSet
<1>5. ASSUME Once(q) PROVE Once(Tail(q)) /\ Head(q) \notin ToSet(Tail(q))
  <2>1. ASSUME NEW i \in 1 .. Len(q) - 1, NEW j \in 1 .. Len(q) - 1, Tail(q)[i] = Tail(q)[j] PROVE i = j
    <3>1. i + 1 = j + 1
      BY <1>1, <1>2, <1>5, <2>1 DEF Once
    <3> QED BY <1>1, <3>1
  <2>2. \A i \in 1 .. Len(q) - 1 : Tail(q)[i] # Head(q)
    BY <1>1, <1>2, <1>5 DEF Once
  <2> QED BY <1>1, <2>1, <2>2 DEF Once, ToSet
<1> QED BY <1>1, <1>3, <1>4, <1>5 DEF ToSet

LEMMA PushKeeps ==
    ASSUME SppAssumption, IInv, IInv', MessageTypes, Counted, Push
    PROVE  Counted'
<1>1. /\ thread \in [Threads -> ThreadRecords] /\ UNCHANGED <<table, heap, ref, sockLen>>
      /\ ref \in [Messages -> Int] /\ Uart \in Threads /\ queue \in [Clients -> Seq(Messages)]
  BY ThreadsAre DEF IInv, TypeInv, Push
<1>2. PICK m \in Messages : Has(Uart, m)
  BY <1>1, InHand DEF Push, MessageSteps, UartSteps
<1>3. MsgInv(m) /\ ref[m] \in Int /\ thread[Uart].step = "push" /\ ~thread[Uart].ending /\ Pushing
  BY <1>1 DEF Counted, MessageTypes, FreeSteps, Push, Pushing
<1> DEFINE s == Min(thread[Uart].rest)
<1> DEFINE c == table[s]
<1>4. s \in thread[Uart].rest
  <2>1. thread[Uart].rest \in SUBSET Nat /\ thread[Uart].rest # {}
    BY <1>1, <1>3 DEF SlotIds, ThreadRecords, SppAssumption, IInv, TableInv
  <2> QED BY <2>1, LeastExists, Zenon DEF Min
<1>5. s \in SlotIds /\ c \in Clients /\ m \notin Held(c)
  BY <1>2, <1>3, <1>4, RestIsInTable DEF MsgInv
<1> DEFINE fits == Len(queue[c]) < QueueLength
<1>6. queue' = IF fits THEN [queue EXCEPT ![c] = Append(queue[c], m)] ELSE queue
  BY <1>2 DEF Push, Has
<1>7. thread' = [thread EXCEPT ![Uart].rest = thread[Uart].rest \ {s}, ![Uart].step = IF fits THEN "next" ELSE "free"]
  BY <1>1 DEF Push
<1> HIDE DEF s, c, fits
<1>8. /\ Moves(Uart) /\ thread'[Uart].msg = thread[Uart].msg /\ thread'[Uart].rest = thread[Uart].rest \ {s}
      /\ thread'[Uart].step = (IF fits THEN "next" ELSE "free") /\ thread'[Uart].ending = thread[Uart].ending
  BY <1>1, <1>7 DEF Moves, ThreadRecords
<1>9. SizeInv'
  BY <1>1, <1>3, <1>8, SizeFrame DEF Counted, Counting, Sizing
<1>10. ThreadMsg(Uart, m)' /\ thread'[Uart].step \notin Changing
  BY <1>8 DEF ThreadMsg, Changing, Alone
<1>11. OwnOf(Uart, m) = 2
  BY <1>2, <1>3 DEF OwnOf, UartOwn, Has
<1>12. CASE ~fits
  <2>1. OwnOf(Uart, m)' = 2
    BY <1>2, <1>3, <1>8, <1>12 DEF OwnOf, UartOwn, Has
  <2>2. TableKept /\ UNCHANGED <<queue, heap>> /\ ref'[m] = ref[m] /\ Has(Uart, m)' /\ ref'[m] + 2 = ref[m] + 2
    BY <1>1, <1>2, <1>3, <1>6, <1>8, <1>12 DEF TableKept, Has
  <2>3. MsgInv(m)'
    BY <1>1, <1>2, <1>3, <1>8, <1>10, <1>11, <2>1, <2>2, AtWork
  <2>4. /\ thread[Uart].msg \subseteq {m} /\ thread'[Uart].msg \subseteq {m} /\ TableKept
        /\ \A n \in Messages : MsgInv(n)
        /\ \A n \in Messages : ref'[n] = ref[n] /\ (n \in heap' <=> n \in heap) /\ \A o \in Clients : n \in Held(o)' <=> n \in Held(o)
    BY <1>1, <1>2, <1>8, <2>2 DEF Has, TableKept, Held, Counted
  <2>5. \A n \in Messages : MsgInv(n)'
    BY <1>1, <1>8, <2>3, <2>4, OneMessage
  <2> QED BY <1>1, <1>9, <2>2, <2>5 DEF Counted
<1>13. CASE fits
  <2>1. queue'[c] = Append(queue[c], m) /\ \A o \in Clients \ {c} : queue'[o] = queue[o]
    BY <1>1, <1>5, <1>6, <1>13
  <2>2. m \notin ToSet(queue[c]) /\ queue[c] \in Seq(Messages)
    BY <1>1, <1>5 DEF Held
  <2>3. ToSet(queue'[c]) = ToSet(queue[c]) \cup {m} /\ (Once(queue[c]) => Once(queue'[c]))
    BY <2>1, <2>2, Appended
  <2>4. \A o \in Clients : Once(queue'[o])
    BY <2>1, <2>3 DEF Counted
  <2>5. \A n \in Messages \ {m} : \A o \in Clients : n \in Held(o)' <=> n \in Held(o)
    BY <2>1, <2>3 DEF Held
  <2>6. ref'[m] = References(m)'
    <3>1. InQueues(m)' = InQueues(m) \cup {c} /\ c \notin InQueues(m)
      BY <1>5, <2>1, <2>2, <2>3 DEF InQueues
    <3>2. Cardinality(InQueues(m)') = Cardinality(InQueues(m)) + 1 /\ Cardinality(InQueues(m)) \in Nat
      BY <3>1, Sets, CardinalityOf
    <3>3. InHands(m)' = InHands(m)
      BY <1>8, ThreadsAre DEF InHands, Moves
    <3>4. UartOwn(m) = 2 /\ UartOwn(m)' = 1
      BY <1>2, <1>3, <1>8, <1>11, <1>13 DEF OwnOf, UartOwn, Has
    <3>5. ref[m] = Cardinality(InQueues(m)) + Cardinality(InHands(m)) + 2
      BY <1>1, <1>2, <1>3, <3>4 DEF MsgInv, InUse, References
    <3>6. References(m)' = Cardinality(InQueues(m)') + Cardinality(InHands(m)) + 1
      BY <3>3, <3>4 DEF References
    <3>7. Cardinality(InHands(m)) \in Nat
      BY Sets
    <3> QED BY <1>1, <3>2, <3>5, <3>6, <3>7
  <2>7. MsgInv(m)'
    <3>1. Has(Uart, m)' /\ m \in heap' /\ ref'[m] = ref[m]
      BY <1>1, <1>2, <1>3, <1>8 DEF Has, MsgInv, InUse
    <3>2. \A o \in Threads : ThreadMsg(o, m)'
      BY <1>1, <1>2, <1>3, <1>8, <1>10, <3>1, OthersKeep
    <3>3. InUse(m)'
      BY <1>1, <3>1 DEF InUse
    <3>4. ASSUME NEW r \in thread'[Uart].rest PROVE m \notin ToSet(queue'[table'[r]])
      <4>1. r \in thread[Uart].rest /\ r # s /\ table'[r] = table[r]
        BY <1>1, <1>8, <3>4
      <4>2. m \notin Held(table[r]) /\ r \in SlotIds /\ table[r] \in Clients
        BY <1>2, <1>3, <4>1, RestIsInTable DEF MsgInv
      <4>3. table[r] # c
        BY <1>5, <4>1, <4>2, ThreadsAre DEF IInv, TableInv, c
      <4> QED BY <2>1, <4>1, <4>2, <4>3 DEF Held
    <3>5. (Pushing /\ Has(Uart, m) => \A r \in thread[Uart].rest : m \notin Held(table[r]))'
      BY <3>4 DEF Held
    <3> QED BY <2>6, <3>1, <3>2, <3>3, <3>5 DEF MsgInv
  <2>8. /\ thread[Uart].msg \subseteq {m} /\ thread'[Uart].msg \subseteq {m} /\ TableKept
        /\ \A n \in Messages : MsgInv(n)
        /\ \A n \in Messages : ref'[n] = ref[n] /\ (n \in heap' <=> n \in heap)
    BY <1>1, <1>2, <1>8 DEF Has, TableKept, Counted
  <2>9. \A n \in Messages : MsgInv(n)'
    BY <1>1, <1>8, <2>5, <2>7, <2>8, OneMessage
  <2> QED BY <1>9, <2>4, <2>9 DEF Counted
<1> QED BY <1>12, <1>13

LEMMA UnlockKeeps == ASSUME SppAssumption, IInv, MessageTypes, Counted, Unlock PROVE Counted'
<1>1. /\ thread \in [Threads -> ThreadRecords] /\ UNCHANGED <<table, queue, heap, ref, sockLen>>
      /\ Uart \in Threads
  BY ThreadsAre DEF IInv, TypeInv, Unlock
<1>2. /\ Moves(Uart) /\ thread[Uart].step = "unlock" /\ thread'[Uart].step = "idle" /\ thread'[Uart].msg = {}
      /\ thread[Uart].msg = {}
  BY <1>1 DEF Unlock, Moves, AtRest, MessageTypes, MessageSteps, UartSteps, FreeSteps
<1>3. \A n \in Messages : MsgInv(n)'
  BY <1>1, <1>2, NoMessage DEF Counted, TableKept
<1>4. SizeInv'
  BY <1>1, <1>2, SizeFrame DEF Counted, Counting, Sizing
<1> QED BY <1>1, <1>3, <1>4 DEF Counted
-----------------------------------------------------------------------------
(* The clients *)

\* Coming and going: the client has no message, and the table does not change while it is locked.
LEMMA ComeAndGoKeeps ==
    ASSUME SppAssumption, IInv, MessageTypes, Counted, NEW c \in Clients, Create(c) \/ Leave(c) \/ Deinit(c)
    PROVE  Counted'
<1>1. /\ thread \in [Threads -> ThreadRecords] /\ UNCHANGED <<queue, heap, ref, sockLen>>
      /\ c \in Threads /\ c # Uart
  BY ThreadsAre DEF IInv, TypeInv, Create, Leave, Deinit
<1>2. thread[c].step \in {"off", "serving", "draining"} /\ thread[c].msg = {}
  BY <1>1 DEF Create, Leave, Deinit, MessageTypes, MessageSteps, FreeSteps
<1>3. Moves(c) /\ thread'[c].step \in {"off", "serving", "draining"} /\ thread'[c].msg = {}
  BY <1>1, <1>2 DEF Create, Leave, Deinit, Goto, AtRest, Draining, Moves, ThreadRecords
<1>4. TableKept
  BY DEF Create, Leave, Deinit, TableKept, IInv, TableInv
<1>5. \A n \in Messages : MsgInv(n)'
  BY <1>1, <1>2, <1>3, <1>4, NoMessage DEF Counted
<1>6. SizeInv'
  <2>1. Counting' <=> Counting
    BY <1>1, <1>3, ThreadsAre DEF Counting, Moves
  <2> QED BY <1>1, <1>3, <2>1, SizeFrame DEF Counted, Sizing
<1> QED BY <1>1, <1>5, <1>6 DEF Counted

LEMMA WriteKeeps ==
    ASSUME SppAssumption, IInv, IInv', MessageTypes, Counted, NEW c \in Clients, Write(c)
    PROVE  Counted'
<1>1. /\ thread \in [Threads -> ThreadRecords] /\ UNCHANGED <<table, queue, heap, ref, sockLen>>
      /\ ref \in [Messages -> Int] /\ c \in Threads /\ c # Uart
  BY ThreadsAre DEF IInv, TypeInv, Write
<1>2. PICK m \in Messages : Has(c, m)
  BY <1>1, InHand DEF Write, MessageSteps
<1>3. MsgInv(m) /\ ref[m] \in Int
  BY <1>1 DEF Counted
<1>4. /\ Moves(c) /\ thread[c].step = "holding" /\ thread'[c].step = "free" /\ thread'[c].msg = thread[c].msg
  BY <1>1 DEF Write, Goto, Moves, ThreadRecords
<1>5. OwnOf(c, m) = 1 /\ OwnOf(c, m)' = 1
  BY <1>1, <1>2, <1>4 DEF OwnOf, Has
<1>6. ThreadMsg(c, m)' /\ thread'[c].step \notin Changing
  BY <1>4 DEF ThreadMsg, Changing, Alone
<1>7. MsgInv(m)'
  <2>1. Pushing' => Pushing /\ thread'[Uart].rest \subseteq thread[Uart].rest
    BY <1>1, <1>4, StillPushing
  <2>2. TableKept /\ UNCHANGED <<queue, heap>> /\ ref'[m] = ref[m] /\ Has(c, m)' /\ ref'[m] + 1 = ref[m] + 1
    BY <1>1, <1>2, <1>4 DEF TableKept, Has
  <2> QED BY <1>1, <1>2, <1>3, <1>4, <1>5, <1>6, <2>1, <2>2, AtWork
<1>8. \A n \in Messages : MsgInv(n)'
  <2>1. /\ thread[c].msg \subseteq {m} /\ thread'[c].msg \subseteq {m} /\ TableKept
        /\ \A n \in Messages : MsgInv(n)
        /\ \A n \in Messages : ref'[n] = ref[n] /\ (n \in heap' <=> n \in heap) /\ \A o \in Clients : n \in Held(o)' <=> n \in Held(o)
    BY <1>1, <1>2, <1>4 DEF Has, TableKept, Held, Counted
  <2> QED BY <1>1, <1>4, <1>7, <2>1, OneMessage
<1>9. SizeInv'
  <2>1. Counting' <=> Counting
    BY <1>1, <1>4, ThreadsAre DEF Counting, Moves
  <2> QED BY <1>1, <1>4, <2>1, SizeFrame DEF Counted, Sizing
<1> QED BY <1>1, <1>8, <1>9 DEF Counted

LEMMA PopKeeps ==
    ASSUME SppAssumption, IInv, IInv', MessageTypes, Counted, NEW c \in Clients, Pop(c)
    PROVE  Counted'
<1>1. /\ thread \in [Threads -> ThreadRecords] /\ UNCHANGED <<table, heap, ref, sockLen>>
      /\ ref \in [Messages -> Int] /\ c \in Threads /\ c # Uart /\ queue \in [Clients -> Seq(Messages)]
  BY ThreadsAre DEF IInv, TypeInv, Pop
<1>2. queue[c] \in Seq(Messages) /\ queue[c] # << >> /\ Once(queue[c])
  BY <1>1 DEF Pop, Counted
<1>3. PICK m \in Messages : m = Head(queue[c])
  BY <1>2
<1>4. queue'[c] = Tail(queue[c]) /\ \A o \in Clients \ {c} : queue'[o] = queue[o]
  BY <1>1 DEF Pop
<1>5. /\ m \in ToSet(queue[c]) /\ ToSet(Tail(queue[c])) \subseteq ToSet(queue[c])
      /\ ToSet(queue[c]) \subseteq ToSet(Tail(queue[c])) \cup {m}
      /\ Once(Tail(queue[c])) /\ m \notin ToSet(Tail(queue[c]))
  BY <1>2, <1>3, Dequeued
<1>6. thread' = [thread EXCEPT ![c].step = IF thread[c].step = "serving" THEN "holding" ELSE "free", ![c].msg = {m}]
  BY <1>1, <1>3 DEF Pop
<1>7. thread[c].step \in {"serving", "draining"} /\ thread[c].msg = {}
  BY <1>1 DEF Pop, MessageTypes, MessageSteps, FreeSteps
<1>8. Moves(c) /\ thread'[c].step \in {"holding", "free"} /\ thread'[c].msg = {m}
  BY <1>1, <1>6 DEF Moves, ThreadRecords
<1>9. MsgInv(m) /\ m \in Held(c) /\ m \in heap
  BY <1>5, <1>3 DEF Counted, MsgInv, InUse, Held
<1>10. \A n \in Messages : \A o \in Clients : IF n = m /\ o = c THEN n \notin Held(o)' ELSE n \in Held(o)' <=> n \in Held(o)
  BY <1>4, <1>5 DEF Held
<1>11. \A o \in Clients : Once(queue'[o])
  BY <1>4, <1>5 DEF Counted
<1>12. SizeInv'
  <2>1. Counting' <=> Counting
    BY <1>1, <1>8, ThreadsAre DEF Counting, Moves
  <2> QED BY <1>1, <1>8, <2>1, SizeFrame DEF Counted, Sizing
<1>13. ref'[m] = References(m)'
  <2>1. InQueues(m)' = InQueues(m) \ {c} /\ c \in InQueues(m)
    BY <1>4, <1>5 DEF InQueues
  <2>2. InHands(m)' = InHands(m) \cup {c} /\ c \notin InHands(m)
    <3>1. \A o \in Clients \ {c} : thread'[o] = thread[o]
      BY <1>8, ThreadsAre DEF Moves
    <3> QED BY <1>7, <1>8, <3>1 DEF InHands
  <2>3. UartOwn(m)' = UartOwn(m)
    BY <1>1, <1>8, ThreadsAre DEF UartOwn, Moves
  <2>4. /\ Cardinality(InQueues(m)') = Cardinality(InQueues(m)) - 1 /\ Cardinality(InQueues(m)) \in Nat
        /\ Cardinality(InHands(m)') = Cardinality(InHands(m)) + 1 /\ Cardinality(InHands(m)) \in Nat
    BY <2>1, <2>2, Sets, CardinalityOf
  <2>5. UartOwn(m) \in Nat
    BY UartOwnIs
  <2>6. ref[m] = Cardinality(InQueues(m)) + Cardinality(InHands(m)) + UartOwn(m)
    BY <1>9 DEF MsgInv, References
  <2>7. References(m)' = Cardinality(InQueues(m)') + Cardinality(InHands(m)') + UartOwn(m)
    BY <2>3 DEF References
  <2> HIDE DEF UartOwn
  <2> QED BY <1>1, <2>4, <2>5, <2>6, <2>7
<1>14. \A n \in Messages \ {m} : MsgInv(n)'
  <2> SUFFICES ASSUME NEW n \in Messages \ {m} PROVE MsgInv(n)'
    OBVIOUS
  <2>1. ~Has(c, n) /\ ~Has(c, n)' /\ MsgInv(n) /\ TableKept
    BY <1>1, <1>7, <1>8 DEF Has, Counted, TableKept
  <2> QED BY <1>1, <1>8, <1>10, <2>1, Untouched
<1>15. MsgInv(m)'
  <2>1. ASSUME NEW o \in Threads PROVE ThreadMsg(o, m)'
    <3>1. CASE o = c
      BY <1>8, <3>1 DEF ThreadMsg, Changing, Alone
    <3>2. CASE o # c
      <4>1. ThreadMsg(o, m) /\ thread'[o] = thread[o] /\ (Has(o, m) => thread[o].step \notin Alone)
        BY <1>8, <1>9, <3>2 DEF MsgInv, ThreadMsg, Moves
      <4>2. ASSUME Has(o, m), thread[o].step \in Changing, NEW p \in Threads \ {o}, Has(p, m)'
            PROVE  thread'[p].step \notin Changing
        <5>1. CASE p = c
          BY <1>8, <5>1 DEF Changing
        <5>2. CASE p # c
          BY <1>8, <4>1, <4>2, <5>2 DEF ThreadMsg, Has, Moves
        <5> QED BY <5>1, <5>2
      <4>3. ref'[m] = ref[m] /\ (Has(o, m)' <=> Has(o, m))
        BY <1>1, <4>1 DEF Has
      <4> QED BY <4>1, <4>2, <4>3 DEF ThreadMsg, Changing, Alone
    <3> QED BY <3>1, <3>2
  <2>2. InUse(m)' /\ m \in heap'
    BY <1>1, <1>8, <1>9 DEF InUse, Has
  <2>3. ASSUME Pushing', Has(Uart, m)', NEW s \in thread'[Uart].rest PROVE m \notin ToSet(queue'[table'[s]])
    <3>1. thread'[Uart] = thread[Uart] /\ Pushing /\ Has(Uart, m)
      BY <1>1, <1>8, <2>3, ThreadsAre DEF Moves, Pushing, Has
    <3>2. m \notin Held(table[s]) /\ table[s] \in Clients /\ table' = table
      BY <1>1, <1>9, <2>3, <3>1, RestIsInTable DEF MsgInv
    <3> QED BY <1>3, <1>10, <3>2 DEF Held
  <2>4. (Pushing /\ Has(Uart, m) => \A s \in thread[Uart].rest : m \notin Held(table[s]))'
    BY <2>3 DEF Held
  <2> QED BY <1>13, <2>1, <2>2, <2>4 DEF MsgInv
<1> QED BY <1>11, <1>12, <1>14, <1>15 DEF Counted
-----------------------------------------------------------------------------
(* Steps and messages of the threads *)

Locking == {"next", "take", "push", "unlock"} \cup FreeSteps

LEMMA TypesFrame ==
    ASSUME SppAssumption, MessageTypes, NEW t \in Threads, Moves(t),
           \A c \in Clients : Len(queue'[c]) <= QueueLength,
           open' \subseteq Clients, heap' \subseteq Messages, raced' \in BOOLEAN,
           IF thread'[t].step \in MessageSteps(t) THEN \E m \in Messages : thread'[t].msg = {m} ELSE thread'[t].msg = {},
           t = Uart => /\ thread'[t].step \in UartSteps /\ (thread'[t].ending => thread'[t].step \in FreeSteps)
                       /\ mutex' = IF thread'[t].step \in Locking THEN {Uart} ELSE {},
           t # Uart => thread'[t].step \in ClientSteps /\ mutex' = mutex
    PROVE  MessageTypes'
<1>1. ASSUME NEW o \in Threads
      PROVE  IF thread'[o].step \in MessageSteps(o) THEN \E m \in Messages : thread'[o].msg = {m} ELSE thread'[o].msg = {}
  <2>1. CASE o = t
    BY <2>1
  <2>2. CASE o # t
    BY <2>2 DEF Moves, MessageTypes, Has
  <2> QED BY <2>1, <2>2
<1>2. /\ thread'[Uart].step \in UartSteps /\ (thread'[Uart].ending => thread'[Uart].step \in FreeSteps)
      /\ mutex' = IF thread'[Uart].step \in Locking THEN {Uart} ELSE {}
  BY ThreadsAre DEF Moves, MessageTypes, Locking
<1>3. \A c \in Clients : thread'[c].step \in ClientSteps
  BY ThreadsAre DEF Moves, MessageTypes
<1>4. (\A o \in Threads : IF thread[o].step \in MessageSteps(o) THEN \E m \in Messages : Has(o, m) ELSE thread[o].msg = {})'
  BY <1>1 DEF Has, MessageSteps
<1> QED BY <1>2, <1>3, <1>4 DEF MessageTypes, Locking

LEMMA FreeStepTypes ==
    ASSUME SppAssumption, IInv, MessageTypes, NEW t \in Threads, FreeStep(t)
    PROVE  MessageTypes'
<1>1. thread \in [Threads -> ThreadRecords] /\ TypeInv
  BY DEF IInv, TypeInv
<1>2. /\ UNCHANGED <<table, open, queue, mutex>> /\ thread[t].step \in FreeSteps
      /\ heap' \subseteq heap /\ (raced' = raced \/ raced' \in BOOLEAN)
  <2>2. \A m : OnRef(t, m) \in BOOLEAN
    BY DEF OnRef
  <2>3. OnSockLen(t) \in BOOLEAN
    BY DEF OnSockLen
  <2> QED BY <2>2, <2>3 DEF FreeStep, FreeLoad, FreeStore, FreeTest, SizeLoad, SizeStore, FreeSteps
<1>3. /\ \A c \in Clients : Len(queue'[c]) <= QueueLength
      /\ open' \subseteq Clients /\ heap' \subseteq Messages /\ raced' \in BOOLEAN
  BY <1>2 DEF MessageTypes
<1>4. PICK m \in Messages : thread[t].msg = {m}
  BY <1>2, InHand DEF MessageSteps, Has
<1>5. t = Uart => mutex' = {Uart}
  BY <1>2 DEF MessageTypes
<1>6. CASE thread' = Freed(t)
  <2>1. /\ Moves(t)
        /\ IF t = Uart /\ ~thread[t].ending THEN thread'[t].step = "next" /\ thread'[t].msg = {m} ELSE thread'[t].msg = {}
        /\ thread'[t].step = IF t # Uart THEN IF thread[t].ending THEN "draining" ELSE "serving"
                             ELSE IF thread[t].ending THEN "unlock" ELSE "next"
        /\ t = Uart => ~thread'[t].ending
    BY <1>1, <1>4, <1>6, FreedIs
  <2>2. IF thread'[t].step \in MessageSteps(t) THEN thread'[t].msg = {m} ELSE thread'[t].msg = {}
    BY <2>1 DEF MessageSteps, UartSteps, FreeSteps
  <2>3. (t = Uart => thread'[t].step \in UartSteps /\ thread'[t].step \in Locking) /\ (t # Uart => thread'[t].step \in ClientSteps)
    BY <2>1 DEF UartSteps, ClientSteps, Locking
  <2> QED BY <1>2, <1>3, <1>5, <2>1, <2>2, <2>3, TypesFrame
<1>7. ASSUME thread' # Freed(t)
      PROVE  /\ Moves(t) /\ thread'[t].step \in FreeSteps /\ thread'[t].msg = thread[t].msg
             /\ thread'[t].ending = thread[t].ending
  <2>1. CASE FreeLoad(t)
    BY <1>1, <2>1 DEF FreeLoad, Moves, ThreadRecords, FreeSteps
  <2>2. CASE FreeStore(t)
    BY <1>1, <1>7, <2>2 DEF FreeStore, Moves, ThreadRecords, FreeSteps
  <2>3. CASE FreeTest(t)
    BY <1>1, <1>7, <2>3 DEF FreeTest, Moves, ThreadRecords, FreeSteps
  <2>4. CASE SizeLoad(t)
    BY <1>1, <2>4 DEF SizeLoad, Moves, ThreadRecords, FreeSteps
  <2>5. CASE SizeStore(t)
    BY <1>7, <2>5 DEF SizeStore
  <2> QED BY <2>1, <2>2, <2>3, <2>4, <2>5 DEF FreeStep
<1>8. CASE thread' # Freed(t)
  <2>1. IF thread'[t].step \in MessageSteps(t) THEN thread'[t].msg = {m} ELSE thread'[t].msg = {}
    BY <1>4, <1>7, <1>8 DEF MessageSteps
  <2>2. thread'[t].step \in UartSteps /\ thread'[t].step \in Locking /\ thread'[t].step \in ClientSteps
    BY <1>7, <1>8 DEF UartSteps, ClientSteps, Locking
  <2> QED BY <1>2, <1>3, <1>5, <1>7, <1>8, <2>1, <2>2, TypesFrame
<1> QED BY <1>6, <1>8

LEMMA UartStepTypes ==
    ASSUME SppAssumption, IInv, MessageTypes, UartStep \/ \E m \in Messages : Allocate(m)
    PROVE  MessageTypes'
<1>1. thread \in [Threads -> ThreadRecords] /\ Uart \in Threads /\ queue \in [Clients -> Seq(Messages)]
  BY ThreadsAre DEF IInv, TypeInv
<1>2. /\ \A c \in Clients : Len(queue[c]) <= QueueLength
      /\ open \subseteq Clients /\ heap \subseteq Messages /\ raced \in BOOLEAN
      /\ thread[Uart].ending => thread[Uart].step \in FreeSteps
      /\ mutex = IF thread[Uart].step \in Locking THEN {Uart} ELSE {}
  BY DEF MessageTypes, Locking
<1>3. ASSUME Moves(Uart), thread'[Uart].msg = thread[Uart].msg, thread[Uart].step \in MessageSteps(Uart),
             thread'[Uart].step \in MessageSteps(Uart), thread'[Uart].step \in UartSteps,
             thread'[Uart].ending => thread'[Uart].step \in FreeSteps,
             mutex' = IF thread'[Uart].step \in Locking THEN {Uart} ELSE {},
             open' = open, heap' = heap, raced' \in BOOLEAN,
             \A c \in Clients : Len(queue'[c]) <= QueueLength
      PROVE  MessageTypes'
  <2>1. \E m \in Messages : thread'[Uart].msg = {m}
    BY <1>1, <1>3, InHand DEF Has
  <2> QED BY <1>1, <1>2, <1>3, <2>1, TypesFrame
<1>4. CASE \E m \in Messages : Allocate(m)
  <2>1. PICK m \in Messages : Allocate(m)
    BY <1>4
  <2>2. /\ Moves(Uart) /\ thread'[Uart].step = "count" /\ thread'[Uart].msg = {m}
        /\ thread'[Uart].ending = thread[Uart].ending
    <3>1. thread' = [thread EXCEPT ![Uart].step = "count", ![Uart].msg = {m}]
      BY <2>1 DEF Allocate
    <3> QED BY <1>1, <3>1 DEF Moves, ThreadRecords
  <2>3. thread[Uart].step = "idle" /\ UNCHANGED <<open, queue, mutex, raced>> /\ heap' = heap \cup {m}
    BY <2>1 DEF Allocate
  <2>4. /\ "count" \in UartSteps /\ "count" \in MessageSteps(Uart) /\ "count" \notin Locking
        /\ "idle" \notin Locking /\ "idle" \notin FreeSteps
    BY DEF UartSteps, MessageSteps, Locking, FreeSteps
  <2>5. ~thread'[Uart].ending /\ mutex' = {}
    BY <1>2, <2>2, <2>3, <2>4
  <2> QED BY <1>1, <1>2, <2>2, <2>3, <2>4, <2>5, TypesFrame
<1>5. CASE CountLoad
  <2>1. /\ Moves(Uart) /\ thread[Uart].step = "count" /\ thread'[Uart].step = "counted"
        /\ thread'[Uart].msg = thread[Uart].msg /\ thread'[Uart].ending = thread[Uart].ending
    BY <1>1, <1>5 DEF CountLoad, Moves, ThreadRecords
  <2>2. raced' \in BOOLEAN
    BY <1>2, <1>5 DEF CountLoad, OnSockLen
  <2> QED BY <1>2, <1>3, <1>5, <2>1, <2>2 DEF CountLoad, MessageSteps, UartSteps, FreeSteps, Locking
<1>6. CASE CountStore
  <2>1. /\ Moves(Uart) /\ thread[Uart].step = "counted" /\ thread'[Uart].step = "lock"
        /\ thread'[Uart].msg = thread[Uart].msg /\ thread'[Uart].ending = thread[Uart].ending
    BY <1>1, <1>6 DEF CountStore, Moves, ThreadRecords
  <2> QED BY <1>2, <1>3, <1>6, <2>1 DEF CountStore, MessageSteps, UartSteps, FreeSteps, Locking
<1>7. CASE Lock
  <2>1. /\ Moves(Uart) /\ thread[Uart].step = "lock" /\ thread'[Uart].step = "next"
        /\ thread'[Uart].msg = thread[Uart].msg /\ thread'[Uart].ending = thread[Uart].ending
    BY <1>1, <1>7 DEF Lock, Moves, ThreadRecords
  <2>2. mutex' = {Uart} /\ UNCHANGED <<open, queue, heap, raced>>
    BY <1>7 DEF Lock
  <2> QED BY <1>2, <1>3, <2>1, <2>2 DEF MessageSteps, UartSteps, FreeSteps, Locking
<1>8. CASE NextSlot
  <2>1. /\ Moves(Uart) /\ thread[Uart].step = "next" /\ thread'[Uart].step \in {"free", "take"}
        /\ thread'[Uart].msg = thread[Uart].msg
        /\ thread'[Uart].ending => thread'[Uart].step = "free" \/ thread[Uart].ending
    BY <1>1, <1>8 DEF NextSlot, Moves, ThreadRecords
  <2>2. raced' \in BOOLEAN
    BY <1>2, <1>8 DEF NextSlot, OnRef
  <2> QED BY <1>2, <1>3, <1>8, <2>1, <2>2 DEF NextSlot, MessageSteps, UartSteps, FreeSteps, Locking
<1>9. CASE TakeStore
  <2>1. /\ Moves(Uart) /\ thread[Uart].step = "take" /\ thread'[Uart].step = "push"
        /\ thread'[Uart].msg = thread[Uart].msg /\ thread'[Uart].ending = thread[Uart].ending
    BY <1>1, <1>9 DEF TakeStore, Moves, ThreadRecords
  <2> QED BY <1>2, <1>3, <1>9, <2>1 DEF TakeStore, MessageSteps, UartSteps, FreeSteps, Locking
<1>10. CASE Push
  <2>1. /\ Moves(Uart) /\ thread[Uart].step = "push" /\ thread'[Uart].step \in {"next", "free"}
        /\ thread'[Uart].msg = thread[Uart].msg /\ thread'[Uart].ending = thread[Uart].ending
    BY <1>1, <1>10 DEF Push, Moves, ThreadRecords
  <2>2. \A c \in Clients : Len(queue'[c]) <= QueueLength
    <3> DEFINE d == table[Min(thread[Uart].rest)]
    <3>1. \/ queue' = queue
          \/ Len(queue[d]) < QueueLength /\ \E m \in thread[Uart].msg : queue' = [queue EXCEPT ![d] = Append(queue[d], m)]
      BY <1>10 DEF Push
    <3> HIDE DEF d
    <3>2. CASE queue' = queue
      BY <1>2, <3>2
    <3>3. CASE queue' # queue
      <4>1. PICK m \in Messages : Len(queue[d]) < QueueLength /\ queue' = [queue EXCEPT ![d] = Append(queue[d], m)]
        BY <1>1, <3>1, <3>3 DEF ThreadRecords
      <4> SUFFICES ASSUME NEW c \in Clients PROVE Len(queue'[c]) <= QueueLength
        OBVIOUS
      <4>2. CASE c = d
        <5>1. queue'[c] = Append(queue[c], m) /\ queue[c] \in Seq(Messages)
          BY <1>1, <4>1, <4>2
        <5>2. Len(queue'[c]) = Len(queue[c]) + 1 /\ Len(queue[c]) \in Nat
          BY <5>1
        <5>3. QueueLength \in Nat
          BY DEF SppAssumption
        <5> QED BY <4>1, <4>2, <5>2, <5>3
      <4>3. CASE c # d
        BY <1>1, <1>2, <4>1, <4>3
      <4> QED BY <4>2, <4>3
    <3> QED BY <3>2, <3>3
  <2> QED BY <1>2, <1>3, <1>10, <2>1, <2>2 DEF Push, MessageSteps, UartSteps, FreeSteps, Locking
<1>11. CASE Unlock
  <2>1. /\ Moves(Uart) /\ thread'[Uart].step = "idle" /\ thread'[Uart].msg = {} /\ ~thread'[Uart].ending
    BY <1>1, <1>11 DEF Unlock, AtRest, Moves
  <2>2. "idle" \in UartSteps /\ "idle" \notin MessageSteps(Uart) /\ "idle" \notin Locking
    BY DEF MessageSteps, UartSteps, FreeSteps, Locking
  <2> QED BY <1>1, <1>2, <1>11, <2>1, <2>2, TypesFrame DEF Unlock
<1>12. CASE FreeStep(Uart)
  BY <1>1, <1>12, FreeStepTypes
<1> QED BY <1>4, <1>5, <1>6, <1>7, <1>8, <1>9, <1>10, <1>11, <1>12 DEF UartStep

LEMMA ClientStepTypes ==
    ASSUME SppAssumption, IInv, MessageTypes, NEW c \in Clients, ClientStep(c) \/ Write(c)
    PROVE  MessageTypes'
<1>1. thread \in [Threads -> ThreadRecords] /\ c \in Threads /\ c # Uart /\ queue \in [Clients -> Seq(Messages)]
  BY ThreadsAre DEF IInv, TypeInv
<1>2. /\ \A o \in Clients : Len(queue[o]) <= QueueLength
      /\ open \subseteq Clients /\ heap \subseteq Messages /\ raced \in BOOLEAN
      /\ MessageSteps(c) = FreeSteps \cup {"holding"}
  BY <1>1 DEF MessageTypes, MessageSteps
<1>3. CASE FreeStep(c)
  BY <1>1, <1>3, FreeStepTypes
<1>4. CASE Create(c) \/ Leave(c) \/ Deinit(c)
  <2>1. thread[c].step \in {"off", "serving", "draining"} /\ thread[c].msg = {}
    BY <1>1, <1>4 DEF Create, Leave, Deinit, MessageTypes, MessageSteps, FreeSteps
  <2>2. Moves(c) /\ thread'[c].step \in {"off", "serving", "draining"} /\ thread'[c].msg = {}
    <3>1. CASE Create(c)
      BY <1>1, <2>1, <3>1 DEF Create, Goto, Moves, ThreadRecords
    <3>2. CASE Leave(c)
      BY <1>1, <3>2 DEF Leave, Draining, Moves
    <3>3. CASE Deinit(c)
      BY <1>1, <3>3 DEF Deinit, AtRest, Moves
    <3> QED BY <1>4, <3>1, <3>2, <3>3
  <2>3. open' \subseteq Clients /\ UNCHANGED <<queue, heap, raced, mutex>>
    BY <1>2, <1>4 DEF Create, Leave, Deinit
  <2> QED BY <1>1, <1>2, <2>2, <2>3, TypesFrame DEF FreeSteps, ClientSteps
<1>5. CASE Pop(c)
  <2>1. PICK m \in Messages : m = Head(queue[c])
    BY <1>1, <1>5 DEF Pop
  <2>2. thread' = [thread EXCEPT ![c].step = IF thread[c].step = "serving" THEN "holding" ELSE "free", ![c].msg = {m}]
    BY <1>1, <1>5, <2>1 DEF Pop
  <2>3. Moves(c) /\ thread'[c].step \in {"holding", "free"} /\ thread'[c].msg = {m}
    BY <1>1, <2>2 DEF Moves, ThreadRecords
  <2>4. \A o \in Clients : Len(queue'[o]) <= QueueLength
    <3>1. /\ queue[c] \in Seq(Messages) /\ queue[c] # << >> /\ queue'[c] = Tail(queue[c])
          /\ \A o \in Clients \ {c} : queue'[o] = queue[o]
      BY <1>1, <1>5 DEF Pop
    <3>2. Len(queue'[c]) = Len(queue[c]) - 1 /\ Len(queue[c]) \in Nat
      BY <3>1
    <3>3. QueueLength \in Nat
      BY DEF SppAssumption
    <3>4. Len(queue[c]) <= QueueLength
      BY <1>2
    <3>5. Len(queue'[c]) <= QueueLength
      BY <3>2, <3>3, <3>4
    <3> QED BY <1>2, <3>1, <3>5
  <2>5. UNCHANGED <<open, heap, raced, mutex>>
    BY <1>5 DEF Pop
  <2> QED BY <1>1, <1>2, <2>3, <2>4, <2>5, TypesFrame DEF FreeSteps, ClientSteps
<1>6. CASE Write(c)
  <2>1. thread[c].step = "holding" /\ UNCHANGED <<open, queue, heap, raced, mutex>>
    BY <1>6 DEF Write
  <2>2. Moves(c) /\ thread'[c].step = "free" /\ thread'[c].msg = thread[c].msg
    BY <1>1, <1>6 DEF Write, Goto, Moves, ThreadRecords
  <2>3. \E m \in Messages : thread'[c].msg = {m}
    BY <1>1, <1>2, <2>1, <2>2, InHand DEF Has
  <2> QED BY <1>1, <1>2, <2>1, <2>2, <2>3, TypesFrame DEF FreeSteps, ClientSteps
<1> QED BY <1>3, <1>4, <1>5, <1>6 DEF ClientStep
-----------------------------------------------------------------------------
(* The invariant of the messages *)

LEMMA MessagesInit == SppAssumption /\ Init => MsgsInv
<1> SUFFICES ASSUME SppAssumption, Init PROVE MsgsInv
  OBVIOUS
<1>1. /\ thread = [t \in Threads |-> AtRest(IF t = Uart THEN "idle" ELSE "off")]
      /\ queue = [c \in Clients |-> << >>] /\ heap = {} /\ sockLen = 0 /\ mutex = {}
      /\ open = {} /\ raced = FALSE
  BY DEF Init, SppInit
<1>2. /\ thread[Uart] = AtRest("idle") /\ \A c \in Clients : thread[c] = AtRest("off")
      /\ \A t \in Threads : thread[t].msg = {} /\ thread[t].step \in {"idle", "off"}
  BY <1>1, ThreadsAre DEF AtRest
<1>3. \A c \in Clients : queue[c] = << >> /\ Len(queue[c]) = 0 /\ Once(queue[c]) /\ Held(c) = {}
  BY <1>1 DEF Once, Held, ToSet
<1>4. MessageTypes
  <2>1. /\ "idle" \notin MessageSteps(Uart) /\ \A c \in Clients : "off" \notin MessageSteps(c)
        /\ "idle" \in UartSteps /\ "off" \in ClientSteps
        /\ "idle" \notin {"next", "take", "push", "unlock"} \cup FreeSteps
    BY ThreadsAre DEF MessageSteps, UartSteps, FreeSteps, ClientSteps
  <2>2. thread[Uart].step = "idle" /\ ~thread[Uart].ending /\ \A c \in Clients : thread[c].step = "off" /\ thread[c].msg = {}
    BY <1>2 DEF AtRest
  <2>3. QueueLength \in Nat
    BY DEF SppAssumption
  <2>4. \A t \in Threads : IF thread[t].step \in MessageSteps(t) THEN \E m \in Messages : Has(t, m) ELSE thread[t].msg = {}
    BY <1>2, <2>1, <2>2, ThreadsAre
  <2>5. \A c \in Clients : Len(queue[c]) <= QueueLength
    BY <1>3, <2>3
  <2>6. mutex = IF thread[Uart].step \in {"next", "take", "push", "unlock"} \cup FreeSteps THEN {Uart} ELSE {}
    BY <1>1, <2>1, <2>2
  <2>7. open \subseteq Clients /\ heap \subseteq Messages /\ raced \in BOOLEAN
    BY <1>1
  <2>8. /\ thread[Uart].step \in UartSteps /\ \A c \in Clients : thread[c].step \in ClientSteps
        /\ thread[Uart].ending => thread[Uart].step \in FreeSteps
    BY <2>1, <2>2
  <2> QED BY <2>4, <2>5, <2>6, <2>7, <2>8 DEF MessageTypes
<1>5. \A m \in Messages : MsgInv(m)
  <2> SUFFICES ASSUME NEW m \in Messages PROVE MsgInv(m)
    OBVIOUS
  <2>1. \A t \in Threads : ~Has(t, m)
    BY <1>2 DEF Has
  <2>2. ~InUse(m)
    BY <1>3, <2>1 DEF InUse
  <2> QED BY <1>1, <2>1, <2>2, ThreadsAre DEF MsgInv, ThreadMsg
<1>6. SizeInv
  <2>1. Cardinality(heap) = 0
    BY <1>1, FS_EmptySet
  <2>2. \A t \in Threads : thread[t].step \notin Sizing
    BY <1>2 DEF Sizing
  <2>3. thread[Uart].step = "idle"
    BY <1>2 DEF AtRest
  <2> QED BY <1>1, <2>1, <2>2, <2>3 DEF SizeInv
<1>7. HeapInv
  BY <1>3, <1>5, <1>6 DEF HeapInv, Counted
<1> QED BY <1>4, <1>7, InitInv DEF MsgsInv

LEMMA CountedStep ==
    ASSUME SppAssumption, MsgsInv, IInv', ~raced, ~raced',
           \/ UartStep \/ \E m \in Messages : Allocate(m)
           \/ \E c \in Clients : ClientStep(c) \/ Write(c)
    PROVE  Counted'
<1>1. IInv /\ MessageTypes /\ Counted
  BY DEF MsgsInv, HeapInv
<1>2. ASSUME NEW t \in Threads, FreeStep(t) PROVE Counted'
  BY <1>1, <1>2, FreeLoadKeeps, FreeStoreKeeps, FreeTestKeeps, SizeLoadKeeps, SizeStoreKeeps DEF FreeStep
<1>3. CASE \E m \in Messages : Allocate(m)
  BY <1>1, <1>3, AllocateKeeps
<1>4. CASE UartStep
  BY <1>1, <1>2, <1>4, ThreadsAre, CountKeeps, LockKeeps, NextSlotKeeps, TakeStoreKeeps, PushKeeps, UnlockKeeps DEF UartStep
<1>5. CASE \E c \in Clients : ClientStep(c) \/ Write(c)
  BY <1>1, <1>2, <1>5, ThreadsAre, ComeAndGoKeeps, PopKeeps, WriteKeeps DEF ClientStep
<1> QED BY <1>3, <1>4, <1>5

LEMMA MessagesStep == SppAssumption /\ MsgsInv /\ [Next]_vars => MsgsInv'
<1> SUFFICES ASSUME SppAssumption, MsgsInv, [Next]_vars PROVE MsgsInv'
  OBVIOUS
<1>1. IInv /\ IInv' /\ MessageTypes /\ HeapInv
  BY StepInv DEF MsgsInv
<1>2. CASE UNCHANGED sppVars
  <2>1. MessageTypes'
    BY <1>1, <1>2 DEF MessageTypes, MessageSteps, Has, sppVars
  <2>2. ASSUME NEW m \in Messages, MsgInv(m) PROVE MsgInv(m)'
    BY <1>2, <2>2 DEF MsgInv, ThreadMsg, InUse, References, InQueues, InHands, UartOwn, Held, Has, Pushing, sppVars
  <2>3. SizeInv => SizeInv'
    BY <1>2 DEF SizeInv, sppVars
  <2>4. HeapInv'
    BY <1>1, <1>2, <2>2, <2>3 DEF HeapInv, Counted, sppVars
  <2> QED BY <1>1, <2>1, <2>4 DEF MsgsInv
<1>3. CASE /\ ~raced
           /\ \/ UartStep \/ \E m \in Messages : Allocate(m)
              \/ \E c \in Clients : ClientStep(c) \/ Write(c)
  <2>1. MessageTypes'
    BY <1>1, <1>3, UartStepTypes, ClientStepTypes
  <2>2. HeapInv'
    BY <1>1, <1>3, CountedStep DEF HeapInv
  <2> QED BY <1>1, <2>1, <2>2 DEF MsgsInv
<1> QED BY <1>2, <1>3 DEF Next, Read, Forward, Discard, Send, vars

\* In every behaviour of the bridge, until two threads change one count at once, a message's count is
\* the number of those who have it: queues it is in, clients that write it or are about to give it
\* up, and the UART's thread with what it has taken for the next queue (socket_msg_take and
\* socket_msg_free, SppProtocol.c:108-131).
THEOREM CountsAreRight == Spec => []RefIsReferences
<1>1. MsgsInv => RefIsReferences
  BY DEF MsgsInv, HeapInv, Counted, MsgInv, MessageTypes, RefIsReferences
<1> QED BY <1>1, MessagesInit, MessagesStep, SppAssumption, PTL DEF Spec

\* And what is allocated is what somebody has: nothing is freed that a queue or a thread still
\* refers to, nothing twice, and nothing is lost, whoever drops the last reference; and sockmsg_len
\* is what is allocated (SppProtocol.c:66-131).
THEOREM NothingLostOrDangling == Spec => []HeapIsReachable
<1>1. SppAssumption /\ MsgsInv => HeapIsReachable
  <2> SUFFICES ASSUME SppAssumption, MsgsInv, ~raced
               PROVE  /\ heap = (UNION {ToSet(queue[c]) : c \in Clients}) \cup (UNION {thread[t].msg : t \in Threads})
                      /\ sockLen = Cardinality(heap) - (IF thread[Uart].step \in {"count", "counted"} THEN 1 ELSE 0)
    BY DEF HeapIsReachable
  <2>1. IInv /\ MessageTypes /\ Counted
    BY DEF MsgsInv, HeapInv
  <2>2. /\ \A c \in Clients : ToSet(queue[c]) \subseteq Messages
        /\ \A t \in Threads : thread[t].msg \subseteq Messages
    <3>1. \A c \in Clients : queue[c] \in Seq(Messages)
      BY <2>1 DEF IInv, TypeInv
    <3>2. ASSUME NEW q \in Seq(Messages) PROVE ToSet(q) \subseteq Messages
      BY DEF ToSet
    <3>3. \A t \in Threads : thread[t].msg \subseteq Messages
      BY <2>1 DEF IInv, TypeInv, ThreadRecords
    <3> QED BY <3>1, <3>2, <3>3
  <2>3. \A t \in Threads : \A m \in Messages : m \in thread[t].msg <=> Has(t, m)
    BY <2>1 DEF MessageTypes, Has
  <2>4. \A m \in Messages : m \in heap <=> InUse(m)
    BY <2>1 DEF Counted, MsgInv
  <2>5. \A m \in Messages : InUse(m) <=> (\E c \in Clients : m \in ToSet(queue[c])) \/ \E t \in Threads : m \in thread[t].msg
    BY <2>3 DEF InUse, Held
  <2>6. heap \subseteq Messages
    BY <2>1 DEF MessageTypes
  <2>7. heap = (UNION {ToSet(queue[c]) : c \in Clients}) \cup (UNION {thread[t].msg : t \in Threads})
    BY <2>2, <2>4, <2>5, <2>6, Zenon
  <2> QED BY <2>1, <2>7 DEF Counted, SizeInv
<1> QED BY <1>1, MessagesInit, MessagesStep, SppAssumption, PTL DEF Spec
-----------------------------------------------------------------------------
(* Types *)

DataTypes == data \in [Messages -> Seq(1 .. MaxBytes)] /\ lastSent \in [Clients -> 0 .. MaxBytes]

BridgeInv == MsgsInv /\ UartInv /\ DataTypes

LEMMA LastIs ==
    ASSUME NEW S, NEW s \in Seq(S), s # << >>
    PROVE  Len(s) \in 1 .. Len(s) /\ Len(s) \in Nat /\ Last(s) = s[Len(s)] /\ Last(s) \in S
BY DEF Last

LEMMA DataStep ==
    ASSUME SppAssumption, UartRxAssumption, IInv, UartInv, DataTypes, [Next]_vars
    PROVE  DataTypes'
<1>1. /\ data \in [Messages -> Seq(1 .. MaxBytes)] /\ lastSent \in [Clients -> 0 .. MaxBytes]
      /\ reader.data \in Seq(1 .. MaxBytes)
  BY DEF DataTypes, UartInv, UartTypes, ReaderSet
<1>2. CASE UNCHANGED bridgeVars
  BY <1>2 DEF DataTypes, bridgeVars
<1>3. CASE DataFreed /\ UNCHANGED lastSent
  <2>1. \A m \in Messages : data'[m] \in Seq(1 .. MaxBytes)
    <3>1. << >> \in Seq(1 .. MaxBytes)
      OBVIOUS
    <3> QED BY <1>1, <1>3, <3>1 DEF DataFreed
  <2> QED BY <1>1, <1>3, <2>1 DEF DataFreed, DataTypes
<1>4. CASE Forward
  BY <1>1, <1>4 DEF Forward, DataTypes
<1>5. CASE \E c \in Clients : Send(c)
  <2>1. PICK c \in Clients : Send(c)
    BY <1>5
  <2>2. PICK m \in thread[c].msg : lastSent' = [lastSent EXCEPT ![c] = IF data[m] = << >> THEN @ ELSE Last(data[m])]
    BY <2>1 DEF Send
  <2>3. m \in Messages
    BY ThreadsAre DEF IInv, TypeInv, ThreadRecords
  <2>4. data[m] # << >> => Last(data[m]) \in 1 .. MaxBytes
    BY <1>1, <2>3, LastIs
  <2>5. \A b \in 1 .. MaxBytes : b \in 0 .. MaxBytes
    BY DEF UartRxAssumption
  <2>6. lastSent' \in [Clients -> 0 .. MaxBytes]
    BY <1>1, <2>2, <2>4, <2>5
  <2> QED BY <1>1, <2>1, <2>6 DEF Send, DataTypes
<1> QED BY <1>2, <1>3, <1>4, <1>5 DEF Next, Read, Discard, vars, bridgeVars

LEMMA BridgeInitInv == SppAssumption /\ UartRxAssumption /\ Init => BridgeInv
<1> SUFFICES ASSUME SppAssumption, UartRxAssumption, Init PROVE BridgeInv
  OBVIOUS
<1>1. DataTypes
  <2>1. data = [m \in Messages |-> << >>] /\ lastSent = [c \in Clients |-> 0]
    BY DEF Init
  <2>2. << >> \in Seq(1 .. MaxBytes) /\ 0 \in 0 .. MaxBytes
    BY DEF UartRxAssumption
  <2> QED BY <2>1, <2>2 DEF DataTypes
<1> QED BY <1>1, MessagesInit, BridgeInit DEF BridgeInv

LEMMA BridgeStepInv == SppAssumption /\ UartRxAssumption /\ BridgeInv /\ [Next]_vars => BridgeInv'
BY MessagesStep, BridgeStep, DataStep DEF BridgeInv, MsgsInv

\* Every reachable state of UART, ring, queues, threads and messages holds values of their kinds; the
\* queues stay within their length, the mutex is held exactly while the UART's thread pushes, and a
\* thread has a message exactly at the steps at which the code does.
THEOREM BridgeTypes == Spec => []BridgeTypeOK
<1>1. SppAssumption /\ UartRxAssumption /\ BridgeInv => BridgeTypeOK
  <2> SUFFICES ASSUME SppAssumption, UartRxAssumption, BridgeInv PROVE BridgeTypeOK
    OBVIOUS
  <2>1. IInv /\ TypeInv /\ MessageTypes /\ DataTypes
    BY DEF BridgeInv, MsgsInv, IInv
  <2>2. ASSUME NEW t \in Threads
        PROVE  /\ thread[t].msg \subseteq Messages
               /\ Cardinality(thread[t].msg) = IF thread[t].step \in MessageSteps(t) THEN 1 ELSE 0
    <3>1. thread[t].msg \subseteq Messages
      BY <2>1 DEF TypeInv, ThreadRecords
    <3>2. CASE thread[t].step \in MessageSteps(t)
      <4>1. PICK m \in Messages : thread[t].msg = {m}
        BY <2>1, <3>2, InHand DEF Has
      <4> QED BY <3>1, <3>2, <4>1, FS_Singleton
    <3>3. CASE thread[t].step \notin MessageSteps(t)
      <4>1. thread[t].msg = {}
        BY <2>1, <3>3 DEF MessageTypes
      <4> QED BY <3>1, <3>3, <4>1, FS_EmptySet
    <3> QED BY <3>2, <3>3
  <2>3. SppTypeOK
    <3>1. \A t \in Threads : /\ thread[t].msg \subseteq Messages
                             /\ Cardinality(thread[t].msg) = IF thread[t].step \in FreeSteps \cup
                                  (IF t = Uart THEN UartSteps \ {"idle", "unlock"} ELSE {"holding"}) THEN 1 ELSE 0
      BY <2>2 DEF MessageSteps
    <3>2. /\ table \in [SlotIds -> Clients \cup {NoQueue}] /\ queue \in [Clients -> Seq(Messages)]
          /\ ref \in [Messages -> Int] /\ sockLen \in Int
      BY <2>1 DEF TypeInv
    <3> QED BY <2>1, <3>1, <3>2 DEF SppTypeOK, MessageTypes
  <2>4. UartTypeOK
    BY UartConsequences DEF BridgeInv
  <2> QED BY <2>1, <2>3, <2>4 DEF BridgeTypeOK, DataTypes
<1> QED BY <1>1, BridgeInitInv, BridgeStepInv, SppAssumption, UartRxAssumption, PTL DEF Spec
-----------------------------------------------------------------------------
(* The order of the bytes, from the UART to each client's socket *)

Bytes(m) == ToSet(data[m])
Consecutive(s) == \A i \in 1 .. Len(s) - 1 : s[i + 1] = s[i] + 1

\* A message on its way to a client: written next, in the queue, or still to be pushed.
Holding(c, m) == thread[c].step = "holding" /\ Has(c, m)
Unpushed(c, m) ==
    /\ Has(Uart, m)
    /\ \/ thread[Uart].step \in {"count", "counted", "lock"}
       \/ Pushing /\ \E s \in thread[Uart].rest : table[s] = c
Coming(c, m) == Holding(c, m) \/ m \in Held(c) \/ Unpushed(c, m)

\* On the way to the client m is before n.
Follows(q, m, n) == \E i, j \in DOMAIN q : i < j /\ q[i] = m /\ q[j] = n
Before(c, m, n) ==
    \/ Follows(queue[c], m, n)
    \/ Holding(c, m) /\ (n \in Held(c) \/ Unpushed(c, n))
    \/ m \in Held(c) /\ Unpushed(c, n)

\* Messages on their way hold bytes the client has not sent, in the order they arrived.
Ordered(c) ==
    /\ lastSent[c] <= Passed
    /\ \A m \in Messages : Coming(c, m) => \A b \in Bytes(m) : lastSent[c] < b
    /\ \A m, n \in Messages : Before(c, m, n) => \A a \in Bytes(m), b \in Bytes(n) : a < b

OrderInv ==
    ~raced /\ ~overrun =>
        /\ \A m \in Messages : Consecutive(data[m]) /\ \A b \in Bytes(m) : b <= Passed
        /\ \A c \in Clients : Ordered(c)

\* What a step may do to the way to the clients without a look at the bytes: messages leave it, and
\* none overtakes another.
WayShrinks ==
    \A c \in Clients, m \in Messages :
        /\ Coming(c, m)' => Coming(c, m)
        /\ \A n \in Messages : Before(c, m, n)' => Before(c, m, n)

LEMMA NoBytes == ASSUME NEW s, s = << >> PROVE ToSet(s) = {} /\ Consecutive(s)
BY DEF ToSet, Consecutive

LEMMA BytesAre ==
    ASSUME NEW S, NEW s \in Seq(S)
    PROVE  /\ ToSet(s) \subseteq S /\ \A b \in ToSet(s) : \E i \in 1 .. Len(s) : s[i] = b
           /\ \A i \in 1 .. Len(s) : s[i] \in ToSet(s)
<1>1. DOMAIN s = 1 .. Len(s)
  OBVIOUS
<1>2. \A i \in 1 .. Len(s) : s[i] \in S
  OBVIOUS
<1> QED BY <1>1, <1>2, Zenon DEF ToSet

\* Messages lose their bytes or keep them.
LEMMA OrderFrame ==
    ASSUME UartRxAssumption, DataTypes, OrderInv, ~raced, ~overrun, WayShrinks, UNCHANGED lastSent,
           \A m \in Messages : data'[m] = data[m] \/ data'[m] = << >>,
           Passed \in Int, Passed' \in Int, Passed <= Passed'
    PROVE  OrderInv'
<1>1. \A m \in Messages : Bytes(m) \subseteq 1 .. MaxBytes
  BY BytesAre DEF DataTypes, Bytes
<1>2. \A m \in Messages : Bytes(m)' \subseteq Bytes(m)
  BY NoBytes DEF Bytes
<1>3. \A c \in Clients : lastSent[c] \in Int
  BY DEF DataTypes, UartRxAssumption
<1>4. \A b \in 1 .. MaxBytes : b \in Int
  BY DEF UartRxAssumption
<1>5. ASSUME NEW m \in Messages PROVE Consecutive(data'[m]) /\ \A b \in Bytes(m)' : b <= Passed'
  <2>1. Consecutive(data[m]) /\ \A b \in Bytes(m) : b <= Passed
    BY DEF OrderInv
  <2>2. Consecutive(data'[m])
    BY <2>1, NoBytes
  <2>3. ASSUME NEW b \in Bytes(m)' PROVE b <= Passed'
    <3>1. b \in Int /\ b <= Passed
      BY <1>1, <1>2, <1>4, <2>1
    <3> QED BY <3>1
  <2> QED BY <2>2, <2>3
<1>6. ASSUME NEW c \in Clients PROVE Ordered(c)'
  <2>1. Ordered(c)
    BY DEF OrderInv
  <2>2. lastSent'[c] <= Passed'
    BY <1>3, <2>1 DEF Ordered
  <2>3. ASSUME NEW m \in Messages, Coming(c, m)', NEW b \in Bytes(m)' PROVE lastSent'[c] < b
    BY <1>2, <2>1, <2>3 DEF Ordered, WayShrinks
  <2>4. ASSUME NEW m \in Messages, NEW n \in Messages, Before(c, m, n)', NEW a \in Bytes(m)', NEW b \in Bytes(n)'
        PROVE  a < b
    BY <1>2, <2>1, <2>4 DEF Ordered, WayShrinks
  <2> QED BY <2>2, <2>3, <2>4 DEF Ordered
<1> QED BY <1>5, <1>6 DEF OrderInv, Consecutive

\* With the queues as they are, the way changes with what the threads have.
LEMMA WayFrame ==
    ASSUME UNCHANGED queue,
           \A c \in Clients, m \in Messages : (Holding(c, m)' => Holding(c, m)) /\ (Unpushed(c, m)' => Unpushed(c, m))
    PROVE  WayShrinks
<1>1. \A c \in Clients : Held(c)' = Held(c)
  BY DEF Held
<1>2. ASSUME NEW c \in Clients, NEW m \in Messages, Coming(c, m)' PROVE Coming(c, m)
  BY <1>1, <1>2 DEF Coming
<1>3. ASSUME NEW c \in Clients, NEW m \in Messages, NEW n \in Messages, Before(c, m, n)' PROVE Before(c, m, n)
  BY <1>1, <1>3 DEF Before
<1> QED BY <1>2, <1>3 DEF WayShrinks

\* The UART's thread takes a step with its message, or gives it up: it has no more to push than before.
LEMMA UartWay ==
    ASSUME SppAssumption, Moves(Uart), UNCHANGED <<queue, table>>,
           thread'[Uart].msg = thread[Uart].msg \/ thread'[Uart].msg = {},
           \/ thread[Uart].step \in {"count", "counted", "lock"}
           \/ /\ Pushing /\ thread'[Uart].step \notin {"count", "counted", "lock"}
              /\ thread'[Uart].rest \subseteq thread[Uart].rest
    PROVE  WayShrinks
<1>1. \A c \in Clients : thread'[c] = thread[c]
  BY ThreadsAre DEF Moves
<1>2. \A c \in Clients, m \in Messages : Holding(c, m)' => Holding(c, m)
  BY <1>1 DEF Holding, Has
<1>3. ASSUME NEW c \in Clients, NEW m \in Messages, Unpushed(c, m)' PROVE Unpushed(c, m)
  BY <1>3 DEF Unpushed, Has
<1> QED BY <1>2, <1>3, WayFrame

\* A client takes a step and holds nothing to be written that it did not hold before.
LEMMA ClientWay ==
    ASSUME SppAssumption, NEW c \in Clients, Moves(c), UNCHANGED queue, UNCHANGED table \/ ~Pushing,
           thread'[c].step # "holding"
    PROVE  WayShrinks
<1>1. thread'[Uart] = thread[Uart] /\ \A o \in Clients \ {c} : thread'[o] = thread[o]
  BY ThreadsAre DEF Moves
<1>2. \A o \in Clients, m \in Messages : Holding(o, m)' => Holding(o, m)
  BY <1>1 DEF Holding, Has
<1>3. ASSUME NEW o \in Clients, NEW m \in Messages, Unpushed(o, m)' PROVE Unpushed(o, m)
  BY <1>1, <1>3 DEF Unpushed, Has, Pushing
<1> QED BY <1>2, <1>3, WayFrame

LEMMA FreeStepWay ==
    ASSUME SppAssumption, IInv, NEW t \in Threads, FreeStep(t)
    PROVE  WayShrinks
<1>1. thread \in [Threads -> ThreadRecords] /\ TypeInv
  BY DEF IInv, TypeInv
<1>2. /\ UNCHANGED <<table, queue>> /\ thread[t].step \in FreeSteps /\ Moves(t)
      /\ t = Uart => thread'[t].rest \subseteq thread[t].rest
  BY <1>1, FreeStepEffect DEF Moves
<1>3. CASE thread' = Freed(t)
  <2>1. /\ thread'[t].msg = thread[t].msg \/ thread'[t].msg = {}
        /\ thread'[t].step \notin {"count", "counted", "lock", "holding"}
    BY <1>1, <1>3, FreedIs
  <2> QED BY <1>2, <2>1, ThreadsAre, UartWay, ClientWay DEF Pushing
<1>4. CASE thread' # Freed(t)
  <2>1. thread'[t].msg = thread[t].msg /\ thread'[t].step \notin {"count", "counted", "lock", "holding"}
    <3>1. CASE FreeLoad(t)
      BY <1>1, <3>1 DEF FreeLoad, ThreadRecords
    <3>2. CASE FreeStore(t)
      <4>1. \/ thread' = [thread EXCEPT ![t].step = "size", ![t].loaded = 0]
            \/ thread' = [thread EXCEPT ![t].step = "test", ![t].loaded = 0]
        BY <1>4, <3>2, Zenon DEF FreeStore
      <4> QED BY <1>1, <4>1 DEF ThreadRecords
    <3>3. CASE FreeTest(t)
      <4>1. thread' = [thread EXCEPT ![t].step = "size"]
        BY <1>4, <3>3, Zenon DEF FreeTest
      <4> QED BY <1>1, <4>1 DEF ThreadRecords
    <3>4. CASE SizeLoad(t)
      BY <1>1, <3>4 DEF SizeLoad, ThreadRecords
    <3>5. CASE SizeStore(t)
      BY <1>4, <3>5 DEF SizeStore
    <3> QED BY <3>1, <3>2, <3>3, <3>4, <3>5 DEF FreeStep
  <2> QED BY <1>2, <2>1, ThreadsAre, UartWay, ClientWay DEF Pushing
<1> QED BY <1>3, <1>4

LEMMA UartStepWay ==
    ASSUME SppAssumption, IInv, CountLoad \/ CountStore \/ Lock \/ NextSlot \/ TakeStore
    PROVE  WayShrinks
<1>1. thread \in [Threads -> ThreadRecords] /\ Uart \in Threads
  BY ThreadsAre DEF IInv, TypeInv
<1>2. CASE CountLoad \/ CountStore \/ Lock
  <2>1. /\ Moves(Uart) /\ UNCHANGED <<queue, table>> /\ thread'[Uart].msg = thread[Uart].msg
        /\ thread[Uart].step \in {"count", "counted", "lock"}
    BY <1>1, <1>2 DEF CountLoad, CountStore, Lock, Moves, ThreadRecords
  <2> QED BY <2>1, UartWay
<1>3. CASE NextSlot
  <2>1. /\ thread[Uart].step = "next" /\ UNCHANGED <<queue, table>>
        /\ \/ thread' = [thread EXCEPT ![Uart].step = "free", ![Uart].ending = TRUE]
           \/ \E m \in thread[Uart].msg : thread' = [thread EXCEPT ![Uart].step = "take", ![Uart].loaded = ref[m]]
    BY <1>3, Zenon DEF NextSlot
  <2>2. /\ Moves(Uart) /\ thread'[Uart].msg = thread[Uart].msg /\ thread'[Uart].rest = thread[Uart].rest
        /\ thread'[Uart].step \in {"free", "take"}
    BY <1>1, <2>1 DEF Moves, ThreadRecords
  <2> QED BY <2>1, <2>2, UartWay DEF Pushing
<1>4. CASE TakeStore
  <2>1. thread' = [thread EXCEPT ![Uart].step = "push", ![Uart].loaded = 0] /\ thread[Uart].step = "take"
        /\ UNCHANGED <<queue, table>>
    BY <1>4 DEF TakeStore
  <2>2. /\ Moves(Uart) /\ thread'[Uart].msg = thread[Uart].msg /\ thread'[Uart].rest = thread[Uart].rest
        /\ thread'[Uart].step = "push"
    BY <1>1, <2>1 DEF Moves, ThreadRecords
  <2> QED BY <2>1, <2>2, UartWay DEF Pushing
<1> QED BY <1>2, <1>3, <1>4

LEMMA UnlockWay == ASSUME SppAssumption, IInv, MessageTypes, Unlock PROVE WayShrinks
<1>1. thread \in [Threads -> ThreadRecords] /\ Uart \in Threads
  BY ThreadsAre DEF IInv, TypeInv
<1>2. Moves(Uart) /\ UNCHANGED <<queue, table>> /\ thread'[Uart].msg = {}
  BY <1>1 DEF Unlock, Moves, AtRest
<1>3. \A c \in Clients : thread'[c] = thread[c]
  BY <1>2, ThreadsAre DEF Moves
<1>4. \A c \in Clients, m \in Messages : Holding(c, m)' => Holding(c, m)
  BY <1>3 DEF Holding, Has
<1>5. \A c \in Clients, m \in Messages : ~Unpushed(c, m)'
  BY <1>2 DEF Unpushed, Has
<1> QED BY <1>2, <1>4, <1>5, WayFrame

\* Coming and going changes the table only while nobody pushes.
LEMMA ComeAndGoWay ==
    ASSUME SppAssumption, IInv, NEW c \in Clients, Create(c) \/ Leave(c) \/ Deinit(c)
    PROVE  WayShrinks
<1>1. thread \in [Threads -> ThreadRecords] /\ c \in Threads
  BY ThreadsAre DEF IInv, TypeInv
<1>2. Moves(c) /\ UNCHANGED queue /\ thread'[c].step \in {"off", "serving", "draining"}
  BY <1>1 DEF Create, Leave, Deinit, Goto, Moves, AtRest, Draining, ThreadRecords
<1>3. UNCHANGED table \/ mutex = {}
  BY DEF Create, Leave, Deinit
<1>4. UNCHANGED table \/ ~Pushing
  BY <1>3 DEF IInv, TableInv
<1> QED BY <1>2, <1>4, ClientWay

LEMMA FollowsTail ==
    ASSUME NEW S, NEW q \in Seq(S), q # << >>
    PROVE  /\ \A m, n : Follows(Tail(q), m, n) => Follows(q, m, n)
           /\ \A n \in ToSet(Tail(q)) : Follows(q, Head(q), n)
<1>1. /\ Len(q) \in Nat /\ Len(q) >= 1 /\ DOMAIN q = 1 .. Len(q) /\ DOMAIN Tail(q) = 1 .. Len(q) - 1
      /\ \A i \in 1 .. Len(q) - 1 : Tail(q)[i] = q[i + 1]
      /\ Head(q) = q[1]
  OBVIOUS
<1>2. /\ 1 \in 1 .. Len(q)
      /\ \A i \in 1 .. Len(q) - 1 : i + 1 \in 1 .. Len(q) /\ 1 < i + 1
      /\ \A i, j \in 1 .. Len(q) - 1 : i < j => i + 1 < j + 1
  BY <1>1
<1>3. ASSUME NEW m, NEW n, Follows(Tail(q), m, n) PROVE Follows(q, m, n)
  <2>1. PICK i \in 1 .. Len(q) - 1, j \in 1 .. Len(q) - 1 : i < j /\ q[i + 1] = m /\ q[j + 1] = n
    BY <1>1, <1>3 DEF Follows
  <2>2. i + 1 \in DOMAIN q /\ j + 1 \in DOMAIN q /\ i + 1 < j + 1
    BY <1>1, <1>2, <2>1
  <2> QED BY <2>1, <2>2 DEF Follows
<1>4. ASSUME NEW n \in ToSet(Tail(q)) PROVE Follows(q, Head(q), n)
  <2>1. PICK i \in 1 .. Len(q) - 1 : q[i + 1] = n
    BY <1>1 DEF ToSet
  <2>2. i + 1 \in DOMAIN q /\ 1 \in DOMAIN q /\ 1 < i + 1
    BY <1>1, <1>2
  <2> QED BY <1>1, <2>1, <2>2 DEF Follows
<1> QED BY <1>3, <1>4

LEMMA FollowsAppend ==
    ASSUME NEW S, NEW q \in Seq(S), NEW x \in S, NEW m, NEW n, Follows(Append(q, x), m, n)
    PROVE  Follows(q, m, n) \/ (m \in ToSet(q) /\ n = x)
<1>1. /\ Len(q) \in Nat /\ DOMAIN q = 1 .. Len(q) /\ DOMAIN Append(q, x) = 1 .. Len(q) + 1
      /\ \A i \in 1 .. Len(q) : Append(q, x)[i] = q[i]
      /\ Append(q, x)[Len(q) + 1] = x
  OBVIOUS
<1>2. PICK i \in 1 .. Len(q) + 1, j \in 1 .. Len(q) + 1 : i < j /\ Append(q, x)[i] = m /\ Append(q, x)[j] = n
  BY <1>1 DEF Follows
<1>3. i \in 1 .. Len(q) /\ (j \in 1 .. Len(q) \/ j = Len(q) + 1)
  BY <1>1, <1>2
<1>4. q[i] = m /\ m \in ToSet(q)
  BY <1>1, <1>2, <1>3 DEF ToSet
<1> QED BY <1>1, <1>2, <1>3, <1>4 DEF Follows

\* The first of the queue is written next.
LEMMA PopWay == ASSUME SppAssumption, IInv, NEW c \in Clients, Pop(c) PROVE WayShrinks
<1>1. /\ thread \in [Threads -> ThreadRecords] /\ c \in Threads /\ c # Uart /\ queue \in [Clients -> Seq(Messages)]
      /\ UNCHANGED table /\ queue[c] # << >> /\ queue[c] \in Seq(Messages)
  BY ThreadsAre DEF IInv, TypeInv, Pop
<1>2. PICK h \in Messages : h = Head(queue[c])
  BY <1>1
<1>3. queue' = [queue EXCEPT ![c] = Tail(queue[c])] /\ Moves(c) /\ thread'[c].msg = {h}
  BY <1>1, <1>2 DEF Pop, Moves, ThreadRecords
<1>4. /\ queue'[c] = Tail(queue[c])
      /\ \A o \in Clients \ {c} : queue'[o] = queue[o] /\ thread'[o] = thread[o]
      /\ thread'[Uart] = thread[Uart]
  BY <1>1, <1>3, ThreadsAre DEF Moves
<1>5. \A o \in Clients, m \in Messages : Unpushed(o, m)' <=> Unpushed(o, m)
  BY <1>1, <1>4 DEF Unpushed, Has, Pushing
<1>6. \A m \in Messages : Holding(c, m)' => m = h
  BY <1>3 DEF Holding, Has
<1>7. h \in Held(c) /\ Held(c)' \subseteq Held(c)
  BY <1>1, <1>2, <1>4, Dequeued DEF Held
<1>8. ASSUME NEW m \in Messages PROVE Coming(c, m)' => Coming(c, m)
  BY <1>5, <1>6, <1>7 DEF Coming
<1>9. ASSUME NEW m \in Messages, NEW n \in Messages, Before(c, m, n)' PROVE Before(c, m, n)
  <2>1. CASE Follows(queue'[c], m, n)
    BY <1>1, <1>4, <2>1, FollowsTail DEF Before
  <2>2. CASE Holding(c, m)' /\ n \in Held(c)'
    <3>1. n \in ToSet(Tail(queue[c])) /\ m = Head(queue[c])
      BY <1>2, <1>4, <1>6, <2>2 DEF Held
    <3> QED BY <1>1, <3>1, FollowsTail DEF Before
  <2>3. CASE Unpushed(c, n)' /\ (Holding(c, m)' \/ m \in Held(c)')
    BY <1>5, <1>6, <1>7, <2>3 DEF Before
  <2> QED BY <1>9, <2>1, <2>2, <2>3 DEF Before
<1>10. ASSUME NEW o \in Clients \ {c}, NEW m \in Messages, NEW n \in Messages
       PROVE  (Coming(o, m)' => Coming(o, m)) /\ (Before(o, m, n)' => Before(o, m, n))
  <2>1. (Holding(o, m)' <=> Holding(o, m)) /\ Held(o)' = Held(o) /\ queue'[o] = queue[o]
    BY <1>4 DEF Holding, Has, Held
  <2> QED BY <1>5, <2>1 DEF Coming, Before
<1> QED BY <1>8, <1>9, <1>10 DEF WayShrinks

\* What is pushed goes to the end of a queue that comes once in the table.
LEMMA PushWay == ASSUME SppAssumption, IInv, MessageTypes, Push PROVE WayShrinks
<1>1. /\ thread \in [Threads -> ThreadRecords] /\ UNCHANGED table
      /\ Uart \in Threads /\ queue \in [Clients -> Seq(Messages)]
  BY ThreadsAre DEF IInv, TypeInv, Push
<1>2. PICK m \in Messages : Has(Uart, m)
  BY <1>1, InHand DEF Push, MessageSteps, UartSteps
<1>3. thread[Uart].step = "push" /\ Pushing
  BY DEF Push, Pushing
<1>4. PICK s \in thread[Uart].rest : s = Min(thread[Uart].rest)
  <2>1. thread[Uart].rest \in SUBSET Nat /\ thread[Uart].rest # {}
    BY <1>1, <1>3 DEF SlotIds, ThreadRecords, SppAssumption, IInv, TableInv
  <2> QED BY <2>1, LeastExists, Zenon DEF Min
<1>5. PICK c \in Clients : c = table[s] /\ s \in SlotIds /\ c # NoQueue
  BY <1>3, <1>4, RestIsInTable, ThreadsAre
<1> DEFINE fits == Len(queue[c]) < QueueLength
<1>6. queue' = IF fits THEN [queue EXCEPT ![c] = Append(queue[c], m)] ELSE queue
  BY <1>2, <1>4, <1>5 DEF Push, Has
<1>7. thread' = [thread EXCEPT ![Uart].rest = thread[Uart].rest \ {s}, ![Uart].step = IF fits THEN "next" ELSE "free"]
  BY <1>1, <1>4, <1>5 DEF Push
<1> HIDE DEF fits
<1>8. /\ Moves(Uart) /\ thread'[Uart].msg = thread[Uart].msg /\ thread'[Uart].rest = thread[Uart].rest \ {s}
      /\ thread'[Uart].step \in {"next", "free"}
  BY <1>1, <1>7 DEF Moves, ThreadRecords
<1>9. CASE ~fits
  BY <1>1, <1>3, <1>6, <1>8, <1>9, UartWay
<1>10. CASE fits
  <2>1. queue'[c] = Append(queue[c], m) /\ \A o \in Clients \ {c} : queue'[o] = queue[o]
    BY <1>1, <1>5, <1>6, <1>10
  <2>2. queue[c] \in Seq(Messages) /\ Held(c)' = Held(c) \cup {m} /\ \A o \in Clients \ {c} : Held(o)' = Held(o)
    BY <1>1, <1>5, <2>1, Appended DEF Held
  <2>3. \A o \in Clients, n \in Messages : Holding(o, n)' <=> Holding(o, n)
    BY <1>8, ThreadsAre DEF Moves, Holding, Has
  <2>4. \A o \in Clients, n \in Messages : Unpushed(o, n)' => Unpushed(o, n)
    BY <1>1, <1>3, <1>8 DEF Unpushed, Has
  <2>5. Unpushed(c, m)
    BY <1>2, <1>3, <1>4, <1>5 DEF Unpushed
  <2>6. \A n \in Messages : ~Unpushed(c, n)'
    <3>1. \A r \in thread[Uart].rest \ {s} : r \in SlotIds /\ table[r] # c
      <4>1. \A r \in thread[Uart].rest : r \in SlotIds
        BY <1>3, RestIsInTable
      <4> QED BY <1>5, <4>1 DEF IInv, TableInv
    <3> QED BY <1>1, <1>8, <3>1 DEF Unpushed
  <2>7. ASSUME NEW n \in Messages PROVE Coming(c, n)' => Coming(c, n)
    BY <2>2, <2>3, <2>4, <2>5 DEF Coming
  <2>8. ASSUME NEW x \in Messages, NEW n \in Messages, Before(c, x, n)' PROVE Before(c, x, n)
    <3>1. CASE Follows(queue'[c], x, n)
      <4>1. Follows(queue[c], x, n) \/ (x \in Held(c) /\ n = m)
        BY <2>1, <2>2, <3>1, FollowsAppend DEF Held
      <4> QED BY <2>5, <4>1 DEF Before
    <3>2. CASE Holding(c, x)' /\ n \in Held(c)'
      BY <2>2, <2>3, <2>5, <3>2 DEF Before
    <3> QED BY <2>6, <2>8, <3>1, <3>2 DEF Before
  <2>9. ASSUME NEW o \in Clients \ {c}, NEW x \in Messages, NEW n \in Messages
        PROVE  (Coming(o, x)' => Coming(o, x)) /\ (Before(o, x, n)' => Before(o, x, n))
    BY <2>1, <2>2, <2>3, <2>4 DEF Coming, Before
  <2> QED BY <2>7, <2>8, <2>9 DEF WayShrinks
<1> QED BY <1>9, <1>10

LEMMA FollowsIn ==
    ASSUME NEW q, NEW m, NEW n, Follows(q, m, n)
    PROVE  m \in ToSet(q) /\ n \in ToSet(q)
BY DEF Follows, ToSet

\* The bytes of the reader's package come one after the other, after those before the package.
LEMMA PackageIs ==
    ASSUME UartRxAssumption, UartInv, ~overrun
    PROVE  /\ Consecutive(reader.data)
           /\ \A b \in ToSet(reader.data) : b \in Int /\ Passed < b /\ b <= Taken
           /\ Taken \in Int /\ Passed \in Int /\ Passed <= Taken
<1>1. reader.data \in Seq(1 .. MaxBytes) /\ Len(reader.data) \in Nat
  BY DEF UartInv, UartTypes, ReaderSet
<1>2. Taken \in Int
  BY UsedIs DEF UartInv, Taken
<1>3. Passed \in Int /\ Passed <= Taken /\ Taken = Passed + Len(reader.data)
  BY <1>1, <1>2 DEF Passed
<1>4. \A i \in 1 .. Len(reader.data) : reader.data[i] = Passed + i
  BY DEF UartInv, RingInv, Passed
<1>5. ASSUME NEW i \in 1 .. Len(reader.data) - 1 PROVE reader.data[i + 1] = reader.data[i] + 1
  <2>1. i \in 1 .. Len(reader.data) /\ i + 1 \in 1 .. Len(reader.data)
    BY <1>1
  <2>2. reader.data[i] = Passed + i /\ reader.data[i + 1] = Passed + (i + 1)
    BY <1>4, <2>1
  <2> QED BY <1>3, <2>2
<1>6. ASSUME NEW b \in ToSet(reader.data) PROVE b \in Int /\ Passed < b /\ b <= Taken
  <2>1. PICK i \in 1 .. Len(reader.data) : reader.data[i] = b
    BY <1>1, BytesAre
  <2>2. b = Passed + i
    BY <1>4, <2>1
  <2> QED BY <1>1, <1>3, <2>2
<1> QED BY <1>2, <1>3, <1>5, <1>6 DEF Consecutive

\* A package becomes a message that nobody has, with bytes nobody has been sent.
LEMMA ForwardOrder ==
    ASSUME SppAssumption, UartRxAssumption, BridgeInv, OrderInv, Forward, ~raced, ~overrun
    PROVE  OrderInv'
<1>1. /\ thread \in [Threads -> ThreadRecords] /\ data \in [Messages -> Seq(1 .. MaxBytes)]
      /\ lastSent \in [Clients -> 0 .. MaxBytes] /\ UartInv /\ Counted
  BY DEF BridgeInv, MsgsInv, HeapInv, IInv, TypeInv, DataTypes
<1>2. PICK m \in Messages : Allocate(m) /\ data' = [data EXCEPT ![m] = reader.data]
  BY DEF Forward
<1>3. Passed' = Taken
  <2>1. UNCHANGED <<head, written>> /\ reader'.data = << >>
    BY DEF Forward, Deliver, Calling
  <2>2. Taken' = Taken /\ Len(reader'.data) = 0
    BY <2>1 DEF Taken, Behind, Position
  <2>3. Taken \in Int
    BY <1>1, PackageIs
  <2> QED BY <2>2, <2>3 DEF Passed
<1>4. /\ Consecutive(reader.data)
      /\ \A b \in ToSet(reader.data) : b \in Int /\ Passed < b /\ b <= Passed'
      /\ Passed' \in Int /\ Passed \in Int /\ Passed <= Passed'
  BY <1>1, <1>3, PackageIs
<1>5. /\ UNCHANGED <<queue, lastSent>> /\ thread'[Uart].msg = {m} /\ \A c \in Clients : thread'[c] = thread[c]
      /\ m \notin heap
  <2>1. /\ thread' = [thread EXCEPT ![Uart].step = "count", ![Uart].msg = {m}]
        /\ UNCHANGED queue /\ m \notin heap
    BY <1>2, Zenon DEF Allocate
  <2>2. UNCHANGED lastSent
    BY DEF Forward
  <2> QED BY <1>1, <2>1, <2>2, ThreadsAre DEF ThreadRecords
<1>6. \A c \in Clients : Held(c)' = Held(c) /\ m \notin Held(c) /\ ~Holding(c, m)
  BY <1>1, <1>5, ThreadsAre DEF Counted, MsgInv, InUse, Held, Holding
<1>7. \A c \in Clients, n \in Messages : (Holding(c, n)' <=> Holding(c, n)) /\ (Unpushed(c, n)' => n = m)
  BY <1>5 DEF Holding, Has, Unpushed
<1>8. Bytes(m)' = ToSet(reader.data) /\ data'[m] = reader.data
  BY <1>1, <1>2 DEF Bytes
<1>9. \A n \in Messages \ {m} : Bytes(n)' = Bytes(n) /\ data'[n] = data[n]
  BY <1>1, <1>2 DEF Bytes
<1>10. \A n \in Messages : \A b \in Bytes(n) : b \in Int /\ b <= Passed
  <2>1. \A n \in Messages : Bytes(n) \subseteq 1 .. MaxBytes
    BY <1>1, BytesAre DEF Bytes
  <2>2. \A b \in 1 .. MaxBytes : b \in Int
    BY DEF UartRxAssumption
  <2> QED BY <2>1, <2>2 DEF OrderInv
<1>11. \A n \in Messages \ {m} : \A b \in Bytes(n)' : b <= Passed'
  <2>1. \A b \in Int : b <= Passed => b <= Passed'
    BY <1>4
  <2> QED BY <1>9, <1>10, <2>1
<1>12. ASSUME NEW n \in Messages PROVE Consecutive(data'[n]) /\ \A b \in Bytes(n)' : b <= Passed'
  <2>1. CASE n = m
    BY <1>4, <1>8, <2>1
  <2>2. CASE n # m
    BY <1>9, <1>11, <2>2 DEF OrderInv
  <2> QED BY <2>1, <2>2
<1>13. ASSUME NEW c \in Clients PROVE Ordered(c)'
  <2>1. Ordered(c) /\ lastSent'[c] = lastSent[c] /\ lastSent[c] \in Int
    BY <1>1, <1>5 DEF OrderInv, UartRxAssumption
  <2>2. lastSent[c] <= Passed /\ lastSent'[c] <= Passed'
    BY <1>4, <2>1 DEF Ordered
  <2>3. ASSUME NEW n \in Messages, Coming(c, n)', NEW b \in Bytes(n)' PROVE lastSent'[c] < b
    <3>1. CASE n = m
      <4>1. b \in Int /\ Passed < b
        BY <1>4, <1>8, <2>3, <3>1
      <4> QED BY <1>4, <2>1, <2>2, <4>1
    <3>2. CASE n # m
      <4>1. Coming(c, n)
        BY <1>6, <1>7, <2>3, <3>2 DEF Coming
      <4> QED BY <1>9, <2>1, <2>3, <3>2, <4>1 DEF Ordered
    <3> QED BY <3>1, <3>2
  <2>4. ASSUME NEW x \in Messages, NEW n \in Messages, Before(c, x, n)', NEW a \in Bytes(x)', NEW b \in Bytes(n)'
        PROVE  a < b
    <3>1. CASE Unpushed(c, n)'
      <4>1. n = m
        BY <1>7, <3>1
      <4>2. x \in Held(c) \/ Holding(c, x)
        <5>1. Follows(queue[c], x, n) => x \in Held(c)
          BY FollowsIn DEF Held
        <5> QED BY <1>5, <1>6, <1>7, <2>4, <5>1 DEF Before
      <4>3. x # m
        BY <1>6, <4>2
      <4>4. a \in Int /\ a <= Passed
        BY <1>9, <1>10, <2>4, <4>3
      <4>5. b \in Int /\ Passed < b
        BY <1>4, <1>8, <2>4, <4>1
      <4> QED BY <1>4, <4>4, <4>5
    <3>2. CASE ~Unpushed(c, n)'
      <4>1. Before(c, x, n) /\ n \in Held(c) /\ (x \in Held(c) \/ Holding(c, x))
        <5>1. Follows(queue[c], x, n) => x \in Held(c) /\ n \in Held(c)
          BY FollowsIn DEF Held
        <5> QED BY <1>5, <1>6, <1>7, <2>4, <3>2, <5>1 DEF Before
      <4>2. n # m /\ x # m
        BY <1>6, <4>1
      <4> QED BY <1>9, <2>1, <2>4, <4>1, <4>2 DEF Ordered
    <3> QED BY <3>1, <3>2
  <2> QED BY <2>2, <2>3, <2>4 DEF Ordered
<1> QED BY <1>12, <1>13 DEF OrderInv, Consecutive

\* What is written comes before everything else that is on its way to this client.
LEMMA SendOrder ==
    ASSUME SppAssumption, UartRxAssumption, BridgeInv, OrderInv, NEW c \in Clients, Send(c), ~raced, ~overrun
    PROVE  OrderInv'
<1>1. /\ thread \in [Threads -> ThreadRecords] /\ data \in [Messages -> Seq(1 .. MaxBytes)]
      /\ lastSent \in [Clients -> 0 .. MaxBytes] /\ UartInv /\ c \in Threads
  BY ThreadsAre DEF BridgeInv, MsgsInv, IInv, TypeInv, DataTypes
<1>2. PICK m \in thread[c].msg : lastSent' = [lastSent EXCEPT ![c] = IF data[m] = << >> THEN lastSent[c] ELSE Last(data[m])]
  BY DEF Send
<1>3. m \in Messages /\ Holding(c, m)
  <2>1. thread[c].step = "holding" /\ \E n \in Messages : Has(c, n)
    BY <1>1, InHand DEF Send, Write, MessageSteps, BridgeInv, MsgsInv
  <2> QED BY <2>1 DEF Holding, Has
<1>4. Moves(c) /\ UNCHANGED <<queue, table, data>> /\ thread'[c].step = "free"
  BY <1>1 DEF Send, Write, Goto, Moves, ThreadRecords
<1>5. WayShrinks
  BY <1>4, ClientWay
<1>6. Passed' = Passed /\ Passed \in Int
  <2>1. Passed' = Passed
    BY DEF Send, uartVars, Passed, Taken, Behind, Position
  <2> QED BY <1>1, <2>1, PackageIs
<1>7. CASE data[m] = << >>
  <2>1. lastSent' = lastSent
    BY <1>1, <1>2, <1>7
  <2>2. Passed' \in Int /\ Passed <= Passed' /\ DataTypes
    BY <1>6 DEF BridgeInv
  <2> QED BY <1>4, <1>5, <1>6, <2>1, <2>2, OrderFrame
<1>8. CASE data[m] # << >>
  <2>1. lastSent'[c] = Last(data[m]) /\ \A o \in Clients \ {c} : lastSent'[o] = lastSent[o]
    BY <1>1, <1>2, <1>8
  <2>2. Last(data[m]) \in Bytes(m)
    BY <1>1, <1>3, <1>8, LastIs, BytesAre DEF Bytes
  <2>3. \A n \in Messages : Bytes(n)' = Bytes(n)
    BY <1>4 DEF Bytes
  <2>4. \A o \in Clients : Ordered(o)
    BY DEF OrderInv
  <2>5. \A o \in Clients \ {c} : Ordered(o)'
    BY <1>5, <1>6, <2>1, <2>3, <2>4 DEF Ordered, WayShrinks
  <2>6. Ordered(c)'
    <3>1. lastSent'[c] <= Passed'
      BY <1>3, <1>6, <2>1, <2>2 DEF OrderInv
    <3>2. ASSUME NEW n \in Messages, Coming(c, n)' PROVE Before(c, m, n)
      <4>1. Held(c)' = Held(c) /\ thread'[Uart] = thread[Uart]
        BY <1>4, ThreadsAre DEF Held, Moves
      <4>2. Unpushed(c, n)' <=> Unpushed(c, n)
        BY <1>4, <4>1 DEF Unpushed, Has, Pushing
      <4>3. n \in Held(c) \/ Unpushed(c, n)
        BY <1>4, <3>2, <4>1, <4>2 DEF Coming, Holding
      <4> QED BY <1>3, <4>3 DEF Before
    <3>3. ASSUME NEW n \in Messages, Coming(c, n)', NEW b \in Bytes(n)' PROVE lastSent'[c] < b
      BY <1>3, <2>1, <2>2, <2>3, <2>4, <3>2, <3>3 DEF Ordered
    <3>4. \A x, n \in Messages : Before(c, x, n)' => \A a \in Bytes(x)', b \in Bytes(n)' : a < b
      BY <1>5, <2>3, <2>4 DEF Ordered, WayShrinks
    <3> QED BY <3>1, <3>3, <3>4 DEF Ordered
  <2>7. \A n \in Messages : Consecutive(data'[n]) /\ \A b \in Bytes(n)' : b <= Passed'
    BY <1>4, <1>6, <2>3 DEF OrderInv
  <2> QED BY <2>5, <2>6, <2>7 DEF OrderInv, Consecutive
<1> QED BY <1>7, <1>8

LEMMA OrderInit == UartRxAssumption /\ Init => OrderInv
<1> SUFFICES ASSUME UartRxAssumption, Init PROVE OrderInv
  OBVIOUS
<1>1. \A m \in Messages : data[m] = << >>
  BY DEF Init
<1>2. \A m \in Messages : Bytes(m) = {} /\ Consecutive(data[m])
  BY <1>1, NoBytes DEF Bytes
<1>3. Passed = 0 /\ \A c \in Clients : lastSent[c] = 0
  <2>1. written = 0 /\ head = 0 /\ reader.data = << >> /\ \A c \in Clients : lastSent[c] = 0
    BY DEF Init, UartInit, Calling
  <2>2. RingSize \in Nat \ {0} /\ 0 \in 0 .. RingSize - 1
    BY DEF UartRxAssumption
  <2>3. Position = 0
    BY <2>1, <2>2, ModuloBelow DEF Position
  <2>4. Taken = 0 /\ Len(reader.data) = 0
    BY <2>1, <2>3 DEF Taken, Behind
  <2>5. Passed = 0
    BY <2>4 DEF Passed
  <2> QED BY <2>1, <2>5
<1> QED BY <1>2, <1>3 DEF OrderInv, Ordered

\* The steps of the UART, the interrupt and the reader: bytes pass, and the messages stay.
LEMMA ReaderOrder ==
    ASSUME SppAssumption, UartRxAssumption, BridgeInv, OrderInv, [UartNext]_uartVars,
           UNCHANGED <<sppVars, bridgeVars>>, ~raced', ~overrun'
    PROVE  OrderInv'
<1>1. /\ ~overrun /\ Passed \in Int /\ Passed' \in Int /\ Passed <= Passed'
      /\ ~raced /\ UNCHANGED <<queue, table, thread, data, lastSent>> /\ DataTypes
  BY PassedGrows DEF BridgeInv, sppVars, bridgeVars
<1>2. \A c \in Clients, m \in Messages : (Holding(c, m)' => Holding(c, m)) /\ (Unpushed(c, m)' => Unpushed(c, m))
  BY <1>1 DEF Holding, Has, Unpushed, Pushing
<1>3. WayShrinks
  BY <1>1, <1>2, WayFrame
<1> QED BY <1>1, <1>3, OrderFrame

\* The steps of the threads among themselves: what is freed loses its bytes.
LEMMA ThreadsOrder ==
    ASSUME SppAssumption, UartRxAssumption, BridgeInv, OrderInv, UartStep \/ \E c \in Clients : ClientStep(c),
           DataFreed, UNCHANGED <<uartVars, lastSent>>, ~raced, ~overrun'
    PROVE  OrderInv'
<1>1. IInv /\ MessageTypes /\ DataTypes /\ UartInv
  BY DEF BridgeInv, MsgsInv
<1>2. WayShrinks
  BY <1>1, ThreadsAre, FreeStepWay, UartStepWay, PushWay, UnlockWay, ComeAndGoWay, PopWay DEF UartStep, ClientStep
<1>3. \A m \in Messages : data'[m] = data[m] \/ data'[m] = << >>
  BY DEF DataFreed
<1>4. ~overrun /\ Passed' = Passed
  BY DEF uartVars, Passed, Taken, Behind, Position
<1>5. Passed \in Int /\ Passed' \in Int /\ Passed <= Passed'
  BY <1>1, <1>4, PackageIs
<1> QED BY <1>1, <1>2, <1>3, <1>4, <1>5, OrderFrame

LEMMA OrderStep == SppAssumption /\ UartRxAssumption /\ BridgeInv /\ OrderInv /\ [Next]_vars => OrderInv'
<1> SUFFICES ASSUME SppAssumption, UartRxAssumption, BridgeInv, OrderInv, [Next]_vars, ~raced', ~overrun' PROVE OrderInv'
  BY DEF OrderInv
<1>1. CASE UNCHANGED vars
  <2>1. UNCHANGED uartVars /\ UNCHANGED <<sppVars, bridgeVars>>
    BY <1>1 DEF vars
  <2> QED BY <2>1, ReaderOrder
<1>2. CASE Receive /\ UNCHANGED <<sppVars, bridgeVars>>
  BY <1>2, ReaderOrder DEF UartNext
<1>3. CASE UartIrq /\ UNCHANGED <<sppVars, bridgeVars>>
  BY <1>3, ReaderOrder DEF UartNext
<1>4. CASE Read \/ Discard
  <2>1. UartNext /\ UNCHANGED <<sppVars, bridgeVars>>
    BY <1>4 DEF Read, Discard, UartNext
  <2> QED BY <2>1, ReaderOrder
<1>5. CASE Forward /\ ~raced
  <2>1. ~overrun
    BY <1>5 DEF Forward, Deliver
  <2> QED BY <1>5, <2>1, ForwardOrder
<1>6. CASE (UartStep \/ \E c \in Clients : ClientStep(c)) /\ ~raced /\ DataFreed /\ UNCHANGED <<uartVars, lastSent>>
  BY <1>6, ThreadsOrder
<1>7. CASE ~raced /\ \E c \in Clients : Send(c)
  <2>1. ~overrun
    BY <1>7 DEF Send, uartVars
  <2> QED BY <1>7, <2>1, SendOrder
<1> QED BY <1>1, <1>2, <1>3, <1>4, <1>5, <1>6, <1>7 DEF Next

\* In every behaviour, up to the first overrun of the ring and the first race on a count, what a client
\* writes to its socket are bytes of the UART in the order they arrived, none of them twice: across
\* packages, queues that were full, messages reused and connections made anew (uartRecv_thread,
\* sppUartCommandProcess, socket_msg_push and the loops of the clients' threads).
THEOREM SocketsInOrder == Spec => StreamInOrder
<1>1. ASSUME SppAssumption, UartRxAssumption, BridgeInv, OrderInv, [Next]_vars, NEW c \in Clients, lastSent'[c] # lastSent[c]
      PROVE  overrun \/ \E m \in thread[c].msg :
                           /\ data[m][1] > lastSent[c]
                           /\ \A i \in 1 .. Len(data[m]) - 1 : data[m][i + 1] = data[m][i] + 1
  <2>1. /\ data \in [Messages -> Seq(1 .. MaxBytes)] /\ lastSent \in [Clients -> 0 .. MaxBytes]
        /\ IInv /\ MessageTypes
    BY <1>1 DEF BridgeInv, MsgsInv, DataTypes
  <2>2. ~raced /\ \E d \in Clients : Send(d)
    BY <1>1 DEF Next, Read, Forward, Discard, vars, bridgeVars
  <2>3. PICK d \in Clients : Send(d)
    BY <2>2
  <2>4. PICK m \in thread[d].msg : lastSent' = [lastSent EXCEPT ![d] = IF data[m] = << >> THEN lastSent[d] ELSE Last(data[m])]
    BY <2>3 DEF Send
  <2>5. d = c /\ data[m] # << >>
    BY <1>1, <2>1, <2>4
  <2>6. m \in Messages /\ Holding(c, m)
    <3>1. thread[c].step = "holding" /\ c \in Threads /\ c # Uart
      BY <1>1, <2>3, <2>5, ThreadsAre DEF Send, Write
    <3>2. \E n \in Messages : Has(c, n)
      BY <2>1, <3>1, InHand DEF MessageSteps
    <3> QED BY <2>4, <2>5, <3>1, <3>2 DEF Holding, Has
  <2>7. CASE ~overrun
    <3>1. data[m] \in Seq(1 .. MaxBytes) /\ 1 \in 1 .. Len(data[m])
      BY <2>1, <2>5, <2>6
    <3>2. data[m][1] \in Bytes(m)
      BY <3>1, BytesAre DEF Bytes
    <3>3. lastSent[c] < data[m][1] /\ Consecutive(data[m])
      BY <1>1, <2>2, <2>6, <2>7, <3>2 DEF OrderInv, Ordered, Coming
    <3> QED BY <2>4, <2>5, <3>3 DEF Consecutive
  <2> QED BY <2>7
<1>2. SppAssumption /\ UartRxAssumption /\ BridgeInv /\ OrderInv /\ [Next]_vars =>
        [\A c \in Clients : lastSent'[c] # lastSent[c] =>
          overrun \/ \E m \in thread[c].msg :
                        /\ data[m][1] > lastSent[c]
                        /\ \A i \in 1 .. Len(data[m]) - 1 : data[m][i + 1] = data[m][i] + 1]_vars
  BY <1>1
<1> QED BY <1>2, BridgeInitInv, BridgeStepInv, OrderInit, OrderStep, SppAssumption, UartRxAssumption, PTL DEF Spec, StreamInOrder
=============================================================================
