------------------------------- MODULE FogQueue --------------------------------
(***************************************************************************)
(* MicoFogCloud.c: the cloud's thread pushes what it received into a queue *)
(* of pointers (MicoFogCloudCloudMsgProcess); a thread of the application  *)
(* pops a message, handles it and frees it (MiCOFogCloudMsgRecv and        *)
(* user_cloud_msg_handle_thread).  The queue has a mutex; the byte count   *)
(* total_recv_buf_len that the quota is tested against has none: += and -= *)
(* are a load and a store each.                                            *)
(*                                                                         *)
(* The service is up throughout: the exit path of fogcloud_main_thread,    *)
(* which destroys mutex and queue, is left out.                            *)
(***************************************************************************)
EXTENDS Integers, Sequences, FiniteSets, SequencesExt, FiniteSetsExt

CONSTANTS QueueLength,  \* FOGCLOUD_MAX_RECV_QUEUE_LENGTH
          TotalLength,  \* FOGCLOUD_TOTAL_BUF_LENGTH
          Sizes,        \* what real_msg_len may be
          CountSize,    \* 2^32: total_recv_buf_len wraps there
          MaxSent       \* bound on the messages taken in

ASSUME FogQueueAssumption ==
    /\ {QueueLength, TotalLength} \subseteq Nat \ {0}
    /\ Sizes \subseteq 1 .. TotalLength
    /\ {CountSize, MaxSent} \subseteq Nat
    /\ 2 * TotalLength < CountSize

VARIABLES total,      \* total_recv_buf_len
          queue,      \* msg_recv_queue
          heap,       \* messages that were allocated and not freed
          cloud,      \* the cloud's thread: its step, its message, what it loaded
          user,       \* the application's thread, likewise
          sent,       \* number of messages taken in so far: the last one's name
          accepted,   \* history: the messages pushed (kNoErr returned)
          handled,    \* history: the messages the application handled, in order
          raced       \* history: two changes of total have overlapped

vars == <<total, queue, heap, cloud, user, sent, accepted, handled, raced>>

Messages == [id : 1 .. MaxSent, size : Sizes]
Idle == [step |-> "idle", msg |-> {}, loaded |-> 0]  \* msg: the set of at most one message

Init ==
    /\ total = 0 /\ sent = 0
    /\ queue = << >> /\ handled = << >>
    /\ heap = {} /\ accepted = {}
    /\ cloud = Idle /\ user = Idle
    /\ raced = FALSE

\* real_msg_len of these messages together: a byte is a message and a position in it.
Bytes(messages) == Cardinality({b \in messages \X (1 .. TotalLength) : b[2] <= b[1].size})
IsFull == Len(queue) = QueueLength
-----------------------------------------------------------------------------
(* MicoFogCloudCloudMsgProcess *)

\* Mutant: the quota is tested before the new message is counted.
AllocateWhileBelow ==
    /\ cloud = Idle /\ sent < MaxSent
    /\ sent' = sent + 1
    /\ \E n \in Sizes :
          /\ total <= TotalLength
          /\ LET m == [id |-> sent', size |-> n] IN
             /\ heap' = heap \cup {m}
             /\ cloud' = [step |-> "load", msg |-> {m}, loaded |-> 0]
    /\ UNCHANGED <<total, queue, user, accepted, handled, raced>>

\* Over the quota (the sum is 32 bits wide too), or when malloc fails, kNoMemoryErr is
\* returned and nothing changes.
Allocate ==
    /\ cloud = Idle /\ sent < MaxSent
    /\ sent' = sent + 1
    /\ \E n \in Sizes :
          /\ (total + n) % CountSize <= TotalLength
          /\ LET m == [id |-> sent', size |-> n] IN
             /\ heap' = heap \cup {m}
             /\ cloud' = [step |-> "load", msg |-> {m}, loaded |-> 0]
    /\ UNCHANGED <<total, queue, user, accepted, handled, raced>>

CountLoad ==
    /\ cloud.step = "load"
    /\ cloud' = [cloud EXCEPT !.step = "store", !.loaded = total]
    /\ raced' = (raced \/ user.step = "store")
    /\ UNCHANGED <<total, queue, heap, user, sent, accepted, handled>>

CountStore ==
    /\ cloud.step = "store"
    /\ total' = (cloud.loaded + Bytes(cloud.msg)) % CountSize
    /\ cloud' = [cloud EXCEPT !.step = "push", !.loaded = 0]
    /\ UNCHANGED <<queue, heap, user, sent, accepted, handled, raced>>

\* Mutant: a message that was pushed out is not freed.
PushUnfreed ==
    /\ cloud.step = "push"
    /\ LET m == CHOOSE x \in cloud.msg : TRUE IN
       /\ queue' = Append(IF IsFull THEN Tail(queue) ELSE queue, m)
       /\ accepted' = accepted \cup {m}
    /\ cloud' = Idle
    /\ UNCHANGED <<total, heap, user, sent, handled, raced>>

\* Mutant: the newest message makes room.
PushOverNewest ==
    /\ cloud.step = "push"
    /\ LET m == CHOOSE x \in cloud.msg : TRUE IN
       /\ queue' = Append(IF IsFull THEN Front(queue) ELSE queue, m)
       /\ heap' = heap \ (IF IsFull THEN {Last(queue)} ELSE {})
       /\ accepted' = accepted \cup {m}
    /\ cloud' = Idle
    /\ UNCHANGED <<total, user, sent, handled, raced>>

\* The part under msg_recv_queue_mutex: a full queue's oldest message is freed, and its bytes
\* stay counted.
Push ==
    /\ cloud.step = "push"
    /\ LET m == CHOOSE x \in cloud.msg : TRUE IN
       /\ queue' = Append(IF IsFull THEN Tail(queue) ELSE queue, m)
       /\ heap' = heap \ (IF IsFull THEN {Head(queue)} ELSE {})
       /\ accepted' = accepted \cup {m}
    /\ cloud' = Idle
    /\ UNCHANGED <<total, user, sent, handled, raced>>
-----------------------------------------------------------------------------
(* MiCOFogCloudMsgRecv and its caller *)

\* Under the mutex.  An empty queue is kUnderrunErr, and the thread polls again.
Pop ==
    /\ user = Idle /\ queue # << >>
    /\ user' = [step |-> "load", msg |-> {Head(queue)}, loaded |-> 0]
    /\ queue' = Tail(queue)
    /\ UNCHANGED <<total, heap, cloud, sent, accepted, handled, raced>>

DiscountLoad ==
    /\ user.step = "load"
    /\ user' = [user EXCEPT !.step = "store", !.loaded = total]
    /\ raced' = (raced \/ cloud.step = "store")
    /\ UNCHANGED <<total, queue, heap, cloud, sent, accepted, handled>>

\* Mutant: the count is a signed number.
DiscountSigned ==
    /\ user.step = "store"
    /\ total' = user.loaded - (Bytes(user.msg) - 1)
    /\ user' = [user EXCEPT !.step = "handle", !.loaded = 0]
    /\ UNCHANGED <<queue, heap, cloud, sent, accepted, handled, raced>>

\* One byte less than what was added: sizeof(fogcloud_msg_t) - 1.
DiscountStore ==
    /\ user.step = "store"
    /\ total' = (user.loaded - (Bytes(user.msg) - 1)) % CountSize
    /\ user' = [user EXCEPT !.step = "handle", !.loaded = 0]
    /\ UNCHANGED <<queue, heap, cloud, sent, accepted, handled, raced>>

Handle ==
    /\ user.step = "handle"
    /\ handled' = handled \o SetToSeq(user.msg)
    /\ heap' = heap \ user.msg
    /\ user' = Idle
    /\ UNCHANGED <<total, queue, cloud, sent, accepted, raced>>

CloudStep == CountLoad \/ CountStore \/ Push
UserStep == Pop \/ DiscountLoad \/ DiscountStore \/ Handle

Next == Allocate \/ CloudStep \/ UserStep

\* Both threads go on with what they have begun, and the application's polls for ever; the
\* cloud need not send.
Fairness == WF_vars(CloudStep) /\ WF_vars(UserStep)

Spec == Init /\ [][Next]_vars /\ Fairness
-----------------------------------------------------------------------------
(* Properties *)

FogTypeOK ==
    /\ total \in 0 .. CountSize - 1 /\ sent \in 0 .. MaxSent
    /\ {cloud.msg, user.msg, accepted, ToSet(queue), ToSet(handled)} \subseteq SUBSET Messages
    /\ cloud.step \in {"idle", "load", "store", "push"}
    /\ user.step \in {"idle", "load", "store", "handle"}

\* Messages whose bytes are rightly counted, those taken off the count again, and those that
\* made room for newer ones.
Counted == ToSet(queue) \cup (IF cloud.step = "push" THEN cloud.msg ELSE {})
                        \cup (IF user.step \in {"load", "store"} THEN user.msg ELSE {})
Discounted == ToSet(handled) \cup (IF user.step = "handle" THEN user.msg ELSE {})
PushedOut == accepted \ (Counted \cup Discounted)

\* What becomes of the quota: it bounds the memory of the messages that wait, and it shrinks for
\* good by every byte of a message pushed out and by one byte of every message handled
\* (MicoFogCloud.c:536 gives nothing back, 605 gives back sizeof - 1); nothing else is lost as
\* long as the two threads do not change the count at once (520 and 605 take no mutex).
QuotaAccount ==
    ~raced => /\ total = Bytes(Counted) + Bytes(PushedOut) + Cardinality(Discounted)
              /\ total <= TotalLength

\* Messages come out in the order they went in, and one that was accepted is lost only when
\* QueueLength newer ones were accepted after it.
NewestKept ==
    /\ \A i, j \in DOMAIN handled : i < j => handled[i].id < handled[j].id
    /\ \A m \in accepted \ (ToSet(queue) \cup user.msg \cup ToSet(handled)) :
          Cardinality({n \in accepted : n.id > m.id}) >= QueueLength

\* No path loses or frees twice the memory of a message: what is allocated is queued or in the
\* hands of one thread.
NothingLeaks ==
    /\ heap = ToSet(queue) \cup cloud.msg \cup user.msg
    /\ Cardinality(heap) = Len(queue) + Cardinality(cloud.msg) + Cardinality(user.msg)

\* Every accepted message is handled or pushed out.
AcceptedLeaves ==
    \A i \in 1 .. MaxSent :
        (\E m \in accepted : m.id = i) ~> (\A m \in heap : m.id # i)
=============================================================================
