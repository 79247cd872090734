---------------------------- MODULE FogQueueProofs -----------------------------
(***************************************************************************)
(* What the cloud's queue of messages keeps, and that it leaks nothing,    *)
(* for queues of any length, any quota and any number and size of          *)
(* messages.                                                               *)
(***************************************************************************)
EXTENDS FogQueue, FiniteSetTheorems, TLAPS

\* By the order in which the messages came in.
Before(S, T) == \A a \in S, b \in T : a.id < b.id
Ordered(s) == \A i, j \in DOMAIN s : i < j => s[i].id < s[j].id

\* The step and locals of a thread: it has one message, or rests.
IsLocal(local, steps) ==
    \/ local = Idle
    \/ /\ local = [step |-> local.step, msg |-> local.msg, loaded |-> local.loaded]
       /\ local.step \in steps
       /\ \E m \in Messages : local.msg = {m}

TypeInv ==
    /\ queue \in Seq(Messages) /\ Len(queue) <= QueueLength
    /\ handled \in Seq(Messages)
    /\ accepted \in SUBSET Messages /\ IsFiniteSet(accepted)
    /\ sent \in Nat
    /\ IsLocal(cloud, {"load", "store", "push"})
    /\ IsLocal(user, {"load", "store", "handle"})

\* What is handled, in the application's hands, queued and in the cloud's hands came in this order.
OrderInv ==
    /\ Ordered(handled) /\ Ordered(queue)
    /\ Before(ToSet(handled), user.msg \cup ToSet(queue))
    /\ Before(user.msg, ToSet(queue))
    /\ ToSet(handled) \cup user.msg \cup ToSet(queue) \subseteq accepted
    /\ Before(accepted, cloud.msg)
    /\ \A m \in accepted \cup cloud.msg : m.id <= sent

Newer(m) == {n \in accepted : n.id > m.id}

LostInv ==
    \A m \in accepted \ (ToSet(queue) \cup user.msg \cup ToSet(handled)) : Cardinality(Newer(m)) >= QueueLength

HeapInv == heap = ToSet(queue) \cup cloud.msg \cup user.msg

IInv == TypeInv /\ OrderInv /\ LostInv /\ HeapInv
-----------------------------------------------------------------------------
(* Sequences of messages *)

LEMMA MessageIds == ASSUME NEW m \in Messages PROVE m.id \in Nat
BY DEF Messages

LEMMA ToSetOfMessages == ASSUME NEW s \in Seq(Messages) PROVE ToSet(s) \in SUBSET Messages
BY DEF ToSet

LEMMA AppendMessage ==
    ASSUME NEW s \in Seq(Messages), NEW m \in Messages
    PROVE  /\ Append(s, m) \in Seq(Messages) /\ Len(Append(s, m)) = Len(s) + 1
           /\ ToSet(Append(s, m)) = ToSet(s) \cup {m}
           /\ Ordered(s) /\ Before(ToSet(s), {m}) => Ordered(Append(s, m))
<1>1. /\ Append(s, m) \in Seq(Messages)
      /\ Len(s) \in Nat /\ Len(Append(s, m)) = Len(s) + 1
      /\ DOMAIN s = 1 .. Len(s) /\ DOMAIN Append(s, m) = 1 .. Len(s) + 1
      /\ \A i \in 1 .. Len(s) : Append(s, m)[i] = s[i]
      /\ Append(s, m)[Len(s) + 1] = m
  OBVIOUS
<1>2. 1 .. Len(s) + 1 = (1 .. Len(s)) \cup {Len(s) + 1}
  BY <1>1
<1>3. ToSet(Append(s, m)) = ToSet(s) \cup {m}
  BY <1>1, <1>2 DEF ToSet
<1>4. ASSUME Ordered(s), Before(ToSet(s), {m}),
             NEW i \in 1 .. Len(s) + 1, NEW j \in 1 .. Len(s) + 1, i < j
      PROVE  Append(s, m)[i].id < Append(s, m)[j].id
  <2>1. i \in 1 .. Len(s) /\ Append(s, m)[i] = s[i]
    BY <1>1, <1>4
  <2>2. CASE j \in 1 .. Len(s)
    BY <1>1, <1>4, <2>1, <2>2 DEF Ordered
  <2>3. CASE j = Len(s) + 1
    BY <1>1, <1>4, <2>1, <2>3 DEF Before, ToSet
  <2> QED BY <1>2, <2>2, <2>3
<1> QED BY <1>1, <1>3, <1>4 DEF Ordered

LEMMA TailMessages ==
    ASSUME NEW s \in Seq(Messages), s # << >>, Ordered(s)
    PROVE  /\ Head(s) \in Messages
           /\ Tail(s) \in Seq(Messages) /\ Len(Tail(s)) = Len(s) - 1
           /\ ToSet(s) = {Head(s)} \cup ToSet(Tail(s))
           /\ Before({Head(s)}, ToSet(Tail(s)))
           /\ Ordered(Tail(s))
<1>1. /\ Head(s) = s[1] /\ s[1] \in Messages
      /\ Tail(s) \in Seq(Messages)
      /\ Len(s) \in Nat \ {0} /\ Len(Tail(s)) = Len(s) - 1
      /\ DOMAIN s = 1 .. Len(s) /\ DOMAIN Tail(s) = 1 .. Len(s) - 1
      /\ \A i \in 1 .. Len(s) - 1 : Tail(s)[i] = s[i + 1]
  OBVIOUS
<1>2. ToSet(s) = {Head(s)} \cup ToSet(Tail(s))
  <2>1. ASSUME NEW i \in 1 .. Len(s) PROVE s[i] \in {Head(s)} \cup ToSet(Tail(s))
    <3>1. CASE i = 1
      BY <1>1, <3>1
    <3>2. CASE i # 1
      <4>1. i - 1 \in 1 .. Len(s) - 1 /\ Tail(s)[i - 1] = s[i]
        BY <1>1, <3>2
      <4> QED BY <1>1, <4>1 DEF ToSet
    <3> QED BY <3>1, <3>2
  <2>2. ASSUME NEW i \in 1 .. Len(s) - 1 PROVE Tail(s)[i] \in ToSet(s)
    <3>1. i + 1 \in 1 .. Len(s) /\ Tail(s)[i] = s[i + 1]
      BY <1>1
    <3> QED BY <1>1, <3>1 DEF ToSet
  <2>3. Head(s) \in ToSet(s)
    BY <1>1 DEF ToSet
  <2> QED BY <1>1, <2>1, <2>2, <2>3 DEF ToSet
<1>3. ASSUME NEW i \in 1 .. Len(s) - 1 PROVE Head(s).id < Tail(s)[i].id
  <2>1. i + 1 \in 1 .. Len(s) /\ 1 \in 1 .. Len(s) /\ 1 < i + 1
    BY <1>1
  <2> QED BY <1>1, <2>1 DEF Ordered
<1>4. ASSUME NEW i \in 1 .. Len(s) - 1, NEW j \in 1 .. Len(s) - 1, i < j PROVE Tail(s)[i].id < Tail(s)[j].id
  <2>1. i + 1 \in 1 .. Len(s) /\ j + 1 \in 1 .. Len(s) /\ i + 1 < j + 1
    BY <1>1, <1>4
  <2> QED BY <1>1, <2>1 DEF Ordered
<1> QED BY <1>1, <1>2, <1>3, <1>4 DEF Before, Ordered, ToSet

\* An ordered sequence has no message twice.
LEMMA OrderedCardinality ==
    ASSUME NEW s \in Seq(Messages), Ordered(s)
    PROVE  IsFiniteSet(ToSet(s)) /\ Cardinality(ToSet(s)) = Len(s)
<1>1. Len(s) \in Nat /\ DOMAIN s = 1 .. Len(s) /\ s \in [1 .. Len(s) -> ToSet(s)]
  BY DEF ToSet
<1>2. ASSUME NEW i \in 1 .. Len(s), NEW j \in 1 .. Len(s), s[i] = s[j] PROVE i = j
  <2>1. s[i].id \in Nat /\ s[j].id \in Nat
    BY <1>1, MessageIds
  <2>2. ~ (i < j) /\ ~ (j < i)
    BY <1>1, <1>2, <2>1 DEF Ordered
  <2> QED BY <1>1, <2>2
<1>3. s \in Bijection(1 .. Len(s), ToSet(s))
  BY <1>1, <1>2 DEF Bijection, Injection, Surjection, IsInjective, ToSet
<1>4. IsFiniteSet(1 .. Len(s)) /\ Cardinality(1 .. Len(s)) = Len(s)
  BY <1>1, FS_Interval
<1> QED BY <1>3, <1>4, FS_Bijection DEF ExistsBijection

\* handled \o SetToSeq({m}) puts m at the end.
LEMMA SingletonToSeq == ASSUME NEW m PROVE SetToSeq({m}) = <<m>>
<1>1. Cardinality({m}) = 1
  BY FS_Singleton
<1>2. <<m>> \in [1 .. 1 -> {m}] /\ IsInjective(<<m>>)
  BY DEF IsInjective
<1>3. SetToSeq({m}) \in [1 .. 1 -> {m}]
  <2>1. SetToSeq({m}) = CHOOSE f \in [1 .. 1 -> {m}] : IsInjective(f)
    BY <1>1 DEF SetToSeq
  <2> QED BY <1>2, <2>1, Zenon
<1> QED BY <1>3
-----------------------------------------------------------------------------
(* Steps *)

LEMMA InitInv == FogQueueAssumption /\ Init => IInv
<1> SUFFICES ASSUME FogQueueAssumption, Init PROVE IInv
  OBVIOUS
<1>1. /\ queue = << >> /\ handled = << >> /\ accepted = {} /\ heap = {} /\ sent = 0
      /\ cloud = Idle /\ user = Idle
  BY DEF Init
<1>2. cloud.msg = {} /\ user.msg = {}
  BY <1>1 DEF Idle
<1>3. ToSet(queue) = {} /\ ToSet(handled) = {}
  BY <1>1 DEF ToSet
<1>4. TypeInv
  BY <1>1, FS_EmptySet DEF TypeInv, IsLocal, FogQueueAssumption
<1>5. OrderInv
  BY <1>1, <1>2, <1>3 DEF OrderInv, Ordered, Before
<1>6. LostInv /\ HeapInv
  BY <1>1, <1>2, <1>3 DEF LostInv, HeapInv
<1> QED BY <1>4, <1>5, <1>6 DEF IInv

LEMMA EditRecord ==
    ASSUME NEW S, NEW M, NEW L, NEW r \in [step : S, msg : M, loaded : L], NEW x \in S, NEW n \in L
    PROVE  LET e == [r EXCEPT !.step = x, !.loaded = n] IN
           /\ e \in [step : S, msg : M, loaded : L]
           /\ e.step = x /\ e.msg = r.msg
OBVIOUS

LEMMA EditLocal ==
    ASSUME NEW local, NEW steps, IsLocal(local, steps), local.step # "idle", NEW x \in steps, NEW n
    PROVE  /\ [local EXCEPT !.step = x, !.loaded = n].msg = local.msg
           /\ IsLocal([local EXCEPT !.step = x, !.loaded = n], steps)
<1> DEFINE e == [local EXCEPT !.step = x, !.loaded = n]
<1>1. local = [step |-> local.step, msg |-> local.msg, loaded |-> local.loaded] /\ local.step \in steps
  BY DEF IsLocal, Idle
<1>2. PICK m \in Messages : local.msg = {m}
  BY DEF IsLocal, Idle
<1>3. local \in [step : steps, msg : {{m}}, loaded : {local.loaded, n}] /\ n \in {local.loaded, n}
  BY <1>1, <1>2
<1>4. e \in [step : steps, msg : {{m}}, loaded : {local.loaded, n}] /\ e.step = x /\ e.msg = local.msg
  BY <1>3, EditRecord
<1> HIDE DEF e
<1>5. e = [step |-> e.step, msg |-> e.msg, loaded |-> e.loaded]
  BY <1>4
<1>6. IsLocal(e, steps)
  BY <1>2, <1>4, <1>5 DEF IsLocal
<1> QED BY <1>4, <1>6 DEF e

\* A step that only counts.
LEMMA CountingFrame ==
    ASSUME IInv, UNCHANGED <<queue, heap, handled, accepted, sent>>,
           cloud'.msg = cloud.msg, user'.msg = user.msg,
           IsLocal(cloud', {"load", "store", "push"}), IsLocal(user', {"load", "store", "handle"})
    PROVE  IInv'
<1>1. TypeInv'
  BY DEF IInv, TypeInv
<1>2. OrderInv'
  BY DEF IInv, OrderInv, Ordered, Before, ToSet
<1>3. LostInv'
  BY DEF IInv, LostInv, Newer, ToSet
<1>4. HeapInv'
  BY DEF IInv, HeapInv, ToSet
<1> QED BY <1>1, <1>2, <1>3, <1>4 DEF IInv

LEMMA AllocateStep == ASSUME FogQueueAssumption, IInv, Allocate PROVE IInv'
<1>1. PICK n \in Sizes : /\ heap' = heap \cup {[id |-> sent', size |-> n]}
                        /\ cloud' = [step |-> "load", msg |-> {[id |-> sent', size |-> n]}, loaded |-> 0]
  BY DEF Allocate
<1> DEFINE m == [id |-> sent + 1, size |-> n]
<1>2. /\ cloud.msg = {} /\ sent' = sent + 1
      /\ UNCHANGED <<queue, user, accepted, handled>>
  BY DEF Allocate, Idle
<1>3. m \in Messages /\ m.id = sent + 1 /\ sent \in Nat
  BY DEF Allocate, Messages, IInv, TypeInv, FogQueueAssumption
<1>4. cloud'.msg = {m} /\ IsLocal(cloud', {"load", "store", "push"})
  BY <1>1, <1>2, <1>3 DEF IsLocal
<1>5. TypeInv'
  BY <1>2, <1>3, <1>4 DEF IInv, TypeInv
<1>6. OrderInv'
  <2>1. ASSUME NEW a \in accepted PROVE a.id <= sent /\ a.id \in Nat
    BY MessageIds DEF IInv, TypeInv, OrderInv
  <2>2. Before(accepted', cloud'.msg) /\ \A a \in accepted' \cup cloud'.msg : a.id <= sent'
    BY <1>2, <1>3, <1>4, <2>1 DEF Before
  <2> QED BY <1>2, <2>2 DEF IInv, OrderInv
<1>7. LostInv' /\ HeapInv'
  BY <1>1, <1>2, <1>4 DEF IInv, LostInv, Newer, HeapInv
<1> QED BY <1>5, <1>6, <1>7 DEF IInv

\* The oldest message makes room: QueueLength - 1 that are newer are queued behind it, and the new one.
LEMMA PushStep == ASSUME FogQueueAssumption, IInv, Push PROVE IInv'
<1> DEFINE kept == IF IsFull THEN Tail(queue) ELSE queue
<1> DEFINE out == IF IsFull THEN {Head(queue)} ELSE {}
<1>1. PICK m \in Messages : cloud.msg = {m}
  BY DEF Push, IInv, TypeInv, IsLocal, Idle
<1>2. (CHOOSE x \in cloud.msg : TRUE) = m
  BY <1>1
<1>3. /\ queue' = Append(kept, m) /\ heap' = heap \ out /\ accepted' = accepted \cup {m}
      /\ cloud' = Idle /\ UNCHANGED <<user, sent, handled>>
  BY <1>2 DEF Push
<1>4. /\ queue \in Seq(Messages) /\ Ordered(queue) /\ Len(queue) <= QueueLength
      /\ QueueLength \in Nat \ {0} /\ Before(accepted, {m}) /\ ToSet(queue) \subseteq accepted
  BY <1>1 DEF IInv, TypeInv, OrderInv, FogQueueAssumption
<1>5. /\ kept \in Seq(Messages) /\ Ordered(kept) /\ Len(kept) < QueueLength
      /\ ToSet(queue) = out \cup ToSet(kept)
      /\ Before(out, ToSet(kept)) /\ out \subseteq Messages
      /\ out # {} => Len(kept) = QueueLength - 1
  <2>1. CASE IsFull
    <3>1. queue # << >>
      BY <1>4, <2>1 DEF IsFull
    <3> QED BY <1>4, <2>1, <3>1, TailMessages DEF IsFull
  <2>2. CASE ~IsFull
    BY <1>4, <2>2 DEF IsFull, Before
  <2> QED BY <2>1, <2>2
<1> HIDE DEF kept, out
<1>6. /\ queue' \in Seq(Messages) /\ Len(queue') = Len(kept) + 1
      /\ ToSet(queue') = ToSet(kept) \cup {m} /\ Ordered(queue')
  <2>1. Before(ToSet(kept), {m})
    BY <1>4, <1>5 DEF Before
  <2> QED BY <1>3, <1>5, <2>1, AppendMessage
<1>7. cloud'.msg = {} /\ IsLocal(cloud', {"load", "store", "push"})
  BY <1>3 DEF Idle, IsLocal
<1>8. IsFiniteSet(accepted') /\ IsFiniteSet(accepted)
  BY <1>3, FS_AddElement DEF IInv, TypeInv
<1>9. TypeInv'
  <2>1. Len(queue') <= QueueLength
    BY <1>4, <1>5, <1>6
  <2> QED BY <1>3, <1>6, <1>7, <1>8, <2>1 DEF IInv, TypeInv
<1>10. OrderInv'
  <2>1. /\ Before(ToSet(handled), user.msg \cup ToSet(queue))
        /\ Before(user.msg, ToSet(queue))
        /\ ToSet(handled) \cup user.msg \subseteq accepted
    BY DEF IInv, OrderInv
  <2>2. /\ Before(ToSet(handled), user.msg \cup ToSet(queue'))
        /\ Before(user.msg, ToSet(queue'))
    BY <1>4, <1>5, <1>6, <2>1 DEF Before
  <2>3. Before(accepted', cloud'.msg) /\ \A a \in accepted' \cup cloud'.msg : a.id <= sent'
    BY <1>1, <1>3, <1>7 DEF IInv, OrderInv, Before
  <2> QED BY <1>3, <1>4, <1>5, <1>6, <2>1, <2>2, <2>3 DEF IInv, OrderInv
<1>11. LostInv'
  <2>1. ASSUME NEW a \in Messages PROVE IsFiniteSet(Newer(a)') /\ IsFiniteSet(Newer(a))
                                        /\ Newer(a) \subseteq Newer(a)'
    <3>1. Newer(a)' \in SUBSET accepted' /\ Newer(a) \in SUBSET accepted
      BY DEF Newer
    <3> QED BY <1>3, <1>8, <3>1, FS_Subset DEF Newer
  <2>2. ASSUME NEW a \in accepted' \ (ToSet(queue') \cup user.msg \cup ToSet(handled))
        PROVE  Cardinality(Newer(a)') >= QueueLength
    <3>1. a \in accepted /\ a \in Messages
      BY <1>3, <1>6, <2>2 DEF IInv, TypeInv
    <3>2. CASE a \in out
      <4>1. ToSet(queue') \in SUBSET Newer(a)'
        <5>1. ASSUME NEW b \in ToSet(queue') PROVE b \in accepted' /\ b.id > a.id
          BY <1>3, <1>4, <1>5, <1>6, <3>1, <3>2, MessageIds DEF Before
        <5> QED BY <5>1 DEF Newer
      <4>2. Cardinality(ToSet(queue')) = QueueLength
        <5>1. Len(queue') = QueueLength
          BY <1>4, <1>5, <1>6, <3>2
        <5> QED BY <1>6, <5>1, OrderedCardinality
      <4>3. Cardinality(ToSet(queue')) <= Cardinality(Newer(a)')
        BY <2>1, <3>1, <4>1, FS_Subset
      <4>4. Cardinality(Newer(a)') \in Nat
        BY <2>1, <3>1, FS_CardinalityType
      <4> QED BY <1>4, <4>2, <4>3, <4>4
    <3>3. CASE a \notin out
      <4>1. a \notin ToSet(queue) \cup user.msg \cup ToSet(handled)
        BY <1>5, <1>6, <2>2, <3>3
      <4>2. Cardinality(Newer(a)) >= QueueLength
        BY <3>1, <4>1 DEF IInv, LostInv
      <4>3. /\ Cardinality(Newer(a)) <= Cardinality(Newer(a)')
            /\ Cardinality(Newer(a)) \in Nat /\ Cardinality(Newer(a)') \in Nat
        BY <2>1, <3>1, FS_Subset, FS_CardinalityType
      <4> QED BY <1>4, <4>2, <4>3
    <3> QED BY <3>2, <3>3
  <2> QED BY <1>3, <2>2 DEF LostInv
<1>12. HeapInv'
  <2>1. heap = ToSet(queue) \cup {m} \cup user.msg
    BY <1>1 DEF IInv, HeapInv
  <2>2. out \cap (ToSet(kept) \cup {m} \cup user.msg) = {}
    <3>1. ASSUME NEW a \in out PROVE a \notin ToSet(kept) \cup {m} \cup user.msg
      <4>1. a.id \in Nat /\ a \in ToSet(queue) /\ a \in accepted
        BY <1>4, <1>5, MessageIds
      <4>2. \A b \in ToSet(kept) \cup {m} : a.id < b.id
        BY <1>4, <1>5, <4>1 DEF Before
      <4>3. \A b \in user.msg : b.id < a.id
        BY <4>1 DEF IInv, OrderInv, Before
      <4> QED BY <4>1, <4>2, <4>3
    <3> QED BY <3>1
  <2> QED BY <1>3, <1>5, <1>6, <1>7, <2>1, <2>2 DEF HeapInv
<1> QED BY <1>9, <1>10, <1>11, <1>12 DEF IInv

LEMMA PopStep == ASSUME FogQueueAssumption, IInv, Pop PROVE IInv'
<1> DEFINE m == Head(queue)
<1>1. /\ user.msg = {} /\ queue # << >> /\ queue' = Tail(queue)
      /\ user' = [step |-> "load", msg |-> {m}, loaded |-> 0]
      /\ UNCHANGED <<heap, cloud, sent, accepted, handled>>
  BY DEF Pop, Idle
<1>2. /\ m \in Messages /\ Tail(queue) \in Seq(Messages) /\ Len(Tail(queue)) = Len(queue) - 1
      /\ ToSet(queue) = {m} \cup ToSet(Tail(queue))
      /\ Before({m}, ToSet(Tail(queue))) /\ Ordered(Tail(queue))
  BY <1>1, TailMessages DEF IInv, TypeInv, OrderInv
<1>3. user'.msg = {m} /\ IsLocal(user', {"load", "store", "handle"})
  BY <1>1, <1>2 DEF IsLocal
<1> HIDE DEF m
<1>4. TypeInv'
  <2>1. queue' \in Seq(Messages) /\ Len(queue') <= QueueLength
    BY <1>1, <1>2 DEF IInv, TypeInv, FogQueueAssumption
  <2> QED BY <1>1, <1>3, <2>1 DEF IInv, TypeInv
<1>5. ToSet(queue) \cup user.msg = ToSet(queue') \cup user'.msg
  BY <1>1, <1>2, <1>3
<1>6. OrderInv'
  <2>1. Before(user'.msg, ToSet(queue')) /\ Ordered(queue')
    BY <1>1, <1>2, <1>3
  <2>2. Before(ToSet(handled), user'.msg \cup ToSet(queue'))
    BY <1>5 DEF IInv, OrderInv, Before
  <2> QED BY <1>1, <1>5, <2>1, <2>2 DEF IInv, OrderInv
<1>7. LostInv' /\ HeapInv'
  BY <1>1, <1>5 DEF IInv, LostInv, Newer, HeapInv
<1> QED BY <1>4, <1>6, <1>7 DEF IInv

LEMMA HandleStep == ASSUME FogQueueAssumption, IInv, Handle PROVE IInv'
<1>1. PICK m \in Messages : user.msg = {m}
  BY DEF Handle, IInv, TypeInv, IsLocal, Idle
<1>2. /\ heap' = heap \ {m} /\ user' = Idle /\ UNCHANGED <<queue, cloud, sent, accepted>>
      /\ handled' = handled \o <<m>>
  BY <1>1, SingletonToSeq DEF Handle
<1>3. handled \in Seq(Messages) /\ Ordered(handled) /\ Before(ToSet(handled), {m})
  BY <1>1 DEF IInv, TypeInv, OrderInv, Before
<1>4. handled' = Append(handled, m)
  BY <1>2, <1>3
<1>5. /\ handled' \in Seq(Messages) /\ Ordered(handled')
      /\ ToSet(handled') = ToSet(handled) \cup {m}
  BY <1>3, <1>4, AppendMessage
<1>6. user'.msg = {} /\ IsLocal(user', {"load", "store", "handle"})
  BY <1>2 DEF Idle, IsLocal
<1>7. TypeInv'
  BY <1>2, <1>5, <1>6 DEF IInv, TypeInv
<1>8. OrderInv'
  <2>1. Before(ToSet(handled'), user'.msg \cup ToSet(queue')) /\ Before(user'.msg, ToSet(queue'))
    BY <1>1, <1>2, <1>5, <1>6 DEF IInv, OrderInv, Before
  <2> QED BY <1>1, <1>2, <1>5, <1>6, <2>1 DEF IInv, OrderInv
<1>9. LostInv'
  BY <1>1, <1>2, <1>5, <1>6 DEF IInv, LostInv, Newer
<1>10. HeapInv'
  <2>1. m \notin ToSet(queue) \cup cloud.msg
    <3>1. m.id \in Nat /\ m \in accepted
      BY <1>1, MessageIds DEF IInv, OrderInv
    <3>2. \A b \in ToSet(queue) \cup cloud.msg : m.id < b.id
      BY <1>1, <3>1 DEF IInv, OrderInv, Before
    <3> QED BY <3>1, <3>2
  <2> QED BY <1>1, <1>2, <1>6, <2>1 DEF IInv, HeapInv
<1> QED BY <1>7, <1>8, <1>9, <1>10 DEF IInv

LEMMA StepInv == FogQueueAssumption /\ IInv /\ [Next]_vars => IInv'
<1> SUFFICES ASSUME FogQueueAssumption, IInv, [Next]_vars PROVE IInv'
  OBVIOUS
<1>1. IsLocal(cloud, {"load", "store", "push"}) /\ IsLocal(user, {"load", "store", "handle"})
  BY DEF IInv, TypeInv
<1>2. CASE CountLoad
  <2>1. cloud'.msg = cloud.msg /\ IsLocal(cloud', {"load", "store", "push"})
    <3>1. /\ cloud' = [cloud EXCEPT !.step = "store", !.loaded = total]
          /\ cloud.step # "idle" /\ "store" \in {"load", "store", "push"}
      BY <1>2 DEF CountLoad
    <3> QED BY <1>1, <3>1, EditLocal, Zenon
  <2> QED BY <1>1, <1>2, <2>1, CountingFrame DEF CountLoad
<1>3. CASE CountStore
  <2>1. cloud'.msg = cloud.msg /\ IsLocal(cloud', {"load", "store", "push"})
    <3>1. /\ cloud' = [cloud EXCEPT !.step = "push", !.loaded = 0]
          /\ cloud.step # "idle" /\ "push" \in {"load", "store", "push"}
      BY <1>3 DEF CountStore
    <3> QED BY <1>1, <3>1, EditLocal, Zenon
  <2> QED BY <1>1, <1>3, <2>1, CountingFrame DEF CountStore
<1>4. CASE DiscountLoad
  <2>1. user'.msg = user.msg /\ IsLocal(user', {"load", "store", "handle"})
    <3>1. /\ user' = [user EXCEPT !.step = "store", !.loaded = total]
          /\ user.step # "idle" /\ "store" \in {"load", "store", "handle"}
      BY <1>4 DEF DiscountLoad
    <3> QED BY <1>1, <3>1, EditLocal, Zenon
  <2> QED BY <1>1, <1>4, <2>1, CountingFrame DEF DiscountLoad
<1>5. CASE DiscountStore
  <2>1. user'.msg = user.msg /\ IsLocal(user', {"load", "store", "handle"})
    <3>1. /\ user' = [user EXCEPT !.step = "handle", !.loaded = 0]
          /\ user.step # "idle" /\ "handle" \in {"load", "store", "handle"}
      BY <1>5 DEF DiscountStore
    <3> QED BY <1>1, <3>1, EditLocal, Zenon
  <2> QED BY <1>1, <1>5, <2>1, CountingFrame DEF DiscountStore
<1>6. CASE UNCHANGED vars
  BY <1>1, <1>6, CountingFrame DEF vars
<1> QED BY <1>2, <1>3, <1>4, <1>5, <1>6, AllocateStep, PushStep, PopStep, HandleStep
        DEF Next, CloudStep, UserStep
-----------------------------------------------------------------------------
(* The theorems *)

LEMMA Invariance == Spec => []IInv
BY InitInv, StepInv, FogQueueAssumption, PTL DEF Spec

\* In every behaviour the application handles messages in the order in which they came in, and one
\* that was accepted is missing only when QueueLength newer ones were accepted after it
\* (MicoFogCloudCloudMsgProcess and MiCOFogCloudMsgRecv, MicoFogCloud.c:500-620).
THEOREM OrderKept == Spec => []NewestKept
<1>1. IInv => NewestKept
  BY DEF IInv, OrderInv, LostInv, Ordered, Newer, NewestKept
<1> QED BY <1>1, Invariance, PTL

\* In every behaviour what is allocated is queued or in the hands of one thread, and is there once,
\* whatever races there are on the byte count.
THEOREM HeapIsHeld == Spec => []NothingLeaks
<1>1. IInv => NothingLeaks
  <2> SUFFICES ASSUME IInv PROVE NothingLeaks
    OBVIOUS
  <2>1. /\ IsFiniteSet(ToSet(queue)) /\ Cardinality(ToSet(queue)) = Len(queue)
        /\ Len(queue) \in Nat
    BY OrderedCardinality DEF IInv, TypeInv, OrderInv
  <2>2. Cardinality({}) = 0
    BY FS_EmptySet
  <2>3. ASSUME NEW local, NEW steps, IsLocal(local, steps), NEW S, IsFiniteSet(S), S \cap local.msg = {}
        PROVE  /\ IsFiniteSet(S \cup local.msg)
               /\ Cardinality(S \cup local.msg) = Cardinality(S) + Cardinality(local.msg)
    <3>1. CASE local.msg = {}
      <4>1. Cardinality(S) \in Nat
        BY <2>3, FS_CardinalityType
      <4> QED BY <2>2, <2>3, <3>1, <4>1
    <3>2. CASE local.msg # {}
      <4>1. PICK m \in Messages : local.msg = {m}
        BY <2>3, <3>2 DEF IsLocal, Idle
      <4>2. m \notin S /\ Cardinality({m}) = 1
        BY <2>3, <4>1, FS_Singleton
      <4> QED BY <2>3, <4>1, <4>2, FS_AddElement
    <3> QED BY <3>1, <3>2
  <2>4. ToSet(queue) \cap cloud.msg = {} /\ (ToSet(queue) \cup cloud.msg) \cap user.msg = {}
    <3>1. ASSUME NEW a \in accepted PROVE a.id \in Nat /\ a \notin cloud.msg
      <4>1. a.id \in Nat
        BY MessageIds DEF IInv, TypeInv
      <4>2. a \in cloud.msg => a.id < a.id
        BY DEF IInv, OrderInv, Before
      <4> QED BY <4>1, <4>2
    <3>2. ToSet(queue) \cap user.msg = {}
      <4>1. ASSUME NEW a \in ToSet(queue), a \in user.msg PROVE FALSE
        <5>1. a.id < a.id /\ a \in accepted
          BY <4>1 DEF IInv, OrderInv, Before
        <5> QED BY <3>1, <5>1
      <4> QED BY <4>1
    <3> QED BY <3>1, <3>2 DEF IInv, OrderInv
  <2>5. /\ IsFiniteSet(ToSet(queue) \cup cloud.msg)
        /\ Cardinality(ToSet(queue) \cup cloud.msg) = Len(queue) + Cardinality(cloud.msg)
    BY <2>1, <2>3, <2>4 DEF IInv, TypeInv
  <2>6. Cardinality(ToSet(queue) \cup cloud.msg \cup user.msg)
          = Len(queue) + Cardinality(cloud.msg) + Cardinality(user.msg)
    BY <2>3, <2>4, <2>5 DEF IInv, TypeInv
  <2> QED BY <2>6 DEF IInv, HeapInv, NothingLeaks
<1> QED BY <1>1, Invariance, PTL
-----------------------------------------------------------------------------
(* The count of bytes *)

AccountInv ==
    /\ total \in 0 .. CountSize - 1 /\ sent <= MaxSent
    /\ cloud.loaded \in 0 .. CountSize - 1 /\ user.loaded \in 0 .. CountSize - 1
    /\ ~raced => /\ QuotaAccount
                 /\ cloud.step \in {"load", "store"} => total + Bytes(cloud.msg) <= TotalLength
                 /\ cloud.step = "store" => cloud.loaded = total
                 /\ user.step = "store" => user.loaded = total
                 /\ ~ (cloud.step = "store" /\ user.step = "store")

ByteSet(S) == {b \in S \X (1 .. TotalLength) : b[2] <= b[1].size}

LEMMA BytesType ==
    ASSUME FogQueueAssumption, NEW S, IsFiniteSet(S)
    PROVE  IsFiniteSet(ByteSet(S)) /\ Bytes(S) = Cardinality(ByteSet(S)) /\ Bytes(S) \in Nat
<1>1. IsFiniteSet(1 .. TotalLength)
  BY FS_Interval DEF FogQueueAssumption
<1>2. IsFiniteSet(S \X (1 .. TotalLength))
  BY <1>1, FS_Product
<1>3. IsFiniteSet(ByteSet(S))
  BY <1>2, FS_Subset DEF ByteSet
<1> QED BY <1>3, FS_CardinalityType DEF Bytes, ByteSet

LEMMA BytesUnion ==
    ASSUME FogQueueAssumption, NEW S, NEW T, IsFiniteSet(S), IsFiniteSet(T), S \cap T = {}
    PROVE  Bytes(S \cup T) = Bytes(S) + Bytes(T)
<1>1. ByteSet(S \cup T) = ByteSet(S) \cup ByteSet(T) /\ ByteSet(S) \cap ByteSet(T) = {}
  BY DEF ByteSet
<1>2. /\ IsFiniteSet(ByteSet(S)) /\ IsFiniteSet(ByteSet(T)) /\ IsFiniteSet(S \cup T)
      /\ Bytes(S) = Cardinality(ByteSet(S)) /\ Bytes(T) = Cardinality(ByteSet(T))
      /\ Bytes(S) \in Nat /\ Bytes(T) \in Nat
  BY BytesType, FS_Union
<1>3. Bytes(S \cup T) = Cardinality(ByteSet(S \cup T))
  BY <1>2, BytesType
<1>4. Cardinality(ByteSet(S) \cup ByteSet(T)) = Cardinality(ByteSet(S)) + Cardinality(ByteSet(T)) - Cardinality({})
  BY <1>1, <1>2, FS_Union
<1>5. Cardinality({}) = 0
  BY FS_EmptySet
<1>6. Bytes(S \cup T) = Cardinality(ByteSet(S) \cup ByteSet(T))
  BY <1>1, <1>3
<1> QED BY <1>2, <1>4, <1>5, <1>6

LEMMA BytesOne ==
    ASSUME FogQueueAssumption, NEW m \in Messages
    PROVE  Bytes({m}) = m.size /\ m.size \in Nat \ {0} /\ Bytes({}) = 0
<1>1. m.size \in 1 .. TotalLength /\ TotalLength \in Nat
  BY DEF Messages, FogQueueAssumption
<1>2. ByteSet({m}) = {m} \X (1 .. m.size)
  BY <1>1 DEF ByteSet
<1>3. Cardinality({m} \X (1 .. m.size)) = 1 * m.size
  <2>1. IsFiniteSet(1 .. m.size) /\ Cardinality(1 .. m.size) = m.size
    <3>1. m.size \in Int /\ 1 \in Int /\ ~ (1 > m.size) /\ m.size - 1 + 1 = m.size
      BY <1>1
    <3> QED BY <3>1, FS_Interval
  <2>2. IsFiniteSet({m}) /\ Cardinality({m}) = 1
    BY FS_Singleton
  <2> QED BY <2>1, <2>2, FS_Product
<1>4. Bytes({m}) = Cardinality(ByteSet({m}))
  BY FS_Singleton, BytesType
<1>5. Bytes({}) = 0
  <2>1. ByteSet({}) = {}
    BY DEF ByteSet
  <2> QED BY <2>1, BytesType, FS_EmptySet
<1> QED BY <1>1, <1>2, <1>3, <1>4, <1>5

\* The hands a message can be in are distinct, and what the account sums up is finite.
Apart ==
    /\ ToSet(handled) \cap user.msg = {} /\ ToSet(handled) \cap ToSet(queue) = {}
    /\ user.msg \cap ToSet(queue) = {} /\ accepted \cap cloud.msg = {}
    /\ ToSet(handled) \cup user.msg \cup ToSet(queue) \subseteq accepted
    /\ accepted \in SUBSET Messages /\ IsFiniteSet(accepted) /\ IsFiniteSet(cloud.msg)
    /\ IsFiniteSet(Counted) /\ IsFiniteSet(Discounted) /\ IsFiniteSet(PushedOut)
    /\ Bytes(Counted) \in Nat /\ Bytes(PushedOut) \in Nat /\ Cardinality(Discounted) \in Nat

LEMMA ApartInv == FogQueueAssumption /\ IInv => Apart
<1> SUFFICES ASSUME FogQueueAssumption, IInv PROVE Apart
  OBVIOUS
<1>1. \A a \in accepted : a.id \in Nat
  BY MessageIds DEF IInv, TypeInv
<1>2. ASSUME NEW S, NEW T, S \subseteq accepted, Before(S, T) PROVE S \cap T = {}
  BY <1>1, <1>2 DEF Before
<1>3. /\ Before(ToSet(handled), user.msg \cup ToSet(queue)) /\ Before(user.msg, ToSet(queue))
      /\ Before(accepted, cloud.msg)
      /\ ToSet(handled) \cup user.msg \cup ToSet(queue) \subseteq accepted
  BY DEF IInv, OrderInv
<1>4. ToSet(handled) \cap (user.msg \cup ToSet(queue)) = {} /\ user.msg \cap ToSet(queue) = {} /\ accepted \cap cloud.msg = {}
  BY <1>2, <1>3
<1>5. IsFiniteSet(accepted) /\ IsFiniteSet(cloud.msg) /\ accepted \in SUBSET Messages
  <2>1. IsLocal(cloud, {"load", "store", "push"})
    BY DEF IInv, TypeInv
  <2>2. cloud = Idle => cloud.msg = {}
    BY DEF Idle
  <2>3. cloud.msg = {} \/ \E m \in Messages : cloud.msg = {m}
    BY <2>1, <2>2 DEF IsLocal
  <2>4. IsFiniteSet(cloud.msg)
    <3>1. \A m : IsFiniteSet({m})
      BY FS_Singleton
    <3> QED BY <2>3, <3>1, FS_EmptySet
  <2> QED BY <2>4 DEF IInv, TypeInv
<1>6. IsFiniteSet(accepted \cup cloud.msg)
  BY <1>5, FS_Union
<1>7. /\ Counted \in SUBSET (accepted \cup cloud.msg) /\ Discounted \in SUBSET (accepted \cup cloud.msg)
      /\ PushedOut \in SUBSET (accepted \cup cloud.msg)
  BY <1>3 DEF Counted, Discounted, PushedOut
<1>8. IsFiniteSet(Counted) /\ IsFiniteSet(Discounted) /\ IsFiniteSet(PushedOut)
  BY <1>6, <1>7, FS_Subset
<1>9. Bytes(Counted) \in Nat /\ Bytes(PushedOut) \in Nat /\ Cardinality(Discounted) \in Nat
  BY <1>8, BytesType, FS_CardinalityType
<1> QED BY <1>3, <1>4, <1>5, <1>8, <1>9 DEF Apart

\* What a step does to the account when it moves bytes between the three sums.
LEMMA AccountInit == FogQueueAssumption /\ Init => AccountInv
<1> SUFFICES ASSUME FogQueueAssumption, Init PROVE AccountInv
  OBVIOUS
<1>1. IInv
  BY InitInv
<1>2. /\ total = 0 /\ sent = 0 /\ cloud.step = "idle" /\ user.step = "idle"
      /\ cloud.loaded = 0 /\ user.loaded = 0 /\ MaxSent \in Nat
      /\ queue = << >> /\ handled = << >> /\ accepted = {}
  BY DEF Init, Idle, FogQueueAssumption
<1>3. ToSet(queue) = {} /\ ToSet(handled) = {}
  BY <1>2 DEF ToSet
<1>4. Counted = {} /\ Discounted = {} /\ PushedOut = {}
  BY <1>2, <1>3 DEF Counted, Discounted, PushedOut
<1>5. Bytes({}) = 0 /\ Cardinality({}) = 0
  <2>1. ByteSet({}) = {}
    BY DEF ByteSet
  <2> QED BY <2>1, BytesType, FS_EmptySet
<1>6. QuotaAccount
  BY <1>2, <1>4, <1>5 DEF QuotaAccount, FogQueueAssumption
<1> QED BY <1>2, <1>6 DEF AccountInv, FogQueueAssumption

\* A step that leaves the count alone and takes no message out of the sums, or moves one from those
\* that wait to those that were pushed out.
LEMMA AccountFrame ==
    ASSUME FogQueueAssumption, IInv, AccountInv, IInv', UNCHANGED total, raced => raced',
           sent' <= MaxSent,
           cloud'.loaded \in 0 .. CountSize - 1, user'.loaded \in 0 .. CountSize - 1,
           Counted' \cup PushedOut' = Counted \cup PushedOut, Discounted' = Discounted,
           ~raced' => /\ cloud'.step \in {"load", "store"} => total + Bytes(cloud'.msg) <= TotalLength
                      /\ cloud'.step = "store" => cloud'.loaded = total
                      /\ user'.step = "store" => user'.loaded = total
                      /\ ~ (cloud'.step = "store" /\ user'.step = "store")
    PROVE  AccountInv'
<1>1. Counted \cap PushedOut = {} /\ Counted' \cap PushedOut' = {}
  BY DEF PushedOut
<1>2. Apart /\ Apart'
  BY ApartInv, PTL
<1>3. Bytes(Counted) + Bytes(PushedOut) = Bytes(Counted') + Bytes(PushedOut')
  <2>1. Bytes(Counted \cup PushedOut) = Bytes(Counted) + Bytes(PushedOut)
    BY <1>1, <1>2, BytesUnion DEF Apart
  <2>2. Bytes(Counted' \cup PushedOut') = Bytes(Counted') + Bytes(PushedOut')
    BY <1>1, <1>2, BytesUnion DEF Apart
  <2> QED BY <2>1, <2>2
<1>4. QuotaAccount'
  BY <1>3 DEF QuotaAccount, AccountInv
<1> QED BY <1>4 DEF AccountInv

LEMMA AccountAllocate == ASSUME FogQueueAssumption, IInv, AccountInv, IInv', Allocate PROVE AccountInv'
<1>1. PICK n \in Sizes : /\ (total + n) % CountSize <= TotalLength
                        /\ cloud' = [step |-> "load", msg |-> {[id |-> sent', size |-> n]}, loaded |-> 0]
  BY DEF Allocate
<1> DEFINE m == [id |-> sent', size |-> n]
<1>2. /\ cloud.step = "idle" /\ sent' = sent + 1 /\ sent < MaxSent
      /\ UNCHANGED <<total, queue, user, accepted, handled, raced>>
  BY DEF Allocate, Idle
<1>3. m \in Messages /\ m.size = n /\ sent' <= MaxSent
  BY <1>2 DEF Messages, IInv, TypeInv, FogQueueAssumption
<1>4. cloud'.step = "load" /\ cloud'.msg = {m} /\ cloud'.loaded = 0 /\ 0 \in 0 .. CountSize - 1
  BY <1>1 DEF FogQueueAssumption
<1> HIDE DEF m
<1>5. Counted' = Counted /\ Discounted' = Discounted /\ PushedOut' = PushedOut
  BY <1>2, <1>4 DEF Counted, Discounted, PushedOut
<1>6. Bytes(cloud'.msg) = n
  BY <1>3, <1>4, BytesOne
<1>7. ~raced => total + n <= TotalLength
  <2>1. /\ n \in Nat /\ n <= TotalLength /\ TotalLength \in Nat /\ CountSize \in Nat
        /\ 2 * TotalLength < CountSize /\ total \in Nat
    BY DEF FogQueueAssumption, AccountInv
  <2>2. ~raced => total + n \in 0 .. CountSize - 1
    BY <2>1 DEF AccountInv, QuotaAccount
  <2>3. ~raced => (total + n) % CountSize = total + n
    BY <2>1, <2>2
  <2> QED BY <1>1, <2>3
<1> QED BY <1>2, <1>3, <1>4, <1>5, <1>6, <1>7, AccountFrame DEF AccountInv

LEMMA AccountCountLoad == ASSUME FogQueueAssumption, IInv, AccountInv, IInv', CountLoad PROVE AccountInv'
<1>1. /\ cloud.step = "load" /\ cloud' = [cloud EXCEPT !.step = "store", !.loaded = total]
      /\ raced' = (raced \/ user.step = "store")
      /\ UNCHANGED <<total, queue, user, sent, accepted, handled>>
      /\ IsLocal(cloud, {"load", "store", "push"}) /\ "store" \in {"load", "store", "push"}
  BY DEF CountLoad, IInv, TypeInv
<1>2. cloud'.msg = cloud.msg /\ cloud'.step = "store" /\ cloud'.loaded = total
  <2>1. cloud.step # "idle"
    BY <1>1
  <2>2. cloud'.msg = cloud.msg
    BY <1>1, <2>1, EditLocal, Zenon
  <2>3. cloud'.step = "store" /\ cloud'.loaded = total
    BY <1>1 DEF IsLocal, Idle
  <2> QED BY <2>2, <2>3
<1>3. Counted' = Counted /\ Discounted' = Discounted /\ PushedOut' = PushedOut
  BY <1>1, <1>2 DEF Counted, Discounted, PushedOut
<1> QED BY <1>1, <1>2, <1>3, AccountFrame DEF AccountInv

LEMMA AccountDiscountLoad == ASSUME FogQueueAssumption, IInv, AccountInv, IInv', DiscountLoad PROVE AccountInv'
<1>1. /\ user.step = "load" /\ user' = [user EXCEPT !.step = "store", !.loaded = total]
      /\ raced' = (raced \/ cloud.step = "store")
      /\ UNCHANGED <<total, queue, cloud, sent, accepted, handled>>
      /\ IsLocal(user, {"load", "store", "handle"}) /\ "store" \in {"load", "store", "handle"}
  BY DEF DiscountLoad, IInv, TypeInv
<1>2. user'.msg = user.msg /\ user'.step = "store" /\ user'.loaded = total
  <2>1. user.step # "idle"
    BY <1>1
  <2>2. user'.msg = user.msg
    BY <1>1, <2>1, EditLocal, Zenon
  <2>3. user'.step = "store" /\ user'.loaded = total
    BY <1>1 DEF IsLocal, Idle
  <2> QED BY <2>2, <2>3
<1>3. Counted' = Counted /\ Discounted' = Discounted /\ PushedOut' = PushedOut
  BY <1>1, <1>2 DEF Counted, Discounted, PushedOut
<1> QED BY <1>1, <1>2, <1>3, AccountFrame DEF AccountInv

LEMMA AccountPush == ASSUME FogQueueAssumption, IInv, AccountInv, IInv', Push PROVE AccountInv'
<1> DEFINE kept == IF IsFull THEN Tail(queue) ELSE queue
<1> DEFINE out == IF IsFull THEN {Head(queue)} ELSE {}
<1>1. PICK m \in Messages : cloud.msg = {m}
  BY DEF Push, IInv, TypeInv, IsLocal, Idle
<1>2. (CHOOSE x \in cloud.msg : TRUE) = m
  BY <1>1
<1>3. /\ cloud.step = "push" /\ queue' = Append(kept, m) /\ accepted' = accepted \cup {m}
      /\ cloud' = Idle /\ UNCHANGED <<total, user, sent, handled, raced>>
  BY <1>2 DEF Push
<1>4. queue \in Seq(Messages) /\ Ordered(queue) /\ QueueLength \in Nat \ {0}
  BY DEF IInv, TypeInv, OrderInv, FogQueueAssumption
<1>5. kept \in Seq(Messages) /\ ToSet(queue) = out \cup ToSet(kept)
  <2>1. CASE IsFull
    <3>1. queue # << >>
      BY <1>4, <2>1 DEF IsFull
    <3> QED BY <1>4, <2>1, <3>1, TailMessages
  <2>2. CASE ~IsFull
    BY <1>4, <2>2
  <2> QED BY <2>1, <2>2
<1> HIDE DEF kept, out
<1>6. ToSet(queue') = ToSet(kept) \cup {m}
  BY <1>3, <1>5, AppendMessage
<1>7. cloud'.step = "idle" /\ cloud'.loaded = 0 /\ 0 \in 0 .. CountSize - 1
  BY <1>3 DEF Idle, FogQueueAssumption
<1>8. Discounted' = Discounted
  BY <1>3 DEF Discounted
<1>9. /\ Counted = ToSet(queue) \cup {m} \cup (IF user.step \in {"load", "store"} THEN user.msg ELSE {})
      /\ Counted' = ToSet(queue') \cup (IF user.step \in {"load", "store"} THEN user.msg ELSE {})
  BY <1>1, <1>3, <1>7 DEF Counted
<1>10. Counted' \cup PushedOut' = Counted \cup PushedOut
  <2>1. Apart
    BY ApartInv
  <2>2. out \cap Discounted = {} /\ out \subseteq accepted /\ m \notin Discounted
    BY <1>1, <1>5, <2>1 DEF Apart, Discounted
  <2> QED BY <1>3, <1>5, <1>6, <1>8, <1>9, <2>2 DEF PushedOut
<1> QED BY <1>3, <1>7, <1>8, <1>10, AccountFrame DEF AccountInv

LEMMA AccountPop == ASSUME FogQueueAssumption, IInv, AccountInv, IInv', Pop PROVE AccountInv'
<1> DEFINE m == Head(queue)
<1>1. /\ user.step = "idle" /\ queue # << >> /\ queue' = Tail(queue)
      /\ user' = [step |-> "load", msg |-> {m}, loaded |-> 0]
      /\ UNCHANGED <<total, cloud, sent, accepted, handled, raced>>
  BY DEF Pop, Idle
<1>2. ToSet(queue) = {m} \cup ToSet(queue')
  BY <1>1, TailMessages DEF IInv, TypeInv, OrderInv
<1>3. user'.msg = {m} /\ user'.step = "load" /\ user'.loaded = 0 /\ 0 \in 0 .. CountSize - 1
  BY <1>1 DEF FogQueueAssumption
<1> HIDE DEF m
<1>4. Counted' = Counted /\ Discounted' = Discounted /\ PushedOut' = PushedOut
  BY <1>1, <1>2, <1>3 DEF Counted, Discounted, PushedOut
<1> QED BY <1>1, <1>3, <1>4, AccountFrame DEF AccountInv

LEMMA AccountHandle == ASSUME FogQueueAssumption, IInv, AccountInv, IInv', Handle PROVE AccountInv'
<1>1. PICK m \in Messages : user.msg = {m}
  BY DEF Handle, IInv, TypeInv, IsLocal, Idle
<1>2. /\ user.step = "handle" /\ user' = Idle /\ UNCHANGED <<total, queue, cloud, sent, accepted, raced>>
      /\ handled' = handled \o <<m>>
  BY <1>1, SingletonToSeq DEF Handle
<1>3. handled \in Seq(Messages) /\ handled' = Append(handled, m)
  BY <1>2 DEF IInv, TypeInv
<1>4. ToSet(handled') = ToSet(handled) \cup {m}
  BY <1>3, AppendMessage
<1>5. user'.step = "idle" /\ user'.loaded = 0 /\ 0 \in 0 .. CountSize - 1
  BY <1>2 DEF Idle, FogQueueAssumption
<1>6. Counted' = Counted /\ Discounted' = Discounted /\ PushedOut' = PushedOut
  BY <1>1, <1>2, <1>4, <1>5 DEF Counted, Discounted, PushedOut
<1> QED BY <1>2, <1>5, <1>6, AccountFrame DEF AccountInv

LEMMA Modulo ==
    ASSUME NEW n \in Nat \ {0}, NEW a \in Int
    PROVE  a % n \in 0 .. n - 1
OBVIOUS

LEMMA ModuloBelow == ASSUME NEW n \in Nat \ {0}, NEW a \in 0 .. n - 1 PROVE a % n = a
OBVIOUS

\* The message's bytes come in while its bytes were not yet summed, and still below the quota.
LEMMA AccountCountStore == ASSUME FogQueueAssumption, IInv, AccountInv, IInv', CountStore PROVE AccountInv'
<1>1. /\ cloud.step = "store" /\ cloud' = [cloud EXCEPT !.step = "push", !.loaded = 0]
      /\ total' = (cloud.loaded + Bytes(cloud.msg)) % CountSize
      /\ UNCHANGED <<queue, user, sent, accepted, handled, raced>>
      /\ IsLocal(cloud, {"load", "store", "push"}) /\ "push" \in {"load", "store", "push"}
  BY DEF CountStore, IInv, TypeInv
<1>2. cloud'.msg = cloud.msg /\ cloud'.step = "push" /\ cloud'.loaded = 0
  <2>1. cloud.step # "idle"
    BY <1>1
  <2>2. cloud'.msg = cloud.msg
    BY <1>1, <2>1, EditLocal, Zenon
  <2>3. cloud'.step = "push" /\ cloud'.loaded = 0
    BY <1>1 DEF IsLocal, Idle
  <2> QED BY <2>2, <2>3
<1>3. Apart /\ Apart'
  BY ApartInv, PTL
<1>4. Bytes(cloud.msg) \in Nat
  BY <1>3, BytesType DEF Apart
<1>5. /\ CountSize \in Nat \ {0} /\ TotalLength \in Nat /\ 2 * TotalLength < CountSize
      /\ 0 \in 0 .. CountSize - 1
  BY DEF FogQueueAssumption
<1>6. total' \in 0 .. CountSize - 1
  <2>1. cloud.loaded + Bytes(cloud.msg) \in Int
    BY <1>4 DEF AccountInv
  <2> QED BY <1>1, <1>5, <2>1, Modulo
<1>7. Counted' = Counted \cup cloud.msg /\ Discounted' = Discounted
  BY <1>1, <1>2 DEF Counted, Discounted
<1>8. cloud.msg \cap (Counted \cup Discounted \cup accepted) = {}
  BY <1>1, <1>3 DEF Apart, Counted, Discounted
<1>9. PushedOut' = PushedOut
  BY <1>1, <1>7, <1>8 DEF PushedOut
<1>10. Bytes(Counted') = Bytes(Counted) + Bytes(cloud.msg)
  BY <1>3, <1>7, <1>8, BytesUnion DEF Apart
<1>11. ASSUME ~raced PROVE total' = total + Bytes(cloud.msg) /\ total' <= TotalLength /\ user.step # "store"
  <2>1. cloud.loaded = total /\ total + Bytes(cloud.msg) <= TotalLength /\ user.step # "store" /\ total \in Nat
    BY <1>1, <1>11 DEF AccountInv
  <2>2. total + Bytes(cloud.msg) \in 0 .. CountSize - 1
    BY <1>4, <1>5, <2>1
  <2>3. (total + Bytes(cloud.msg)) % CountSize = total + Bytes(cloud.msg)
    BY <1>5, <2>2, ModuloBelow, Zenon
  <2> QED BY <1>1, <2>1, <2>3
<1>12. QuotaAccount'
  <2>1. ASSUME ~raced PROVE total = Bytes(Counted) + Bytes(PushedOut) + Cardinality(Discounted)
    BY <2>1 DEF AccountInv, QuotaAccount
  <2>2. ASSUME ~raced
        PROVE  total' = Bytes(Counted') + Bytes(PushedOut') + Cardinality(Discounted') /\ total' <= TotalLength
    BY <1>3, <1>4, <1>7, <1>9, <1>10, <1>11, <2>1, <2>2 DEF Apart
  <2> QED BY <1>1, <2>2 DEF QuotaAccount
<1> QED BY <1>1, <1>2, <1>5, <1>6, <1>11, <1>12 DEF AccountInv

\* The message is taken off the sums and one byte of it stays.
LEMMA AccountDiscountStore == ASSUME FogQueueAssumption, IInv, AccountInv, IInv', DiscountStore PROVE AccountInv'
<1>1. /\ user.step = "store" /\ user' = [user EXCEPT !.step = "handle", !.loaded = 0]
      /\ total' = (user.loaded - (Bytes(user.msg) - 1)) % CountSize
      /\ UNCHANGED <<queue, cloud, sent, accepted, handled, raced>>
      /\ IsLocal(user, {"load", "store", "handle"}) /\ "handle" \in {"load", "store", "handle"}
  BY DEF DiscountStore, IInv, TypeInv
<1>2. user'.msg = user.msg /\ user'.step = "handle" /\ user'.loaded = 0
  <2>1. user.step # "idle"
    BY <1>1
  <2>2. user'.msg = user.msg
    BY <1>1, <2>1, EditLocal, Zenon
  <2>3. user'.step = "handle" /\ user'.loaded = 0
    BY <1>1 DEF IsLocal, Idle
  <2> QED BY <2>2, <2>3
<1>3. Apart /\ Apart'
  BY ApartInv, PTL
<1>4. PICK m \in Messages : user.msg = {m}
  BY <1>1 DEF IsLocal, Idle
<1>5. Bytes(user.msg) = m.size /\ m.size \in Nat \ {0}
  BY <1>4, BytesOne
<1>6. /\ CountSize \in Nat \ {0} /\ TotalLength \in Nat /\ 2 * TotalLength < CountSize
      /\ 0 \in 0 .. CountSize - 1
  BY DEF FogQueueAssumption
<1>7. total' \in 0 .. CountSize - 1
  <2>1. user.loaded - (Bytes(user.msg) - 1) \in Int
    BY <1>5 DEF AccountInv
  <2> QED BY <1>1, <1>6, <2>1, Modulo
<1>8. /\ Discounted' = Discounted \cup {m} /\ m \notin Discounted
      /\ Counted = Counted' \cup {m} /\ m \notin Counted'
  BY <1>1, <1>2, <1>3, <1>4 DEF Apart, Counted, Discounted
<1>9. PushedOut' = PushedOut
  BY <1>1, <1>8 DEF PushedOut
<1>10. Bytes(Counted) = Bytes(Counted') + m.size
  <2>1. IsFiniteSet({m}) /\ Counted' \cap {m} = {}
    BY <1>8, FS_Singleton
  <2>2. Bytes(Counted' \cup {m}) = Bytes(Counted') + Bytes({m})
    BY <1>3, <2>1, BytesUnion DEF Apart
  <2> QED BY <1>4, <1>5, <1>8, <2>2
<1>11. Cardinality(Discounted') = Cardinality(Discounted) + 1
  BY <1>3, <1>8, FS_AddElement DEF Apart
<1>12. ASSUME ~raced
       PROVE  /\ total = Bytes(Counted) + Bytes(PushedOut) + Cardinality(Discounted)
              /\ total' = total - (m.size - 1) /\ total' <= total /\ total <= TotalLength
              /\ cloud.step # "store"
  <2>1. /\ total = Bytes(Counted) + Bytes(PushedOut) + Cardinality(Discounted) /\ total <= TotalLength
        /\ user.loaded = total /\ cloud.step # "store" /\ total \in 0 .. CountSize - 1
    BY <1>1, <1>12 DEF AccountInv, QuotaAccount
  <2>2. total - (m.size - 1) \in 0 .. CountSize - 1
    BY <1>3, <1>5, <1>6, <1>10, <2>1 DEF Apart
  <2>3. (total - (m.size - 1)) % CountSize = total - (m.size - 1)
    BY <1>6, <2>2, ModuloBelow, Zenon
  <2> QED BY <1>1, <1>5, <2>1, <2>3
<1>13. QuotaAccount'
  <2>1. ASSUME ~raced
        PROVE  total' = Bytes(Counted') + Bytes(PushedOut') + Cardinality(Discounted') /\ total' <= TotalLength
    BY <1>3, <1>5, <1>6, <1>7, <1>9, <1>10, <1>11, <1>12, <2>1 DEF Apart, AccountInv
  <2> QED BY <1>1, <2>1 DEF QuotaAccount
<1>14. ASSUME ~raced, cloud.step = "load" PROVE total' + Bytes(cloud.msg) <= TotalLength
  <2>1. Bytes(cloud.msg) \in Nat
    BY <1>3, BytesType DEF Apart
  <2>2. total + Bytes(cloud.msg) <= TotalLength
    BY <1>14 DEF AccountInv
  <2> QED BY <1>5, <1>6, <1>12, <1>14, <2>1, <2>2 DEF AccountInv
<1> QED BY <1>1, <1>2, <1>6, <1>7, <1>12, <1>13, <1>14 DEF AccountInv

LEMMA AccountStep == FogQueueAssumption /\ IInv /\ AccountInv /\ IInv' /\ [Next]_vars => AccountInv'
<1> SUFFICES ASSUME FogQueueAssumption, IInv, AccountInv, IInv', [Next]_vars PROVE AccountInv'
  OBVIOUS
<1>1. CASE UNCHANGED vars
  BY <1>1, AccountFrame DEF vars, AccountInv, Counted, Discounted, PushedOut
<1> QED BY <1>1, AccountAllocate, AccountCountLoad, AccountCountStore, AccountPush, AccountPop, AccountDiscountLoad,
        AccountDiscountStore, AccountHandle DEF Next, CloudStep, UserStep

LEMMA AccountInvariance == Spec => [](IInv /\ AccountInv)
BY Invariance, AccountInit, AccountStep, FogQueueAssumption, PTL DEF Spec

\* In every behaviour the variables have their types: the count of bytes never leaves 32 bits
\* (total_recv_buf_len, MicoFogCloud.c:46), and queue and history hold messages.
THEOREM TypesKept == Spec => []FogTypeOK
<1>1. IInv /\ AccountInv => FogTypeOK
  <2> SUFFICES ASSUME IInv, AccountInv PROVE FogTypeOK
    OBVIOUS
  <2>1. ToSet(queue) \in SUBSET Messages /\ ToSet(handled) \in SUBSET Messages
    BY ToSetOfMessages DEF IInv, TypeInv
  <2>2. cloud.msg \in SUBSET Messages /\ cloud.step \in {"idle", "load", "store", "push"}
    BY DEF IInv, TypeInv, IsLocal, Idle
  <2>3. user.msg \in SUBSET Messages /\ user.step \in {"idle", "load", "store", "handle"}
    BY DEF IInv, TypeInv, IsLocal, Idle
  <2>4. total \in 0 .. CountSize - 1 /\ sent \in 0 .. MaxSent
    BY FogQueueAssumption DEF IInv, TypeInv, AccountInv, FogQueueAssumption
  <2> QED BY <2>1, <2>2, <2>3, <2>4 DEF FogTypeOK, IInv, TypeInv
<1> QED BY <1>1, AccountInvariance, PTL

\* In every behaviour, as long as no two changes of the count overlapped, it is the bytes of the
\* messages that wait, those of the messages pushed out (MicoFogCloud.c:536 gives nothing back)
\* and one byte for every message handled (605 gives back sizeof - 1), and stays within the quota.
THEOREM QuotaAccounted == Spec => []QuotaAccount
<1>1. AccountInv => QuotaAccount
  BY DEF AccountInv, QuotaAccount
<1> QED BY <1>1, AccountInvariance, PTL
=============================================================================
