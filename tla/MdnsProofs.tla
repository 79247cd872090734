------------------------------- MODULE MdnsProofs -------------------------------
(***************************************************************************)
(* As long as every record is what a look-up took it for when it comes to  *)
(* be written, the table of the mDNS responder holds at most one live      *)
(* record of a service and interface, and a record in use was given its    *)
(* names and its text; for any number of callers, services, interfaces and *)
(* records.                                                                *)
(***************************************************************************)
EXTENDS Mdns, FiniteSetTheorems, WellFoundedInduction, TLAPS

KeySets == {{}} \cup {{k} : k \in Keys}
RecordSet == [state : States, key : KeySets, count : 0 .. Announcements,
              names : {"none"} \cup Allocated, txt : {"none", "freed"} \cup Allocated]
CallerSet == [step : {"out", "add", "write", "update"}, id : Ids, key : KeySets]
AnnouncerSet == [step : {"none", "scan", "sleep", "exit"}, id : Ids]

\* Types, of each variable as the steps build it; a call that has found a record has a key.
TypeInv ==
    /\ records \in [Ids -> RecordSet]
    /\ trigger \in {0, 1}
    /\ announcer \in AnnouncerSet
    /\ caller \in [Callers -> CallerSet]
    /\ \A c \in Callers : caller[c].step # "out" => caller[c].key # {}

\* A record that is announced has announcements left, and the handle tells the thread.
Counted(r) == r.state \in {"remove", "update"} => r.count > 0

CountInv ==
    /\ handler = (announcer.step # "none")
    /\ \A i \in Ids : Counted(records[i])

\* What the table is, for as long as no look-up was overtaken: no two live records have one key,
\* only a live record, or one that is being removed, has one, and whoever writes a record is the
\* only reason for it not to be whole.
Whole(r, i) ==
    r.state # "removed" => r.names \in Allocated /\ (r.txt \in Allocated \/ (i = 1 /\ r.txt = "freed"))

Keyless(r) == r.state = "removed" => r.key = {}

Distinct == \A i, j \in Ids : i # j /\ Live(records[i]) /\ Live(records[j]) => records[i].key # records[j].key

Entries == \A i \in Ids : Keyless(records[i]) /\ (Writing(i) = {} => Whole(records[i], i))

TableInv == ~overtaken => Distinct /\ Entries

IInv == TypeInv /\ CountInv /\ TableInv
-----------------------------------------------------------------------------
\* The order of the numbers, as the library's theorem on least elements takes it.
Below == {ss \in Nat \X Nat : ss[1] < ss[2]}

LEMMA BelowIsWellFounded == IsWellFoundedOn(Below, Nat)
<1>1. OpToRel(<, Nat) = Below
  BY Zenon DEF OpToRel, Below
<1> QED BY <1>1, NatLessThanWellFounded, Zenon

\* A set of numbers that is not empty has a least one: the first entry of a table that fits.
LEMMA LeastExists ==
    ASSUME NEW F \in SUBSET Nat, F # {}
    PROVE  (CHOOSE s \in F : \A f \in F : s <= f) \in F
<1>1. PICK s \in F : \A f \in F : ~ (<<f, s>> \in Below)
  BY BelowIsWellFounded, WFMin
<1>2. ASSUME NEW f \in F PROVE s <= f
  <2>1. f \in Nat /\ s \in Nat
    OBVIOUS
  <2>2. f < s => <<f, s>> \in Below
    BY <2>1 DEF Below
  <2> QED BY <1>1, <2>1, <2>2
<1> QED BY <1>2

\* find_record_by_service and find_empty_record find an entry of the table.
LEMMA FirstRecord ==
    ASSUME NEW F \in SUBSET Ids, F # {}
    PROVE  Min(F) \in F
<1>1. F \in SUBSET Nat
  BY MdnsAssumption DEF Ids
<1> QED BY <1>1, LeastExists DEF Min
-----------------------------------------------------------------------------
(* What a change of the table, and the rest of its step, has to keep *)

\* count_down starts in its range.
LEMMA CountDown == Announcements \in 0 .. Announcements /\ Announcements > 0
BY MdnsAssumption

\* A change that makes no record live, and moves no key, leaves the keys distinct.
LEMMA StaysDistinct ==
    ASSUME Distinct, \A i \in Ids : Live(records'[i]) => Live(records[i]) /\ records'[i].key = records[i].key
    PROVE  Distinct'
BY DEF Distinct

\* Whoever a record is being written by is told by the callers alone.
LEMMA SameWriters ==
    ASSUME NEW c \in Callers, NEW i \in Ids,
           \A o \in Callers \ {c} : caller'[o] = caller[o],
           caller[c].step = "write" => caller[c].id # i,
           caller'[c].step = "write" => caller'[c].id # i
    PROVE  Writing(i)' = Writing(i)
BY DEF Writing

LEMMA AnnounceKeeps ==
    ASSUME TypeInv, CountInv, NEW changed, Announce(changed)
    PROVE  announcer' \in AnnouncerSet /\ handler' = (announcer'.step # "none")
<1>1. CASE UNCHANGED <<handler, announcer>>
  BY <1>1 DEF TypeInv, CountInv
<1>2. CASE announcer' = [step |-> "scan", id |-> 1] /\ handler' = TRUE
  <2>1. 1 \in Ids
    BY MdnsAssumption DEF Ids
  <2> QED BY <1>2, <2>1 DEF AnnouncerSet
<1> QED BY <1>1, <1>2 DEF Announce

LEMMA Answered ==
    ASSUME TypeInv, NEW c \in Callers, caller' = [caller EXCEPT ![c] = Returned]
    PROVE  /\ caller' \in [Callers -> CallerSet]
           /\ \A o \in Callers : caller'[o].step # "out" => caller'[o].key # {}
<1>1. Returned \in CallerSet /\ Returned.step = "out"
  BY MdnsAssumption DEF Returned, CallerSet, Ids, KeySets
<1> QED BY <1>1 DEF TypeInv

LEMMA Looked ==
    ASSUME TypeInv, NEW c \in Callers, NEW k \in Keys, NEW F \in SUBSET Ids, F # {}, NEW x \in {"add", "update"},
           caller' = [caller EXCEPT ![c] = [step |-> x, id |-> Min(F), key |-> {k}]]
    PROVE  /\ caller' \in [Callers -> CallerSet]
           /\ \A o \in Callers : caller'[o].step # "out" => caller'[o].key # {}
<1>1. Min(F) \in Ids
  BY FirstRecord
<1>2. [step |-> x, id |-> Min(F), key |-> {k}] \in CallerSet
  BY <1>1 DEF CallerSet, KeySets
<1> QED BY <1>2 DEF TypeInv
-----------------------------------------------------------------------------
LEMMA InvInit == Init => IInv
<1> SUFFICES ASSUME Init PROVE IInv
  OBVIOUS
<1>1. /\ NoRecord \in RecordSet /\ Counted(NoRecord) /\ ~Live(NoRecord)
      /\ Keyless(NoRecord) /\ \A i \in Ids : Whole(NoRecord, i)
  BY MdnsAssumption DEF NoRecord, RecordSet, States, KeySets, Counted, Live, Whole, Keyless
<1>2. Returned \in CallerSet /\ Returned.step = "out"
  BY MdnsAssumption DEF Returned, CallerSet, Ids, KeySets
<1>3. TypeInv
  BY <1>1, <1>2, MdnsAssumption DEF Init, TypeInv, AnnouncerSet, Ids
<1>4. CountInv
  BY <1>1 DEF Init, CountInv
<1>5. TableInv
  BY <1>1 DEF Init, TableInv, Distinct, Entries
<1> QED BY <1>3, <1>4, <1>5 DEF IInv

\* mdns_add_record: until the record is written again nothing is asked of its names.
LEMMA AddClearKeeps == ASSUME IInv, NEW c \in Callers, AddClear(c) PROVE IInv'
<1> DEFINE i == caller[c].id
<1>1. /\ records' = [records EXCEPT ![i].names = "none", ![i].txt = "none"]
      /\ caller' = [caller EXCEPT ![c].step = "write"]
      /\ caller[c].step = "add" /\ UNCHANGED <<trigger, handler, announcer, overtaken>>
  BY DEF AddClear
<1>2. i \in Ids /\ records \in [Ids -> RecordSet] /\ caller \in [Callers -> CallerSet]
  BY DEF IInv, TypeInv, CallerSet
<1>3. /\ records' \in [Ids -> RecordSet]
      /\ \A j \in Ids : /\ records'[j].state = records[j].state /\ records'[j].key = records[j].key
                        /\ records'[j].count = records[j].count
      /\ \A j \in Ids \ {i} : records'[j] = records[j]
  BY <1>1, <1>2 DEF RecordSet
<1>4. /\ caller' \in [Callers -> CallerSet] /\ caller'[c].step = "write" /\ caller'[c].id = i
      /\ caller'[c].key = caller[c].key /\ \A o \in Callers \ {c} : caller'[o] = caller[o]
  BY <1>1, <1>2 DEF CallerSet
<1>5. TypeInv'
  BY <1>1, <1>3, <1>4 DEF TypeInv, IInv
<1>6. CountInv'
  BY <1>1, <1>3 DEF CountInv, IInv, Counted
<1>7. ASSUME ~overtaken' PROVE Distinct' /\ Entries'
  <2>1. Distinct /\ Entries
    BY <1>1, <1>7 DEF IInv, TableInv
  <2>2. Distinct'
    BY <1>3, <2>1, StaysDistinct DEF Live
  <2>3. \A j \in Ids : j = i => c \in Writing(j)'
    BY <1>4 DEF Writing
  <2>4. \A j \in Ids \ {i} : Writing(j)' = Writing(j)
    BY <1>1, <1>4, SameWriters
  <2>5. \A j \in Ids : Keyless(records'[j])
    BY <1>3, <2>1 DEF Entries, Keyless
  <2>6. ASSUME NEW j \in Ids, Writing(j)' = {} PROVE Whole(records'[j], j)
    <3>1. j # i /\ Writing(j) = {}
      BY <2>3, <2>4, <2>6
    <3>2. records'[j] = records[j]
      BY <1>3, <3>1
    <3> QED BY <2>1, <3>1, <3>2 DEF Entries
  <2> QED BY <2>2, <2>5, <2>6 DEF Entries
<1> QED BY <1>5, <1>6, <1>7 DEF IInv, TableInv

\* The record written was free or had the key, and nobody else has the key.
LEMMA AddWriteKeeps == ASSUME IInv, NEW c \in Callers, AddWrite(c) PROVE IInv'
<1> DEFINE i == caller[c].id
           new(n, t) == [state |-> "update", key |-> caller[c].key, count |-> Announcements,
                         names |-> n, txt |-> t]
<1>1. /\ caller[c].step = "write"
      /\ overtaken' = (overtaken \/ (records[i].state # "removed" /\ records[i].key # caller[c].key)
                                 \/ \E k \in caller[c].key : Bearing(k) \ {i} # {})
      /\ Announce({i}) /\ caller' = [caller EXCEPT ![c] = Returned] /\ trigger' = trigger
  BY DEF AddWrite
<1>2. PICK n \in Allocated, t \in Allocated : records' = [records EXCEPT ![i] = new(n, t)]
  BY DEF AddWrite
<1>3. /\ i \in Ids /\ caller[c].key \in KeySets /\ caller[c].key # {}
      /\ records \in [Ids -> RecordSet] /\ caller \in [Callers -> CallerSet]
  BY <1>1 DEF IInv, TypeInv, CallerSet
<1>4. /\ new(n, t) \in RecordSet /\ Counted(new(n, t)) /\ Keyless(new(n, t)) /\ Whole(new(n, t), i)
      /\ new(n, t).key = caller[c].key
  BY <1>2, <1>3, MdnsAssumption DEF RecordSet, States, Counted, Whole, Keyless
<1>5. records' \in [Ids -> RecordSet] /\ records'[i] = new(n, t) /\ \A j \in Ids \ {i} : records'[j] = records[j]
  BY <1>2, <1>3, <1>4
<1> HIDE DEF new
<1>6. TypeInv'
  BY <1>1, <1>5, Answered, AnnounceKeeps DEF TypeInv, IInv
<1>7. CountInv'
  <2>1. \A j \in Ids : Counted(records'[j])
    BY <1>4, <1>5 DEF IInv, CountInv
  <2> QED BY <1>1, <2>1, AnnounceKeeps DEF CountInv, IInv
<1>8. TableInv'
  <2> SUFFICES ASSUME ~overtaken' PROVE Distinct' /\ Entries'
    BY DEF TableInv
  <2>1. ~overtaken /\ ~ \E k \in caller[c].key : Bearing(k) \ {i} # {}
    BY <1>1
  <2>2. Distinct /\ Entries
    BY <2>1 DEF IInv, TableInv
  <2>3. PICK k \in Keys : caller[c].key = {k}
    BY <1>3 DEF KeySets
  <2>4. \A j \in Ids \ {i} : Live(records[j]) => records[j].key # caller[c].key
    BY <2>1, <2>3 DEF Bearing
  <2>5. Distinct'
    BY <1>4, <1>5, <2>2, <2>4 DEF Distinct
  <2>6. caller'[c].step = "out" /\ \A o \in Callers \ {c} : caller'[o] = caller[o]
    BY <1>1, <1>3 DEF Returned
  <2>7. \A j \in Ids \ {i} : Writing(j)' = Writing(j)
    BY <2>6, SameWriters
  <2> QED BY <1>4, <1>5, <2>2, <2>5, <2>7 DEF Entries
<1> QED BY <1>6, <1>7, <1>8 DEF IInv

\* mdns_update_txt_record: the record is live and has the key, and keeps it; the first record may
\* lose its text, and it is the only one that may.
LEMMA UpdateWriteKeeps == ASSUME IInv, NEW c \in Callers, UpdateWrite(c) PROVE IInv'
<1> DEFINE i == caller[c].id
           points == {"set", "freed"}
           freed == [records EXCEPT ![1].txt = IF records[i].txt \in points /\ @ \in points THEN "freed" ELSE @]
<1>1. /\ Unlocked /\ caller[c].step = "update"
      /\ overtaken' = (overtaken \/ ~Live(records[i]) \/ records[i].key # caller[c].key)
      /\ Announce({i}) /\ caller' = [caller EXCEPT ![c] = Returned] /\ trigger' = trigger
  BY DEF UpdateWrite
<1>2. PICK t \in Allocated :
         records' = [freed EXCEPT ![i].txt = t, ![i].state = "update", ![i].count = Announcements]
  BY DEF UpdateWrite
<1>3. i \in Ids /\ 1 \in Ids /\ records \in [Ids -> RecordSet] /\ caller \in [Callers -> CallerSet]
  BY MdnsAssumption DEF IInv, TypeInv, CallerSet, Ids
<1>4. /\ freed \in [Ids -> RecordSet]
      /\ \A j \in Ids : /\ freed[j].state = records[j].state /\ freed[j].key = records[j].key
                        /\ freed[j].count = records[j].count /\ freed[j].names = records[j].names
                        /\ freed[j].txt = records[j].txt \/ (j = 1 /\ freed[j].txt = "freed")
  BY <1>3 DEF RecordSet
<1> HIDE DEF freed
<1>5. /\ records' \in [Ids -> RecordSet]
      /\ \A j \in Ids \ {i} : records'[j] = freed[j]
      /\ records'[i].state = "update" /\ records'[i].count = Announcements /\ records'[i].txt = t
      /\ records'[i].key = freed[i].key /\ records'[i].names = freed[i].names
  BY <1>2, <1>3, <1>4, MdnsAssumption DEF RecordSet, States
<1>6. TypeInv'
  BY <1>1, <1>5, Answered, AnnounceKeeps DEF TypeInv, IInv
<1>7. CountInv'
  <2>1. \A j \in Ids : Counted(records'[j])
    BY <1>4, <1>5, MdnsAssumption DEF IInv, CountInv, Counted
  <2> QED BY <1>1, <2>1, AnnounceKeeps DEF CountInv, IInv
<1>8. TableInv'
  <2> SUFFICES ASSUME ~overtaken' PROVE Distinct' /\ Entries'
    BY DEF TableInv
  <2>1. ~overtaken /\ Live(records[i])
    BY <1>1
  <2>2. Distinct /\ Entries
    BY <2>1 DEF IInv, TableInv
  <2>3. \A j \in Ids : Writing(j) = {} /\ Whole(records[j], j) /\ Keyless(records[j])
    BY <1>1, <2>2 DEF Unlocked, Writing, Entries
  <2>4. Distinct'
    BY <1>4, <1>5, <2>1, <2>2, StaysDistinct DEF Live
  <2>5. \A j \in Ids \ {i} : Whole(records'[j], j) /\ Keyless(records'[j])
    BY <1>4, <1>5, <2>3 DEF Whole, Keyless
  <2>6. Whole(records'[i], i) /\ Keyless(records'[i])
    BY <1>2, <1>3, <1>4, <1>5, <2>1, <2>3 DEF Whole, Keyless, Live
  <2> QED BY <2>4, <2>5, <2>6 DEF Entries
<1> QED BY <1>6, <1>7, <1>8 DEF IInv

\* A change of the records' states that announces them: mdns_suspend_record, mdns_resume_record.
LEMMA ChangeKeeps ==
    ASSUME IInv, NEW changed \in SUBSET Ids, NEW x \in {"remove", "suspend", "update"},
           \A i \in changed : Live(records[i]), Change(changed, x)
    PROVE  IInv'
<1>0. /\ records' = [i \in Ids |-> IF i \in changed
                                 THEN [records[i] EXCEPT !.state = x, !.count = Announcements]
                                 ELSE records[i]]
      /\ Announce(changed) /\ UNCHANGED <<trigger, caller, overtaken>>
  BY DEF Change
<1>1. records \in [Ids -> RecordSet]
  BY DEF IInv, TypeInv
<1>2. ASSUME NEW i \in Ids
      PROVE  /\ records'[i] \in RecordSet
             /\ records'[i].key = records[i].key /\ records'[i].names = records[i].names
             /\ records'[i].txt = records[i].txt
             /\ Live(records'[i]) => Live(records[i])
             /\ records'[i].state = "removed" <=> records[i].state = "removed"
             /\ Counted(records[i]) => Counted(records'[i])
  <2>1. CASE i \in changed
    <3>1. records'[i] = [records[i] EXCEPT !.state = x, !.count = Announcements]
      BY <1>0, <2>1
    <3>2. x \in States /\ x # "removed"
      BY DEF States
    <3>3. Announcements \in 0 .. Announcements /\ Announcements > 0
      BY CountDown
    <3> QED BY <1>1, <2>1, <3>1, <3>2, <3>3 DEF RecordSet, Live, Counted
  <2>2. CASE i \notin changed
    BY <1>0, <1>1, <2>2
  <2> QED BY <2>1, <2>2
<1>3. TypeInv'
  <2>1. records' \in [Ids -> RecordSet]
    <3>1. \A i \in Ids : records'[i] \in RecordSet
      BY <1>2
    <3> QED BY <1>0, <3>1
  <2>2. announcer' \in AnnouncerSet
    BY <1>0, AnnounceKeeps DEF IInv
  <2> QED BY <1>0, <2>1, <2>2 DEF TypeInv, IInv
<1>4. CountInv'
  <2>1. \A i \in Ids : Counted(records'[i])
    BY <1>2 DEF IInv, CountInv
  <2> QED BY <1>0, <2>1, AnnounceKeeps DEF CountInv, IInv
<1>5. ASSUME ~overtaken' PROVE Distinct' /\ Entries'
  <2>1. Distinct /\ Entries
    BY <1>0, <1>5 DEF IInv, TableInv
  <2>2. Distinct'
    BY <1>2, <2>1, StaysDistinct
  <2>3. \A i \in Ids : Writing(i)' = Writing(i)
    BY <1>0 DEF Writing
  <2> QED BY <1>2, <2>1, <2>2, <2>3 DEF Entries, Whole, Keyless
<1> QED BY <1>3, <1>4, <1>5 DEF IInv, TableInv

\* A look-up finds live records of the table.
LEMMA MatchesLive ==
    ASSUME NEW names, NEW interface, NEW found \in Matches(names, interface)
    PROVE  found \in SUBSET Ids /\ \A i \in found : Live(records[i])
BY DEF Matches

LEMMA SuspendKeeps == ASSUME IInv, Suspend PROVE IInv'
<1>1. PICK names \in NameArguments, interface \in Interfaces, x \in {"remove", "suspend"} :
         \E found \in Matches(names, interface) : Change(found, x)
  BY DEF Suspend
<1>2. PICK found \in Matches(names, interface) : Change(found, x)
  BY <1>1
<1> QED BY <1>2, MatchesLive, ChangeKeeps

LEMMA ResumeKeeps == ASSUME IInv, Resume PROVE IInv'
<1>1. PICK names \in NameArguments, interface \in Interfaces :
         \E found \in Matches(names, interface) :
            Change({i \in Ids : 1 .. i \subseteq found}, "update")
  BY DEF Resume
<1>2. PICK found \in Matches(names, interface) :
         Change({i \in Ids : 1 .. i \subseteq found}, "update")
  BY <1>1
<1> DEFINE resumed == {i \in Ids : 1 .. i \subseteq found}
<1>3. \A i \in resumed : Live(records[i])
  <2>1. \A i \in Ids : i \in 1 .. i
    BY DEF Ids
  <2> QED BY <2>1, MatchesLive
<1>4. resumed \in SUBSET Ids
  OBVIOUS
<1> HIDE DEF resumed
<1> QED BY <1>2, <1>3, <1>4, ChangeKeeps DEF resumed
-----------------------------------------------------------------------------
\* What the responder sends keeps its key for as long as it is live, and is cleared when it goes.
LEMMA SentRecord ==
    ASSUME NEW r \in RecordSet, Counted(r), NEW i \in Ids
    PROVE  /\ Sent(r) \in RecordSet /\ Counted(Sent(r))
           /\ Live(Sent(r)) => Live(r) /\ Sent(r).key = r.key
           /\ Whole(r, i) => Whole(Sent(r), i)
           /\ Keyless(r) => Keyless(Sent(r))
<1>1. /\ NoRecord \in RecordSet /\ NoRecord.state = "removed" /\ NoRecord.key = {}
  BY MdnsAssumption DEF NoRecord, RecordSet, States, KeySets
<1>2. r.count \in 0 .. Announcements /\ Announcements \in Nat
  BY MdnsAssumption DEF RecordSet
<1>3. CASE r.state = "remove" /\ r.count = 1
  BY <1>1, <1>3 DEF Sent, Counted, Live, Whole, Keyless
<1>4. CASE r.state = "remove" /\ r.count # 1
  <2>1. Sent(r) = [r EXCEPT !.count = @ - 1] /\ r.count - 1 \in 0 .. Announcements /\ r.count - 1 > 0
    BY <1>2, <1>4 DEF Sent, Counted
  <2> QED BY <1>4, <2>1 DEF RecordSet, Counted, Live, Whole, Keyless
<1>5. CASE r.state = "suspend" /\ r.count > 0
  <2>1. Sent(r) = [r EXCEPT !.count = @ - 1] /\ r.count - 1 \in 0 .. Announcements
    BY <1>2, <1>5 DEF Sent
  <2> QED BY <1>5, <2>1 DEF RecordSet, Counted, Live, Whole, Keyless
<1>6. CASE r.state = "update" /\ r.count = 1
  <2>1. Sent(r) = [r EXCEPT !.count = 0, !.state = "normal"] /\ 0 \in 0 .. Announcements
    BY <1>2, <1>6 DEF Sent
  <2>2. "normal" \in States
    BY DEF States
  <2>3. Sent(r) \in RecordSet
    BY <2>1, <2>2 DEF RecordSet
  <2>4. /\ Sent(r).state = "normal" /\ Sent(r).key = r.key /\ Sent(r).names = r.names /\ Sent(r).txt = r.txt
    BY <2>1 DEF RecordSet
  <2> QED BY <1>6, <2>3, <2>4 DEF Counted, Live, Whole, Keyless
<1>7. CASE r.state = "update" /\ r.count # 1
  <2>1. /\ Sent(r) = [r EXCEPT !.count = r.count - 1, !.state = r.state]
        /\ r.count - 1 \in 0 .. Announcements /\ r.count - 1 > 0
    BY <1>2, <1>7 DEF Sent, Counted
  <2> QED BY <1>7, <2>1 DEF RecordSet, Counted, Live, Whole, Keyless
<1>8. CASE r.state \notin {"remove", "update"} /\ ~(r.state = "suspend" /\ r.count > 0)
  <2>1. Sent(r) = r
    BY <1>8 DEF Sent
  <2> QED BY <2>1
<1> QED BY <1>3, <1>4, <1>5, <1>6, <1>7, <1>8

LEMMA RespondKeeps == ASSUME IInv, Respond PROVE IInv'
<1>1. \A i \in Ids : records'[i] = Sent(records[i])
  BY DEF Respond
<1>2. \A i \in Ids : records[i] \in RecordSet /\ Counted(records[i])
  BY DEF IInv, TypeInv, CountInv
<1>3. TypeInv'
  <2>1. records' \in [Ids -> RecordSet]
    BY <1>2, SentRecord DEF Respond
  <2> QED BY <2>1 DEF Respond, TypeInv, IInv
<1>4. CountInv'
  BY <1>1, <1>2, SentRecord DEF Respond, IInv, CountInv
<1>5. ASSUME ~overtaken' PROVE Distinct' /\ Entries'
  <2>1. Distinct /\ Entries
    BY <1>5 DEF Respond, IInv, TableInv
  <2>2. Distinct'
    BY <1>1, <1>2, <2>1, SentRecord, StaysDistinct
  <2>3. \A i \in Ids : Writing(i)' = Writing(i)
    BY DEF Respond, Writing
  <2> QED BY <1>1, <1>2, <2>1, <2>2, <2>3, SentRecord DEF Entries
<1> QED BY <1>3, <1>4, <1>5 DEF IInv, TableInv
-----------------------------------------------------------------------------
\* The announcing thread changes no record, and its handle only when it ends.
LEMMA AnnouncerKeeps == ASSUME IInv, AnnouncerStep PROVE IInv'
<1>1. /\ UNCHANGED <<records, caller, overtaken>>
      /\ trigger' \in {0, 1}
  BY DEF AnnouncerStep, ScanRecord, ScanAgain, Exit, IInv, TypeInv
<1>2. announcer' \in AnnouncerSet /\ handler' = (announcer'.step # "none")
  <2>1. /\ handler = (announcer.step # "none") /\ announcer \in AnnouncerSet
        /\ 1 \in Ids /\ RecordCount \in Nat
        /\ announcer.id # RecordCount => announcer.id + 1 \in Ids
    BY MdnsAssumption DEF IInv, CountInv, TypeInv, AnnouncerSet, Ids
  <2>2. CASE ScanRecord
    <3>1. \/ announcer' = [step |-> "sleep", id |-> 1]
          \/ announcer' = [step |-> "exit", id |-> 1]
          \/ announcer' = [announcer EXCEPT !.id = @ + 1] /\ announcer.id # RecordCount
      BY <2>2 DEF ScanRecord
    <3> QED BY <2>1, <2>2, <3>1 DEF ScanRecord, AnnouncerSet
  <2>3. CASE ScanAgain
    BY <2>1, <2>3 DEF ScanAgain, AnnouncerSet
  <2>4. CASE Exit
    BY <2>1, <2>4 DEF Exit, AnnouncerSet
  <2> QED BY <2>2, <2>3, <2>4 DEF AnnouncerStep
<1> QED BY <1>1, <1>2 DEF IInv, TypeInv, CountInv, TableInv, Distinct, Entries, Writing

LEMMA FindKeeps == ASSUME IInv, NEW c \in Callers, AddFind(c) \/ UpdateFind(c) PROVE IInv'
<1>1. UNCHANGED <<records, trigger, handler, announcer, overtaken>> /\ caller[c].step = "out"
  BY DEF AddFind, UpdateFind
<1>2. Free \in SUBSET Ids /\ \A k \in Keys : \A found \in Matches({k[1]}, k[2]) : found \in SUBSET Ids
  BY MatchesLive DEF Free
<1>3. PICK k \in Keys, F \in SUBSET Ids, x \in {"add", "update"} :
         F # {} /\ caller' = [caller EXCEPT ![c] = [step |-> x, id |-> Min(F), key |-> {k}]]
  <2>1. CASE AddFind(c)
    <3>1. PICK k \in Keys : \E found \in Matches({k[1]}, k[2]) :
             LET candidates == IF found # {} THEN found ELSE Free IN
             /\ candidates # {}
             /\ caller' = [caller EXCEPT ![c] = [step |-> "add", id |-> Min(candidates), key |-> {k}]]
      BY <2>1 DEF AddFind
    <3>2. PICK found \in Matches({k[1]}, k[2]) :
             LET candidates == IF found # {} THEN found ELSE Free IN
             /\ candidates # {}
             /\ caller' = [caller EXCEPT ![c] = [step |-> "add", id |-> Min(candidates), key |-> {k}]]
      BY <3>1
    <3>3. (IF found # {} THEN found ELSE Free) \in SUBSET Ids
      BY <1>2
    <3> QED BY <3>2, <3>3, Zenon
  <2>2. CASE UpdateFind(c)
    <3>1. PICK k \in Keys : \E found \in Matches({k[1]}, k[2]) :
             /\ found # {}
             /\ caller' = [caller EXCEPT ![c] = [step |-> "update", id |-> Min(found), key |-> {k}]]
      BY <2>2 DEF UpdateFind
    <3> QED BY <1>2, <3>1, Zenon
  <2> QED BY <2>1, <2>2
<1>4. /\ caller' \in [Callers -> CallerSet]
      /\ \A o \in Callers : caller'[o].step # "out" => caller'[o].key # {}
  BY <1>3, Looked DEF IInv
<1>5. caller'[c].step \in {"add", "update"} /\ \A o \in Callers \ {c} : caller'[o] = caller[o]
  BY <1>3 DEF IInv, TypeInv
<1>6. \A i \in Ids : Writing(i)' = Writing(i)
  BY <1>1, <1>5, SameWriters
<1> QED BY <1>1, <1>4, <1>6 DEF IInv, TypeInv, CountInv, TableInv, Distinct, Entries

LEMMA InvStep == IInv /\ [Next]_vars => IInv'
<1> SUFFICES ASSUME IInv, [Next]_vars PROVE IInv'
  OBVIOUS
<1>1. ASSUME NEW c \in Callers, AddFind(c) \/ UpdateFind(c) \/ CallerStep(c) PROVE IInv'
  BY <1>1, FindKeeps, AddClearKeeps, AddWriteKeeps, UpdateWriteKeeps DEF CallerStep
<1>2. CASE UNCHANGED vars
  BY <1>2 DEF vars, IInv, TypeInv, CountInv, TableInv, Distinct, Entries, Writing
<1> QED BY <1>1, <1>2, SuspendKeeps, ResumeKeeps, AnnouncerKeeps, RespondKeeps DEF Next
-----------------------------------------------------------------------------
LEMMA Always == Spec => []IInv
BY InvInit, InvStep, PTL DEF Spec

\* Types of the responder's state; and the handle of the announcing thread is set exactly as long
\* as that thread lives, a record to be announced has announcements left, and a removed one no key
\* (mico_mdns.c:504-520 and 637-650).
THEOREM MdnsTypes == Spec => []MdnsTypeOK
<1>1. IInv => MdnsTypeOK
  <2> SUFFICES ASSUME IInv PROVE MdnsTypeOK
    OBVIOUS
  <2>1. \A c \in Callers : caller[c].step \in {"out", "add", "write", "update"} /\ caller[c].id \in Ids
    BY DEF IInv, TypeInv, CallerSet
  <2>2. announcer.step \in {"none", "scan", "sleep", "exit"} /\ announcer.id \in Ids
    BY DEF IInv, TypeInv, AnnouncerSet
  <2>3. \A i \in Ids : records[i].state = "removed" => records[i].key = {} \/ overtaken
    BY DEF IInv, TableInv, Entries, Keyless
  <2> QED BY <2>1, <2>2, <2>3 DEF MdnsTypeOK, IInv, TypeInv, CountInv, Counted, RecordSet, KeySets
<1> QED BY <1>1, Always, PTL

\* A service has one live record per interface, and a record in use that nobody is writing was
\* given its names and its text, except the first one, whose text any update frees
\* (mico_mdns.c:607); as long as each record was what an unlocked look-up had taken it for when it
\* came to be written (mico_mdns.c:558-564 and 602-605).
THEOREM RecordsStayWhole == Spec => []RecordsWhole
<1>1. IInv => RecordsWhole
  <2> SUFFICES ASSUME IInv, ~overtaken PROVE RecordsWhole
    BY DEF RecordsWhole
  <2>1. Distinct /\ Entries
    BY DEF IInv, TableInv
  <2>2. ASSUME NEW k \in Keys PROVE Cardinality(Bearing(k)) <= 1
    <3>1. \A i, j \in Bearing(k) : i = j
      BY <2>1 DEF Bearing, Distinct
    <3>2. CASE Bearing(k) = {}
      <4>1. Cardinality({}) = 0
        BY FS_EmptySet
      <4> QED BY <3>2, <4>1
    <3>3. CASE Bearing(k) # {}
      <4>1. PICK i \in Bearing(k) : Bearing(k) = {i}
        BY <3>1, <3>3
      <4>2. Cardinality({i}) = 1
        BY FS_Singleton
      <4> QED BY <4>1, <4>2
    <3> QED BY <3>2, <3>3
  <2>3. \A i \in Ids : records[i].state # "removed" /\ Writing(i) = {} =>
           /\ records[i].names \in Allocated
           /\ records[i].txt \in Allocated \/ (i = 1 /\ records[i].txt = "freed")
    BY <2>1 DEF Entries, Whole
  <2> QED BY <2>2, <2>3 DEF RecordsWhole
<1> QED BY <1>1, Always, PTL
=============================================================================
