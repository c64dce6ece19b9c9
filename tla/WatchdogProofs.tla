--------------------------- MODULE WatchdogProofs ---------------------------
(***************************************************************************)
(* Proofs about what outlives a process that dies: the file of the alerts  *)
(* inbox (Alerts), for any callers, keys and caps, and the server that the *)
(* watchdog revives (Watchdog), for any limits, settings and faults.       *)
(***************************************************************************)
EXTENDS Watchdog, Alerts, SelectionsProofs

-----------------------------------------------------------------------------
(* The file of the alerts inbox (Alerts).                                   *)

Busy(c) == call[c].pc # "idle"

(* No two callers are inside raise_alert or mark_read.                      *)
OneAtATime == \A c, d \in Callers : Busy(c) /\ Busy(d) => c = d

(* What the list a caller will write makes of the file as it is.            *)
Refreshes(list, raises, reads) ==
  list = Content /\ raises \subseteq delivered /\ reads = {}

Appends(list, raises, reads) ==
  \E k \in Keys \cup {NoKey} :
    /\ lastId \in I!AlertIds /\ ~I!HasUnread(Content, k)
    /\ \A d \in delivered : d < lastId
    /\ list = I!Capped(Append(Content, I!NewAlert(lastId, k)))
    /\ raises = {lastId} /\ reads = {}

Marks(list, raises, reads) ==
  /\ raises = {} /\ reads \in SUBSET {Content[i].id : i \in DOMAIN Content}
  /\ list = I!MarkedRead(Content, reads)

(* A caller that overlaps with nobody finds the temporary file as it left   *)
(* it, and the inbox as it loaded it.                                       *)
OnItsWay(c) ==
  /\ Busy(c)
  /\ \/ Refreshes(call[c].list, call[c].raises, call[c].reads)
     \/ Appends(call[c].list, call[c].raises, call[c].reads)
     \/ Marks(call[c].list, call[c].raises, call[c].reads)
  /\ IF call[c].pc = "flush"
     THEN tmp # NoFile /\ call[c].file = tmp /\ files[tmp] = <<>>
     ELSE call[c].file = NoFile
  /\ call[c].pc = "replace" => tmp # NoFile /\ files[tmp] = call[c].list

(* The inbox is in order, and knows no alert that nobody was told of.       *)
Told ==
  /\ Content \in Seq(I!Alert) /\ Len(Content) <= MaxRecords /\ I!OrderedIn(Content)
  /\ \A i \in DOMAIN Content : Content[i].id \in delivered
  /\ \A d \in delivered : d <= lastId
  /\ seen \subseteq delivered

AlertsIInv ==
  /\ AlertsTypeOK
  /\ tmp # NoFile => tmp # store
  /\ Told /\ DeliveredKept /\ ReadStaysRead
  /\ \A c \in Callers : call[c] = NoCall \/ OnItsWay(c)

LEMMA AlertsBounds ==
  /\ MaxRecords \in Nat \ {0} /\ MaxAlerts \in Nat
  /\ NoKey \notin Keys /\ NoFile \notin Nat /\ NoFile \notin Files
  /\ Cardinality(Callers) \in Nat /\ 1 \in Files /\ 2 \in Files
<1>1. Cardinality(Callers) \in Nat
  BY AlertsAssumption, FS_CardinalityType
<1> QED BY <1>1, AlertsAssumption DEF Files

LEMMA AlertFields ==
  ASSUME NEW list \in Seq(I!Alert)
  PROVE  /\ Len(list) \in Nat /\ DOMAIN list = 1..Len(list)
         /\ \A i \in DOMAIN list :
              /\ i \in Int /\ list[i] \in I!Alert /\ list[i].id \in Int
              /\ list[i].id \in I!AlertIds /\ list[i].read \in BOOLEAN
<1>1. Len(list) \in Nat /\ DOMAIN list = 1..Len(list)
  BY LenProperties
<1>2. \A i \in DOMAIN list : i \in Int /\ list[i] \in I!Alert
  BY <1>1, ElementOfSeq
<1>3. \A r \in I!Alert : r.id \in I!AlertIds /\ r.read \in BOOLEAN
  BY DEF I!Alert
<1>4. \A n \in I!AlertIds : n \in Int
  BY AlertsBounds DEF I!AlertIds
<1> QED BY <1>1, <1>2, <1>3, <1>4

LEMMA CappedFacts ==
  ASSUME NEW list \in Seq(I!Alert)
  PROVE  /\ I!Capped(list) \in Seq(I!Alert) /\ Len(I!Capped(list)) <= MaxRecords
         /\ Len(list) <= MaxRecords => I!Capped(list) = list
         /\ \E d \in Nat :
              /\ d = IF Len(list) <= MaxRecords THEN 0 ELSE Len(list) - MaxRecords
              /\ DOMAIN I!Capped(list) = 1..(Len(list) - d)
              /\ \A i \in 1..(Len(list) - d) : I!Capped(list)[i] = list[i + d]
<1>1. PICK cap \in Nat \ {0} : cap = MaxRecords
  BY AlertsBounds
<1>2. Len(list) \in Nat
  BY AlertFields
<1>3. I!Capped(list) = LastOf(list, cap)
  BY <1>1, <1>2 DEF I!Capped, LastOf
<1>4. Len(list) <= cap => LastOf(list, cap) = list
  BY DEF LastOf
<1>5. /\ LastOf(list, cap) \in Seq(I!Alert) /\ Len(LastOf(list, cap)) <= cap
      /\ \E d \in Nat :
           /\ d = IF Len(list) <= cap THEN 0 ELSE Len(list) - cap
           /\ DOMAIN LastOf(list, cap) = 1..(Len(list) - d)
           /\ \A i \in 1..(Len(list) - d) : LastOf(list, cap)[i] = list[i + d]
  <2>1. PICK T : T = I!Alert
    OBVIOUS
  <2>2. list \in Seq(T) /\ cap \in Nat \ {0}
    BY <2>1
  <2>3. /\ LastOf(list, cap) \in Seq(T) /\ Len(LastOf(list, cap)) <= cap
        /\ \E d \in Nat :
             /\ d = IF Len(list) <= cap THEN 0 ELSE Len(list) - cap
             /\ DOMAIN LastOf(list, cap) = 1..(Len(list) - d)
             /\ \A i \in 1..(Len(list) - d) : LastOf(list, cap)[i] = list[i + d]
    BY ONLY <2>2, LastOfLemma
  <2> QED BY <2>1, <2>3
<1> QED BY <1>1, <1>3, <1>4, <1>5

(* Marking changes nothing but read flags, and only sets them.              *)
LEMMA MarkedFacts ==
  ASSUME NEW list \in Seq(I!Alert), NEW ids
  PROVE  /\ I!MarkedRead(list, ids) \in Seq(I!Alert)
         /\ DOMAIN I!MarkedRead(list, ids) = DOMAIN list
         /\ Len(I!MarkedRead(list, ids)) = Len(list)
         /\ \A i \in DOMAIN list :
              /\ I!MarkedRead(list, ids)[i].id = list[i].id
              /\ list[i].read \/ list[i].id \in ids <=> I!MarkedRead(list, ids)[i].read
<1>1. PICK c : c = I!MarkedRead(list, ids)
  OBVIOUS
<1>2. /\ Len(list) \in Nat /\ DOMAIN list = 1..Len(list)
      /\ \A i \in DOMAIN list : list[i] \in I!Alert
  BY AlertFields
<1>3. DOMAIN c = DOMAIN list
  BY <1>1 DEF I!MarkedRead
<1>4. ASSUME NEW i \in DOMAIN list
      PROVE  /\ c[i] \in I!Alert /\ c[i].id = list[i].id
             /\ list[i].read \/ list[i].id \in ids <=> c[i].read
  <2>1. PICK r \in I!Alert : r = list[i]
    BY <1>2
  <2>2. PICK b \in BOOLEAN : b = (r.read \/ r.id \in ids)
    OBVIOUS
  <2>3. c[i] = [r EXCEPT !.read = b]
    BY <1>1, <2>1, <2>2 DEF I!MarkedRead
  <2>4. c[i] \in I!Alert /\ c[i].id = r.id /\ c[i].read = b
    <3>1. PICK x : x = c[i]
      OBVIOUS
    <3>2. x = [r EXCEPT !.read = b] /\ r \in I!Alert /\ b \in BOOLEAN
      BY <2>3, <3>1
    <3>3. x \in I!Alert /\ x.id = r.id /\ x.read = b
      BY ONLY <3>2 DEF I!Alert
    <3> QED BY <3>1, <3>3
  <2> QED BY <2>1, <2>2, <2>4
<1>5. c \in Seq(I!Alert) /\ Len(c) = Len(list)
  <2>1. c \in [1..Len(list) -> I!Alert]
    <3>1. c = [i \in 1..Len(list) |-> c[i]]
      BY <1>1, <1>2 DEF I!MarkedRead
    <3> QED BY <1>2, <1>4, <3>1
  <2> QED BY <1>2, <2>1, LenProperties, SeqDef
<1> QED BY <1>1, <1>3, <1>4, <1>5

(* A list in order holds no more alerts than there are ids it draws from.   *)
LEMMA OrderedCount ==
  ASSUME NEW list \in Seq(I!Alert), I!OrderedIn(list),
         NEW S, IsFiniteSet(S), \A i \in DOMAIN list : list[i].id \in S
  PROVE  Cardinality(S) >= Len(list)
<1>1. /\ Len(list) \in Nat /\ DOMAIN list = 1..Len(list)
      /\ \A i \in DOMAIN list : i \in Int /\ list[i].id \in Int
  BY AlertFields
<1>2. PICK T : T = 1..Len(list)
  OBVIOUS
<1>3. PICK f : f = [i \in T |-> list[i].id]
  OBVIOUS
<1>4. \A i, j \in T : i # j => list[i].id # list[j].id
  <2>1. \A i, j \in T : i < j => list[i].id < list[j].id
    BY <1>1, <1>2 DEF I!OrderedIn
  <2> QED BY <1>1, <1>2, <2>1
<1>5. f \in Injection(T, S)
  BY <1>1, <1>2, <1>3, <1>4 DEF Injection, IsInjective
<1>6. Cardinality(T) <= Cardinality(S)
  BY <1>5, FS_Injection
<1>7. Cardinality(T) = Len(list)
  <2>1. PICK n \in Nat : n = Len(list)
    BY <1>1
  <2>2. Cardinality(1..n) = n
    BY FS_Interval
  <2> QED BY <1>2, <2>1, <2>2
<1> QED BY <1>6, <1>7, <1>1, FS_CardinalityType

(* A new alert joins the inbox; what falls out at its other end is older    *)
(* than all that stays.                                                     *)
LEMMA AppendFacts ==
  ASSUME NEW list \in Seq(I!Alert), I!OrderedIn(list), Len(list) <= MaxRecords,
         NEW a \in I!Alert, \A i \in DOMAIN list : list[i].id < a.id,
         NEW new, new = I!Capped(Append(list, a))
  PROVE  /\ new \in Seq(I!Alert) /\ Len(new) <= MaxRecords /\ I!OrderedIn(new)
         /\ \E i \in DOMAIN new : new[i] = a
         /\ \A i \in DOMAIN new : new[i] = a \/ \E j \in DOMAIN list : new[i] = list[j]
         /\ \A i \in DOMAIN list :
              \/ \E j \in DOMAIN new : new[j] = list[i]
              \/ Len(new) = MaxRecords /\ \A j \in DOMAIN new : list[i].id < new[j].id
<1>1. PICK all : all = Append(list, a)
  OBVIOUS
<1>2. /\ Len(list) \in Nat /\ DOMAIN list = 1..Len(list)
      /\ \A i \in DOMAIN list : i \in Int /\ list[i].id \in Int
  BY AlertFields
<1>3. /\ all \in Seq(I!Alert) /\ Len(all) = Len(list) + 1 /\ DOMAIN all = 1..(Len(list) + 1)
      /\ \A i \in 1..Len(list) : all[i] = list[i]
      /\ all[Len(list) + 1] = a
  BY <1>1, <1>2, AppendProperties
<1>4. \A i \in DOMAIN all : i \in Int /\ all[i].id \in Int
  BY <1>3, AlertFields
<1>5. \A i, j \in DOMAIN all : i < j => all[i].id < all[j].id
  BY <1>2, <1>3 DEF I!OrderedIn
<1>6. PICK m \in Nat \ {0} : m = MaxRecords
  BY AlertsBounds
<1>7. PICK n \in Nat : n = Len(list)
  BY <1>2
<1>8. n <= m /\ Len(all) = n + 1
  BY <1>3, <1>6, <1>7
<1>9. PICK d \in {0, 1} : /\ new \in Seq(I!Alert) /\ Len(new) = n + 1 - d
                          /\ d = 1 => n = m
                          /\ d = 0 => n < m
                          /\ DOMAIN new = 1..(n + 1 - d)
                          /\ \A i \in DOMAIN new : i + d \in 1..(n + 1) /\ new[i] = all[i + d]
  <2>1. /\ new \in Seq(I!Alert)
        /\ \E d \in Nat :
             /\ d = IF n + 1 <= m THEN 0 ELSE n + 1 - m
             /\ DOMAIN new = 1..(n + 1 - d)
             /\ \A i \in 1..(n + 1 - d) : new[i] = all[i + d]
    <3>1. all \in Seq(I!Alert)
      BY <1>3
    <3>2. /\ I!Capped(all) \in Seq(I!Alert)
          /\ \E d \in Nat :
               /\ d = IF Len(all) <= MaxRecords THEN 0 ELSE Len(all) - MaxRecords
               /\ DOMAIN I!Capped(all) = 1..(Len(all) - d)
               /\ \A i \in 1..(Len(all) - d) : I!Capped(all)[i] = all[i + d]
      BY ONLY <3>1, CappedFacts
    <3>3. new = I!Capped(all)
      BY <1>1
    <3>4. PICK d \in Nat :
               /\ d = IF Len(all) <= MaxRecords THEN 0 ELSE Len(all) - MaxRecords
               /\ DOMAIN I!Capped(all) = 1..(Len(all) - d)
               /\ \A i \in 1..(Len(all) - d) : I!Capped(all)[i] = all[i + d]
      BY <3>2
    <3>5. d = IF n + 1 <= m THEN 0 ELSE n + 1 - m
      BY <1>6, <1>8, <3>4
    <3>6. /\ DOMAIN new = 1..(n + 1 - d)
          /\ \A i \in 1..(n + 1 - d) : new[i] = all[i + d]
      BY <1>8, <3>3, <3>4
    <3> QED BY <3>2, <3>3, <3>5, <3>6
  <2>2. PICK d \in Nat : /\ d = IF n + 1 <= m THEN 0 ELSE n + 1 - m
                         /\ DOMAIN new = 1..(n + 1 - d)
                         /\ \A i \in 1..(n + 1 - d) : new[i] = all[i + d]
    BY <2>1
  <2>3. d \in {0, 1} /\ (d = 1 => n = m) /\ (d = 0 => n < m)
    BY <1>8, <2>2
  <2>4. Len(new) \in Nat /\ DOMAIN new = 1..Len(new)
    BY <2>1, AlertFields
  <2>5. n + 1 - d \in Nat
    BY <2>3
  <2>6. Len(new) = n + 1 - d
    BY <2>2, <2>4, <2>5
  <2>7. \A i \in DOMAIN new : i + d \in 1..(n + 1) /\ new[i] = all[i + d]
    BY <2>2, <2>3
  <2> QED BY <2>1, <2>2, <2>3, <2>6, <2>7
<1>10. I!OrderedIn(new)
  <2>1. ASSUME NEW i \in DOMAIN new, NEW j \in DOMAIN new, i < j
        PROVE  new[i].id < new[j].id
    <3>1. /\ i + d \in DOMAIN all /\ j + d \in DOMAIN all /\ i + d < j + d
          /\ new[i] = all[i + d] /\ new[j] = all[j + d]
      BY <1>3, <1>7, <1>9, <2>1
    <3> QED BY <1>5, <3>1
  <2> QED BY <2>1 DEF I!OrderedIn
<1>11. \E i \in DOMAIN new : new[i] = a
  <2>1. n + 1 - d \in DOMAIN new /\ n + 1 - d + d = n + 1
    BY <1>8, <1>9
  <2> QED BY <1>3, <1>7, <1>9, <2>1
<1>12. \A i \in DOMAIN new : new[i] = a \/ \E j \in DOMAIN list : new[i] = list[j]
  <2> SUFFICES ASSUME NEW i \in DOMAIN new
               PROVE  new[i] = a \/ \E j \in DOMAIN list : new[i] = list[j]
    OBVIOUS
  <2>1. PICK k \in 1..(n + 1) : k = i + d /\ new[i] = all[k]
    BY <1>9
  <2>2. k = n + 1 \/ k \in 1..n
    OBVIOUS
  <2> QED BY <1>2, <1>3, <1>7, <2>1, <2>2
<1>13. ASSUME NEW i \in DOMAIN list
       PROVE  \/ \E j \in DOMAIN new : new[j] = list[i]
              \/ Len(new) = m /\ \A j \in DOMAIN new : list[i].id < new[j].id
  <2>1. i \in 1..n /\ list[i] = all[i] /\ i \in DOMAIN all
    BY <1>2, <1>3, <1>7
  <2>2. CASE i - d >= 1
    <3>1. PICK j \in DOMAIN new : j = i - d
      BY <1>8, <1>9, <2>1, <2>2
    <3>2. j + d = i /\ new[j] = all[j + d]
      BY <1>9, <2>1, <3>1
    <3> QED BY <2>1, <3>2
  <2>3. CASE i - d < 1
    <3>1. d = 1 /\ i = 1 /\ Len(new) = m
      BY <1>8, <1>9, <2>1, <2>3
    <3>2. ASSUME NEW j \in DOMAIN new PROVE list[i].id < new[j].id
      <4>1. j + d \in DOMAIN all /\ i < j + d /\ new[j] = all[j + d]
        BY <1>3, <1>7, <1>9, <3>1
      <4> QED BY <1>5, <2>1, <4>1
    <3> QED BY <3>1, <3>2
  <2> QED BY <2>1, <1>9, <2>2, <2>3
<1>14. Len(new) <= m
  BY <1>8, <1>9
<1> QED BY <1>6, <1>9, <1>10, <1>11, <1>12, <1>13, <1>14

LEMMA CallFields ==
  ASSUME AlertsTypeOK, NEW c \in Callers
  PROVE  /\ call[c] \in CallState /\ call[c].list \in Seq(I!Alert)
         /\ call[c].file \in Files \cup {NoFile}
         /\ call[c].raises \in SUBSET I!AlertIds /\ call[c].reads \in SUBSET I!AlertIds
         /\ Len(call[c].list) <= MaxRecords
         /\ NoCall \in CallState /\ NoCall.pc = "idle" /\ NoCall.file = NoFile
         /\ NoCall.list = <<>> /\ Len(NoCall.list) <= MaxRecords
<1>1. call[c] \in CallState /\ Len(call[c].list) <= MaxRecords
  BY DEF AlertsTypeOK
<1>2. \A x \in CallState : /\ x.list \in Seq(I!Alert) /\ x.file \in Files \cup {NoFile}
                            /\ x.raises \in SUBSET I!AlertIds
                            /\ x.reads \in SUBSET I!AlertIds
  BY DEF CallState
<1>3. /\ NoCall \in CallState /\ NoCall.pc = "idle" /\ NoCall.file = NoFile
      /\ NoCall.list = <<>>
  BY DEF NoCall, CallState
<1>4. Len(<<>>) = 0 /\ 0 <= MaxRecords
  BY AlertsBounds
<1> QED BY <1>1, <1>2, <1>3, <1>4

(* What one caller does alone.                                              *)
LEMMA OneMoves ==
  ASSUME AlertsTypeOK, NEW c \in Callers, \A d \in Callers : d # c => call[d] = NoCall,
         NEW x \in CallState, Len(x.list) <= MaxRecords, call' = [call EXCEPT ![c] = x],
         x = NoCall \/ OnItsWay(c)'
  PROVE  /\ call' \in [Callers -> CallState] /\ call'[c] = x
         /\ \A d \in Callers : Len(call'[d].list) <= MaxRecords
         /\ \A d \in Callers : (call[d] = NoCall \/ OnItsWay(d))'
<1>1. call \in [Callers -> CallState] /\ \A d \in Callers : Len(call[d].list) <= MaxRecords
  BY DEF AlertsTypeOK
<1>2. call'[c] = x /\ \A d \in Callers : d # c => call'[d] = call[d]
  BY <1>1
<1> QED BY <1>1, <1>2

LEMMA ContentKept ==
  ASSUME store' = store, store = NoFile \/ files'[store] = files[store]
  PROVE  Content' = Content
  BY DEF Content

(* A step that leaves the inbox and what callers were told alone.           *)
LEMMA InboxKept ==
  ASSUME AlertsIInv, AlertsTypeOK', Content' = Content, UNCHANGED <<delivered, seen>>,
         lastId <= lastId', tmp' # NoFile => tmp' # store',
         \A c \in Callers : (call[c] = NoCall \/ OnItsWay(c))'
  PROVE  AlertsIInv'
<1>1. delivered \in SUBSET Int /\ lastId \in Int /\ lastId' \in Int
  BY AlertsBounds DEF AlertsIInv, AlertsTypeOK, I!AlertIds
<1>2. Told'
  BY <1>1 DEF AlertsIInv, Told
<1>3. DeliveredKept' /\ ReadStaysRead'
  BY DEF AlertsIInv, DeliveredKept, ReadStaysRead, Stored
<1> QED BY <1>2, <1>3 DEF AlertsIInv

LEMMA LoadKeeps ==
  ASSUME AlertsIInv, NEW c \in Callers, \A d \in Callers : d # c => call[d] = NoCall,
         UNCHANGED <<files, store, tmp, delivered, seen>>,
         lastId' \in 0..MaxAlerts, lastId <= lastId',
         NEW list \in Seq(I!Alert), Len(list) <= MaxRecords,
         NEW raises \in SUBSET I!AlertIds, NEW reads \in SUBSET I!AlertIds,
         call' = [call EXCEPT ![c] = [NoCall EXCEPT !.pc = "open", !.list = list,
                                                    !.raises = raises, !.reads = reads]],
         \/ Refreshes(list, raises, reads)' \/ Appends(list, raises, reads)'
         \/ Marks(list, raises, reads)'
  PROVE  AlertsIInv' /\ Content' = Content
<1>1. PICK x : x = [NoCall EXCEPT !.pc = "open", !.list = list,
                                  !.raises = raises, !.reads = reads]
  OBVIOUS
<1>2. /\ x.pc = "open" /\ x.list = list /\ x.raises = raises /\ x.reads = reads
      /\ x.file = NoFile /\ x \in CallState
  BY <1>1 DEF NoCall, CallState
<1>3. AlertsTypeOK /\ call' = [call EXCEPT ![c] = x] /\ call'[c] = x
  BY <1>1 DEF AlertsIInv, AlertsTypeOK
<1>4. OnItsWay(c)'
  BY <1>2, <1>3 DEF OnItsWay, Busy
<1>5. /\ call' \in [Callers -> CallState]
      /\ \A d \in Callers : Len(call'[d].list) <= MaxRecords
      /\ \A d \in Callers : (call[d] = NoCall \/ OnItsWay(d))'
  BY <1>2, <1>3, <1>4, OneMoves
<1>6. AlertsTypeOK'
  BY <1>3, <1>5 DEF AlertsTypeOK
<1>7. Content' = Content
  BY DEF Content
<1> QED BY <1>5, <1>6, <1>7, InboxKept DEF AlertsIInv

LEMMA RefreshStep ==
  ASSUME AlertsIInv, NEW c \in Callers, NEW k \in Keys \cup {NoKey}, LoadToRefresh(c, k),
         \A d \in Callers : d # c => call[d] = NoCall
  PROVE  AlertsIInv' /\ Content' = Content
<1>1. PICK list : list = Content
  OBVIOUS
<1>2. /\ list \in Seq(I!Alert) /\ Len(list) <= MaxRecords
      /\ \A i \in DOMAIN list : list[i].id \in delivered
  BY <1>1 DEF AlertsIInv, Told
<1>3. PICK S : S = I!UnreadAt(list, k)
  OBVIOUS
<1>4. S # {} /\ S \in SUBSET Nat /\ S \subseteq DOMAIN list
  BY <1>1, <1>2, <1>3, AlertFields DEF LoadToRefresh, I!HasUnread, I!UnreadAt
<1>5. PICK at : at = CHOOSE i \in S : \A j \in S : i <= j
  OBVIOUS
<1>6. at \in S
  BY <1>4, <1>5, MinExists
<1>7. I!Capped(list) = list
  BY <1>2, CappedFacts
<1>8. PICK raises : raises = {list[at].id}
  OBVIOUS
<1>9. call' = [call EXCEPT ![c] = [NoCall EXCEPT !.pc = "open", !.list = list,
                                                 !.raises = raises, !.reads = {}]]
  BY <1>1, <1>3, <1>5, <1>7, <1>8 DEF LoadToRefresh, Prepare
<1>10. UNCHANGED <<files, store, tmp, lastId, delivered, seen>>
  BY DEF LoadToRefresh
<1>11. raises \subseteq delivered /\ raises \in SUBSET I!AlertIds
  BY <1>2, <1>4, <1>6, <1>8, AlertFields
<1>12. Content' = Content
  BY <1>10 DEF Content
<1>13. Refreshes(list, raises, {})'
  BY <1>1, <1>10, <1>11, <1>12 DEF Refreshes
<1>14. lastId' \in 0..MaxAlerts /\ lastId <= lastId'
  BY <1>10, AlertsBounds DEF AlertsIInv, AlertsTypeOK
<1> QED BY <1>2, <1>9, <1>10, <1>11, <1>13, <1>14, LoadKeeps

LEMMA AppendStep ==
  ASSUME AlertsIInv, NEW c \in Callers, NEW k \in Keys \cup {NoKey}, LoadToAppend(c, k),
         \A d \in Callers : d # c => call[d] = NoCall
  PROVE  AlertsIInv' /\ Content' = Content
<1>1. PICK id : id = lastId + 1
  OBVIOUS
<1>2. /\ lastId' = id /\ UNCHANGED <<files, store, tmp, delivered, seen>>
      /\ ~I!HasUnread(Content, k) /\ lastId < MaxAlerts
  BY <1>1 DEF LoadToAppend
<1>3. lastId \in 0..MaxAlerts
  BY DEF AlertsIInv, AlertsTypeOK
<1>4. /\ id \in I!AlertIds /\ id \in 0..MaxAlerts /\ lastId < id /\ lastId <= id
      /\ delivered \in SUBSET Int
  BY <1>1, <1>2, <1>3, AlertsBounds DEF I!AlertIds, AlertsIInv, AlertsTypeOK
<1>5. PICK a : a = I!NewAlert(id, k)
  OBVIOUS
<1>6. a \in I!Alert
  BY <1>4, <1>5 DEF I!NewAlert, I!Alert
<1>7. PICK list : list = I!Capped(Append(Content, a))
  OBVIOUS
<1>8. Append(Content, a) \in Seq(I!Alert)
  BY <1>6, AppendProperties DEF AlertsIInv, Told
<1>9. list \in Seq(I!Alert) /\ Len(list) <= MaxRecords
  BY <1>7, <1>8, CappedFacts
<1>10. PICK raises : raises = {id}
  OBVIOUS
<1>11. call' = [call EXCEPT ![c] = [NoCall EXCEPT !.pc = "open", !.list = list,
                                                  !.raises = raises, !.reads = {}]]
  BY <1>1, <1>5, <1>7, <1>10 DEF LoadToAppend, Prepare
<1>12. Content' = Content
  BY <1>2 DEF Content
<1>13. \A d \in delivered : d < id
  BY <1>3, <1>4 DEF AlertsIInv, Told
<1>14. Appends(list, raises, {})'
  BY <1>2, <1>4, <1>5, <1>7, <1>10, <1>12, <1>13 DEF Appends
<1>15. raises \in SUBSET I!AlertIds
  BY <1>4, <1>10
<1> QED BY <1>2, <1>4, <1>9, <1>11, <1>14, <1>15, LoadKeeps

LEMMA MarkStep ==
  ASSUME AlertsIInv, NEW c \in Callers, NEW ids, LoadToMark(c, ids),
         \A d \in Callers : d # c => call[d] = NoCall
  PROVE  AlertsIInv' /\ Content' = Content
<1>1. PICK hit : hit = {Content[i].id : i \in {i \in DOMAIN Content : ~Content[i].read}} \cap ids
  OBVIOUS
<1>2. UNCHANGED <<files, store, tmp, lastId, delivered, seen>>
  BY DEF LoadToMark
<1>3. Content \in Seq(I!Alert) /\ Len(Content) <= MaxRecords
  BY DEF AlertsIInv, Told
<1>4. hit \in SUBSET {Content[i].id : i \in DOMAIN Content} /\ hit \in SUBSET I!AlertIds
  BY <1>1, <1>3, AlertFields
<1>5. PICK list : list = I!MarkedRead(Content, hit)
  OBVIOUS
<1>6. list \in Seq(I!Alert) /\ Len(list) <= MaxRecords
  BY <1>3, <1>5, MarkedFacts
<1>7. I!Capped(list) = list
  BY <1>6, CappedFacts
<1>8. call' = [call EXCEPT ![c] = [NoCall EXCEPT !.pc = "open", !.list = list,
                                                 !.raises = {}, !.reads = hit]]
  BY <1>1, <1>5, <1>7 DEF LoadToMark, Prepare
<1>9. Content' = Content
  BY <1>2 DEF Content
<1>10. Marks(list, {}, hit)'
  BY <1>4, <1>5, <1>9 DEF Marks
<1>11. lastId' \in 0..MaxAlerts /\ lastId <= lastId'
  BY <1>2, AlertsBounds DEF AlertsIInv, AlertsTypeOK
<1> QED BY <1>2, <1>4, <1>6, <1>8, <1>10, <1>11, LoadKeeps

LEMMA OpenStep ==
  ASSUME AlertsIInv, NEW c \in Callers, Open(c),
         \A d \in Callers : d # c => call[d] = NoCall
  PROVE  AlertsIInv' /\ Content' = Content
<1>1. /\ AlertsTypeOK /\ call[c].pc = "open" /\ OnItsWay(c)
      /\ tmp # NoFile => tmp # store
  BY CallFields DEF Open, AlertsIInv
<1>2. /\ files \in [Files -> Seq(I!Alert)] /\ store \in Files \cup {NoFile}
      /\ tmp \in Files \cup {NoFile}
  BY <1>1 DEF AlertsTypeOK
<1>3. PICK new : new = CHOOSE f \in Files : f \notin InUse
  OBVIOUS
<1>4. tmp = NoFile => new \in Files /\ new # store
  <2> SUFFICES ASSUME tmp = NoFile PROVE new \in Files /\ new # store
    OBVIOUS
  <2>1. \A d \in Callers : call[d].file = NoFile
    BY <1>1, CallFields DEF OnItsWay
  <2>2. InUse \subseteq {store, NoFile} /\ store \in InUse
    BY <2>1 DEF InUse
  <2>3. \E f \in Files : f \notin InUse
    BY <2>2, AlertsBounds
  <2>4. new \in Files /\ new \notin InUse
    BY <1>3, <2>3
  <2> QED BY <2>2, <2>4
<1>5. PICK f : f = IF tmp = NoFile THEN new ELSE tmp
  OBVIOUS
<1>6. f \in Files /\ f # store /\ f # NoFile
  BY <1>1, <1>2, <1>4, <1>5, AlertsBounds
<1>7. /\ files' = [files EXCEPT ![f] = <<>>] /\ tmp' = f
      /\ UNCHANGED <<store, lastId, delivered, seen>>
  BY <1>3, <1>5 DEF Open
<1>8. PICK x : x = [call[c] EXCEPT !.pc = "flush", !.file = f]
  OBVIOUS
<1>9. call' = [call EXCEPT ![c] = x]
  <2>1. call' = [call EXCEPT ![c].pc = "flush", ![c].file = f]
    BY <1>3, <1>5 DEF Open
  <2>2. call \in [Callers -> CallState]
    BY <1>1 DEF AlertsTypeOK
  <2> QED BY <1>8, <2>1, <2>2
<1>10. /\ x \in CallState /\ x.pc = "flush" /\ x.file = f /\ x.list = call[c].list
       /\ x.raises = call[c].raises /\ x.reads = call[c].reads
       /\ Len(x.list) <= MaxRecords
  <2>1. PICK y \in CallState : y = call[c] /\ Len(y.list) <= MaxRecords
    BY <1>1, CallFields
  <2>2. x = [y EXCEPT !.pc = "flush", !.file = f] /\ f \in Files \cup {NoFile} /\ y \in CallState
    BY <1>6, <1>8, <2>1
  <2>3. /\ x \in CallState /\ x.pc = "flush" /\ x.file = f /\ x.list = y.list
        /\ x.raises = y.raises /\ x.reads = y.reads
    BY ONLY <2>2 DEF CallState
  <2> QED BY <2>1, <2>3
<1>11. call'[c] = x
  BY <1>1, <1>9 DEF AlertsTypeOK
<1>12. files' \in [Files -> Seq(I!Alert)] /\ files'[f] = <<>>
       /\ \A g \in Files : g # f => files'[g] = files[g]
  BY <1>2, <1>6, <1>7
<1>13. Content' = Content
  BY <1>2, <1>6, <1>7, <1>12, ContentKept
<1>14. OnItsWay(c)'
  BY <1>1, <1>6, <1>7, <1>10, <1>11, <1>12, <1>13
     DEF OnItsWay, Busy, Refreshes, Appends, Marks
<1>15. /\ call' \in [Callers -> CallState]
       /\ \A d \in Callers : Len(call'[d].list) <= MaxRecords
       /\ \A d \in Callers : (call[d] = NoCall \/ OnItsWay(d))'
  BY <1>1, <1>9, <1>10, <1>14, OneMoves
<1>16. AlertsTypeOK'
  BY <1>1, <1>6, <1>7, <1>12, <1>15 DEF AlertsTypeOK
<1>17. lastId <= lastId'
  BY <1>1, <1>7, AlertsBounds DEF AlertsTypeOK
<1> QED BY <1>6, <1>7, <1>13, <1>15, <1>16, <1>17, InboxKept

LEMMA FlushStep ==
  ASSUME AlertsIInv, NEW c \in Callers, Flush(c),
         \A d \in Callers : d # c => call[d] = NoCall
  PROVE  AlertsIInv' /\ Content' = Content
<1>1. /\ AlertsTypeOK /\ call[c].pc = "flush" /\ OnItsWay(c)
      /\ tmp # NoFile => tmp # store
  BY CallFields DEF Flush, AlertsIInv
<1>2. /\ files \in [Files -> Seq(I!Alert)] /\ store \in Files \cup {NoFile}
      /\ tmp \in Files \cup {NoFile}
  BY <1>1 DEF AlertsTypeOK
<1>3. /\ tmp # NoFile /\ tmp \in Files /\ tmp # store
      /\ call[c].file = tmp /\ files[tmp] = <<>>
  BY <1>1, <1>2 DEF OnItsWay
<1>4. UNCHANGED <<store, tmp, lastId, delivered, seen>>
  BY DEF Flush
<1>5. PICK list \in Seq(I!Alert) : list = call[c].list
  BY <1>1, CallFields
<1>6. files' = [files EXCEPT ![tmp] = list]
  <2>1. PICK n \in 0..Len(<<>>) :
          files' = [files EXCEPT ![tmp] = list \o SubSeq(<<>>, Len(<<>>) - n + 1, Len(<<>>))]
    BY <1>3, <1>5 DEF Flush
  <2>2. n = 0 /\ Len(<<>>) = 0
    OBVIOUS
  <2>3. SubSeq(<<>>, 1, 0) = <<>>
    BY SubSeqEmpty
  <2>4. list \o <<>> = list
    BY ConcatEmptySeq
  <2>5. Len(<<>>) - n + 1 = 1
    BY <2>2
  <2> QED BY <2>1, <2>2, <2>3, <2>4, <2>5
<1>7. PICK x : x = [call[c] EXCEPT !.pc = "replace", !.file = NoFile]
  OBVIOUS
<1>8. call' = [call EXCEPT ![c] = x]
  BY <1>7 DEF Flush
<1>9. /\ x \in CallState /\ x.pc = "replace" /\ x.file = NoFile /\ x.list = list
      /\ x.raises = call[c].raises /\ x.reads = call[c].reads
      /\ Len(x.list) <= MaxRecords
  <2>1. PICK y \in CallState : y = call[c] /\ Len(y.list) <= MaxRecords
    BY <1>1, CallFields
  <2>2. x = [y EXCEPT !.pc = "replace", !.file = NoFile] /\ y \in CallState
    BY <1>7, <2>1
  <2>3. /\ x \in CallState /\ x.pc = "replace" /\ x.file = NoFile /\ x.list = y.list
        /\ x.raises = y.raises /\ x.reads = y.reads
    BY ONLY <2>2 DEF CallState
  <2> QED BY <1>5, <2>1, <2>3
<1>10. call'[c] = x
  BY <1>1, <1>8 DEF AlertsTypeOK
<1>11. files' \in [Files -> Seq(I!Alert)] /\ files'[tmp] = list
       /\ \A g \in Files : g # tmp => files'[g] = files[g]
  BY <1>2, <1>3, <1>6
<1>12. Content' = Content
  BY <1>2, <1>3, <1>4, <1>11, ContentKept
<1>13. OnItsWay(c)'
  <2>1. tmp' # NoFile /\ files'[tmp'] = call'[c].list
    BY <1>3, <1>4, <1>9, <1>10, <1>11
  <2>2. \/ Refreshes(call[c].list, call[c].raises, call[c].reads)'
        \/ Appends(call[c].list, call[c].raises, call[c].reads)'
        \/ Marks(call[c].list, call[c].raises, call[c].reads)'
    BY <1>1, <1>4, <1>5, <1>9, <1>10, <1>12 DEF OnItsWay, Refreshes, Appends, Marks
  <2> QED BY <1>9, <1>10, <2>1, <2>2 DEF OnItsWay, Busy
<1>14. /\ call' \in [Callers -> CallState]
       /\ \A d \in Callers : Len(call'[d].list) <= MaxRecords
       /\ \A d \in Callers : (call[d] = NoCall \/ OnItsWay(d))'
  BY <1>1, <1>8, <1>9, <1>13, OneMoves
<1>15. AlertsTypeOK'
  BY <1>1, <1>4, <1>11, <1>14 DEF AlertsTypeOK
<1>16. lastId <= lastId'
  BY <1>1, <1>4, AlertsBounds DEF AlertsTypeOK
<1> QED BY <1>3, <1>4, <1>12, <1>14, <1>15, <1>16, InboxKept

LEMMA FailStep ==
  ASSUME AlertsIInv, NEW c \in Callers, WriteFails(c),
         \A d \in Callers : d # c => call[d] = NoCall
  PROVE  AlertsIInv' /\ Content' = Content
<1>1. AlertsTypeOK /\ OnItsWay(c) /\ (tmp # NoFile => tmp # store)
  BY CallFields DEF WriteFails, AlertsIInv
<1>2. /\ files \in [Files -> Seq(I!Alert)] /\ store \in Files \cup {NoFile}
      /\ tmp \in Files \cup {NoFile} /\ call \in [Callers -> CallState]
  BY <1>1 DEF AlertsTypeOK
<1>3. /\ call' = [call EXCEPT ![c] = NoCall]
      /\ UNCHANGED <<store, tmp, lastId, delivered, seen>>
  BY DEF WriteFails
<1>4. /\ files' \in [Files -> Seq(I!Alert)]
      /\ store = NoFile \/ files'[store] = files[store]
  <2>1. CASE UNCHANGED files
    BY <1>2, <2>1
  <2>2. CASE ~UNCHANGED files
    <3>1. PICK n \in 0..(Len(call[c].list) - 1) :
            files' = [files EXCEPT ![call[c].file] = SubSeq(call[c].list, 1, n)]
      BY <2>2 DEF WriteFails
    <3>2. call[c].pc = "flush"
      BY <2>2 DEF WriteFails
    <3>3. call[c].file = tmp /\ tmp \in Files /\ tmp # store
      BY <1>1, <1>2, <3>2 DEF OnItsWay
    <3>4. PICK list \in Seq(I!Alert) : list = call[c].list
      BY <1>1, CallFields
    <3>5. PICK part : part = SubSeq(list, 1, n)
      OBVIOUS
    <3>6. part \in Seq(I!Alert)
      <4>1. Len(list) \in Nat /\ \A i \in 1..Len(list) : list[i] \in I!Alert
        BY AlertFields
      <4>2. n \in Int /\ \A i \in 1..n : list[i] \in I!Alert
        BY <3>1, <3>4, <4>1
      <4> QED BY <3>5, <4>2, SubSeqProperties
    <3>7. files' = [files EXCEPT ![tmp] = part]
      BY <3>1, <3>3, <3>4, <3>5
    <3> QED BY <1>2, <3>3, <3>6, <3>7
  <2> QED BY <2>1, <2>2
<1>5. Content' = Content
  BY <1>3, <1>4, ContentKept
<1>6. /\ call' \in [Callers -> CallState]
      /\ \A d \in Callers : Len(call'[d].list) <= MaxRecords
      /\ \A d \in Callers : (call[d] = NoCall \/ OnItsWay(d))'
  <2>1. NoCall \in CallState /\ Len(NoCall.list) <= MaxRecords
    BY <1>1, CallFields
  <2> QED BY <1>1, <1>3, <2>1, OneMoves
<1>7. AlertsTypeOK'
  BY <1>1, <1>3, <1>4, <1>6 DEF AlertsTypeOK
<1>8. lastId <= lastId'
  BY <1>1, <1>3, AlertsBounds DEF AlertsTypeOK
<1> QED BY <1>1, <1>3, <1>5, <1>6, <1>7, <1>8, InboxKept

LEMMA DieStep ==
  ASSUME AlertsIInv, CallersDie
  PROVE  AlertsIInv' /\ Content' = Content
<1>1. AlertsTypeOK /\ (tmp # NoFile => tmp # store)
  BY DEF AlertsIInv
<1>2. /\ call' = [c \in Callers |-> NoCall]
      /\ UNCHANGED <<files, store, tmp, lastId, delivered, seen>>
  BY DEF CallersDie
<1>3. ASSUME NEW c \in Callers
      PROVE  call'[c] = NoCall /\ NoCall \in CallState /\ Len(NoCall.list) <= MaxRecords
  BY <1>1, <1>2, CallFields
<1>4. /\ call' \in [Callers -> CallState]
      /\ \A d \in Callers : Len(call'[d].list) <= MaxRecords
      /\ \A d \in Callers : (call[d] = NoCall \/ OnItsWay(d))'
  BY <1>2, <1>3
<1>5. AlertsTypeOK'
  BY <1>1, <1>2, <1>4 DEF AlertsTypeOK
<1>6. Content' = Content
  BY <1>2 DEF Content
<1>7. lastId <= lastId'
  BY <1>1, <1>2, AlertsBounds DEF AlertsTypeOK
<1> QED BY <1>1, <1>2, <1>4, <1>5, <1>6, <1>7, InboxKept

(* What is on file after the rename, and what becomes of the promises.      *)
LEMMA ReplaceFacts ==
  ASSUME AlertsIInv, NEW c \in Callers, Replace(c),
         \A d \in Callers : d # c => call[d] = NoCall
  PROVE  /\ AlertsTypeOK' /\ tmp' = NoFile /\ lastId' = lastId
         /\ \A d \in Callers : (call[d] = NoCall \/ OnItsWay(d))'
         /\ Content' = call[c].list
         /\ delivered' = delivered \cup call[c].raises
         /\ seen' = seen \cup call[c].reads
         /\ \/ Refreshes(call[c].list, call[c].raises, call[c].reads)
            \/ Appends(call[c].list, call[c].raises, call[c].reads)
            \/ Marks(call[c].list, call[c].raises, call[c].reads)
<1>1. AlertsTypeOK /\ OnItsWay(c) /\ call[c].pc = "replace"
  BY CallFields DEF Replace, AlertsIInv
<1>2. tmp # NoFile /\ files[tmp] = call[c].list
  BY <1>1 DEF OnItsWay
<1>3. /\ call' = [call EXCEPT ![c] = NoCall] /\ tmp' = NoFile /\ store' = tmp
      /\ UNCHANGED <<files, lastId>>
      /\ delivered' = delivered \cup call[c].raises /\ seen' = seen \cup call[c].reads
  BY <1>2 DEF Replace
<1>4. Content' = call[c].list
  BY <1>2, <1>3 DEF Content
<1>5. /\ call' \in [Callers -> CallState]
      /\ \A d \in Callers : Len(call'[d].list) <= MaxRecords
      /\ \A d \in Callers : (call[d] = NoCall \/ OnItsWay(d))'
  <2>1. NoCall \in CallState /\ Len(NoCall.list) <= MaxRecords
    BY <1>1, CallFields
  <2> QED BY <1>1, <1>3, <2>1, OneMoves
<1>6. AlertsTypeOK'
  <2>1. call[c].raises \in SUBSET I!AlertIds /\ call[c].reads \in SUBSET I!AlertIds
    BY <1>1, CallFields
  <2> QED BY <1>1, <1>3, <1>5, <2>1 DEF AlertsTypeOK
<1> QED BY <1>1, <1>3, <1>4, <1>5, <1>6 DEF OnItsWay

LEMMA DeliveredGrows ==
  ASSUME AlertsTypeOK, AlertsTypeOK', delivered \subseteq delivered', NEW id
  PROVE  /\ IsFiniteSet({d \in delivered' : d > id})
         /\ Cardinality({d \in delivered : d > id}) >= MaxRecords
              => Cardinality({d \in delivered' : d > id}) >= MaxRecords
<1>1. PICK S : S = {d \in delivered : d > id}
  OBVIOUS
<1>2. PICK T : T = {d \in delivered' : d > id}
  OBVIOUS
<1>3. IsFiniteSet(I!AlertIds)
  BY AlertsBounds, FS_Interval DEF I!AlertIds
<1>4. T \subseteq I!AlertIds /\ S \subseteq T
  BY <1>1, <1>2 DEF AlertsTypeOK
<1>5. IsFiniteSet(T)
  BY <1>3, <1>4, FS_Subset
<1>6. Cardinality(S) <= Cardinality(T) /\ Cardinality(S) \in Nat /\ Cardinality(T) \in Nat
  BY <1>4, <1>5, FS_Subset, FS_CardinalityType
<1> QED BY <1>1, <1>2, <1>5, <1>6, AlertsBounds

LEMMA AppendLands ==
  ASSUME AlertsIInv, AlertsTypeOK', lastId' = lastId, NEW raises, NEW reads,
         Appends(Content', raises, reads),
         delivered' = delivered \cup raises, seen' = seen \cup reads
  PROVE  /\ Told' /\ DeliveredKept' /\ ReadStaysRead'
         /\ \E id \in I!AlertIds, k \in Keys \cup {NoKey} : I!RaiseNew(id, k)
<1>1. PICK new : new = Content'
  OBVIOUS
<1>2. PICK list : list = Content
  OBVIOUS
<1>3. PICK id : id = lastId
  OBVIOUS
<1>4. PICK k \in Keys \cup {NoKey} :
        /\ id \in I!AlertIds /\ ~I!HasUnread(list, k)
        /\ \A d \in delivered : d < id
        /\ new = I!Capped(Append(list, I!NewAlert(id, k)))
        /\ raises = {id} /\ reads = {}
  BY <1>1, <1>2, <1>3 DEF Appends
<1>5. PICK a : a = I!NewAlert(id, k)
  OBVIOUS
<1>6. a \in I!Alert /\ a.id = id
  BY <1>4, <1>5 DEF I!NewAlert, I!Alert
<1>7. /\ list \in Seq(I!Alert) /\ Len(list) <= MaxRecords /\ I!OrderedIn(list)
      /\ \A i \in DOMAIN list : list[i].id \in delivered
      /\ seen \subseteq delivered
  BY <1>2 DEF AlertsIInv, Told
<1>8. \A i \in DOMAIN list : list[i].id < a.id
  BY <1>4, <1>6, <1>7
<1>9. new = I!Capped(Append(list, a))
  BY <1>4, <1>5
<1>10. /\ new \in Seq(I!Alert) /\ Len(new) <= MaxRecords /\ I!OrderedIn(new)
       /\ \E i \in DOMAIN new : new[i] = a
       /\ \A i \in DOMAIN new : new[i] = a \/ \E j \in DOMAIN list : new[i] = list[j]
       /\ \A i \in DOMAIN list :
            \/ \E j \in DOMAIN new : new[j] = list[i]
            \/ Len(new) = MaxRecords /\ \A j \in DOMAIN new : list[i].id < new[j].id
  BY <1>6, <1>7, <1>8, <1>9, AppendFacts
<1>11. delivered' = delivered \cup {id} /\ seen' = seen /\ id \notin delivered
  <2>1. id \in Int
    BY <1>4, AlertsBounds DEF I!AlertIds
  <2> QED BY <1>4, <2>1
<1>12. \A i \in DOMAIN new : new[i].id \in delivered'
  BY <1>6, <1>7, <1>10, <1>11
<1>13. Told'
  <2>1. \A d \in delivered' : d <= lastId'
    <3>1. delivered \in SUBSET Int /\ id \in Int
      BY <1>4, AlertsBounds DEF AlertsIInv, AlertsTypeOK, I!AlertIds
    <3> QED BY <1>3, <1>4, <1>11, <3>1
  <2> QED BY <1>1, <1>7, <1>10, <1>11, <1>12, <2>1 DEF Told
<1>14. ReadStaysRead'
  <2>1. \A i \in DOMAIN list : list[i].id \in seen => list[i].read
    BY <1>2 DEF AlertsIInv, ReadStaysRead
  <2>2. \A i \in DOMAIN new : new[i].id \in seen => new[i].read
    BY <1>6, <1>7, <1>10, <1>11, <2>1
  <2> QED BY <1>1, <1>11, <2>2 DEF ReadStaysRead
<1>15. ASSUME NEW e \in delivered'
       PROVE  \/ \E i \in DOMAIN new : new[i].id = e
              \/ Cardinality({d \in delivered' : d > e}) >= MaxRecords
  <2>1. CASE e = id
    BY <1>6, <1>10, <2>1
  <2>2. CASE e \in delivered /\ \E i \in DOMAIN list : list[i].id = e
    <3>1. PICK i \in DOMAIN list : list[i].id = e
      BY <2>2
    <3>2. CASE \E j \in DOMAIN new : new[j] = list[i]
      BY <3>1, <3>2
    <3>3. CASE Len(new) = MaxRecords /\ \A j \in DOMAIN new : list[i].id < new[j].id
      <4>1. PICK T : T = {d \in delivered' : d > e}
        OBVIOUS
      <4>2. IsFiniteSet(T)
        BY <1>11, <4>1, DeliveredGrows DEF AlertsIInv
      <4>3. e \in Int /\ \A j \in DOMAIN new : new[j].id \in Int
        BY <1>7, <1>10, <3>1, AlertFields
      <4>4. \A j \in DOMAIN new : new[j].id \in T
        BY <1>12, <3>1, <3>3, <4>1, <4>3
      <4>5. Cardinality(T) >= Len(new)
        BY <1>10, <4>2, <4>4, OrderedCount
      <4> QED BY <3>3, <4>1, <4>5
    <3> QED BY <1>10, <3>2, <3>3
  <2>3. CASE e \in delivered /\ ~\E i \in DOMAIN list : list[i].id = e
    <3>1. Cardinality({d \in delivered : d > e}) >= MaxRecords
      BY <1>2, <2>3 DEF AlertsIInv, DeliveredKept, Stored
    <3> QED BY <1>11, <3>1, DeliveredGrows DEF AlertsIInv
  <2> QED BY <1>11, <2>1, <2>2, <2>3
<1>16. DeliveredKept'
  BY <1>1, <1>15 DEF DeliveredKept, Stored
<1>17. I!RaiseNew(id, k)
  <2>1. id > I!Newest(list)
    <3>1. /\ Len(list) \in Nat /\ DOMAIN list = 1..Len(list) /\ id \in Int /\ id >= 1
          /\ \A i \in DOMAIN list : list[i].id \in Int
      BY <1>4, <1>7, AlertFields, AlertsBounds DEF I!AlertIds
    <3>2. CASE list = <<>>
      BY <3>1, <3>2 DEF I!Newest
    <3>3. CASE list # <<>>
      <4>1. Len(list) \in DOMAIN list
        BY <1>7, <3>1, <3>3, EmptySeq
      <4>2. I!Newest(list) = list[Len(list)].id
        BY <3>3 DEF I!Newest
      <4> QED BY <1>6, <1>8, <3>1, <4>1, <4>2
    <3> QED BY <3>2, <3>3
  <2> QED BY <1>1, <1>2, <1>4, <2>1 DEF I!RaiseNew
<1> QED BY <1>4, <1>13, <1>14, <1>16, <1>17

LEMMA MarkLands ==
  ASSUME AlertsIInv, AlertsTypeOK', lastId' = lastId, NEW raises, NEW reads \in SUBSET I!AlertIds,
         Marks(Content', raises, reads),
         delivered' = delivered \cup raises, seen' = seen \cup reads
  PROVE  /\ Told' /\ DeliveredKept' /\ ReadStaysRead'
         /\ \E ids \in SUBSET I!AlertIds : I!MarkRead(ids)
<1>1. PICK new : new = Content'
  OBVIOUS
<1>2. PICK list : list = Content
  OBVIOUS
<1>3. /\ raises = {} /\ new = I!MarkedRead(list, reads)
      /\ reads \in SUBSET {list[i].id : i \in DOMAIN list}
  BY <1>1, <1>2 DEF Marks
<1>4. /\ list \in Seq(I!Alert) /\ Len(list) <= MaxRecords /\ I!OrderedIn(list)
      /\ \A i \in DOMAIN list : list[i].id \in delivered
      /\ \A d \in delivered : d <= lastId
      /\ seen \subseteq delivered
      /\ \A i \in DOMAIN list : list[i].id \in seen => list[i].read
  BY <1>2 DEF AlertsIInv, Told, ReadStaysRead
<1>5. /\ new \in Seq(I!Alert) /\ DOMAIN new = DOMAIN list /\ Len(new) = Len(list)
      /\ \A i \in DOMAIN list :
           /\ new[i].id = list[i].id
           /\ list[i].read \/ list[i].id \in reads <=> new[i].read
  BY <1>3, <1>4, MarkedFacts
<1>6. delivered' = delivered /\ reads \subseteq delivered
  BY <1>3, <1>4
<1>7. I!OrderedIn(new)
  BY <1>4, <1>5 DEF I!OrderedIn
<1>8. Told'
  BY <1>1, <1>4, <1>5, <1>6, <1>7 DEF Told
<1>9. \A i \in DOMAIN new : new[i].id \in seen \cup reads => new[i].read
  BY <1>4, <1>5
<1>10. ReadStaysRead'
  BY <1>1, <1>9 DEF ReadStaysRead
<1>11. DeliveredKept'
  <2>1. \A e : (\E i \in DOMAIN list : list[i].id = e) => \E i \in DOMAIN new : new[i].id = e
    BY <1>5
  <2>2. \A e \in delivered : \/ \E i \in DOMAIN list : list[i].id = e
                             \/ Cardinality({d \in delivered : d > e}) >= MaxRecords
    BY <1>2 DEF AlertsIInv, DeliveredKept, Stored
  <2> QED BY <1>1, <1>6, <2>1, <2>2 DEF DeliveredKept, Stored
<1>12. I!MarkRead(reads)
  BY <1>1, <1>2, <1>3 DEF I!MarkRead
<1> QED BY <1>8, <1>10, <1>11, <1>12

LEMMA ReplaceStep ==
  ASSUME AlertsIInv, NEW c \in Callers, Replace(c),
         \A d \in Callers : d # c => call[d] = NoCall
  PROVE  AlertsIInv' /\ (Content' = Content \/ I!Next)
<1>1. /\ AlertsTypeOK' /\ tmp' = NoFile /\ lastId' = lastId
      /\ \A d \in Callers : (call[d] = NoCall \/ OnItsWay(d))'
      /\ Content' = call[c].list
      /\ delivered' = delivered \cup call[c].raises
      /\ seen' = seen \cup call[c].reads
      /\ \/ Refreshes(call[c].list, call[c].raises, call[c].reads)
         \/ Appends(call[c].list, call[c].raises, call[c].reads)
         \/ Marks(call[c].list, call[c].raises, call[c].reads)
  BY ReplaceFacts
<1>2. CASE Refreshes(call[c].list, call[c].raises, call[c].reads)
  <2>1. Content' = Content /\ UNCHANGED <<delivered, seen>>
    BY <1>1, <1>2 DEF Refreshes
  <2>2. lastId <= lastId'
    BY <1>1, AlertsBounds DEF AlertsIInv, AlertsTypeOK
  <2> QED BY <1>1, <2>1, <2>2, InboxKept
<1>3. CASE Appends(call[c].list, call[c].raises, call[c].reads)
  <2>1. Appends(Content', call[c].raises, call[c].reads)
    BY <1>1, <1>3
  <2>2. PICK raises : raises = call[c].raises
    OBVIOUS
  <2>3. PICK reads : reads = call[c].reads
    OBVIOUS
  <2>4. /\ Told' /\ DeliveredKept' /\ ReadStaysRead'
        /\ \E id \in I!AlertIds, k \in Keys \cup {NoKey} : I!RaiseNew(id, k)
    BY <1>1, <2>1, <2>2, <2>3, AppendLands
  <2> QED BY <1>1, <2>4 DEF AlertsIInv, I!Next
<1>4. CASE Marks(call[c].list, call[c].raises, call[c].reads)
  <2>1. Marks(Content', call[c].raises, call[c].reads)
    BY <1>1, <1>4
  <2>2. PICK raises : raises = call[c].raises
    OBVIOUS
  <2>3. PICK reads \in SUBSET I!AlertIds : reads = call[c].reads
    BY CallFields DEF AlertsIInv
  <2>4. /\ Told' /\ DeliveredKept' /\ ReadStaysRead'
        /\ \E ids \in SUBSET I!AlertIds : I!MarkRead(ids)
    BY <1>1, <2>1, <2>2, <2>3, MarkLands
  <2> QED BY <1>1, <2>4 DEF AlertsIInv, I!Next
<1> QED BY <1>1, <1>2, <1>3, <1>4

LEMMA AlertsStart == AlertsInit => AlertsIInv /\ I!Init
<1> SUFFICES ASSUME AlertsInit PROVE AlertsIInv /\ I!Init
  OBVIOUS
<1>1. /\ files = [f \in Files |-> <<>>] /\ store = NoFile /\ tmp = NoFile
      /\ call = [c \in Callers |-> NoCall] /\ lastId = 0
      /\ delivered = {} /\ seen = {}
  BY DEF AlertsInit
<1>2. Content = <<>>
  BY <1>1 DEF Content
<1>3. /\ NoCall \in CallState /\ NoCall.list = <<>>
  BY DEF NoCall, CallState
<1>4. AlertsTypeOK
  BY <1>1, <1>3, AlertsBounds DEF AlertsTypeOK
<1>5. Told /\ DeliveredKept /\ ReadStaysRead
  BY <1>1, <1>2, AlertsBounds DEF Told, DeliveredKept, ReadStaysRead, I!OrderedIn
<1>6. \A c \in Callers : call[c] = NoCall
  BY <1>1
<1> QED BY <1>1, <1>2, <1>4, <1>5, <1>6 DEF AlertsIInv, I!Init

(* Whoever moves is alone: it is under way, or about to be.                 *)
LEMMA MoverIsAlone ==
  ASSUME AlertsIInv, OneAtATime, OneAtATime', NEW c \in Callers,
         \/ Busy(c)
         \/ Busy(c)' /\ \A d \in Callers : d # c => call'[d] = call[d]
  PROVE  \A d \in Callers : d # c => call[d] = NoCall
<1>1. \A d \in Callers : call[d] = NoCall \/ Busy(d)
  BY DEF AlertsIInv, OnItsWay
<1> QED BY <1>1 DEF OneAtATime, Busy

LEMMA PrepareMoves ==
  ASSUME AlertsIInv, NEW c \in Callers, NEW list, NEW raises, NEW reads,
         call' = [call EXCEPT ![c] = [NoCall EXCEPT !.pc = "open", !.list = list,
                                                    !.raises = raises, !.reads = reads]]
  PROVE  Busy(c)' /\ \A d \in Callers : d # c => call'[d] = call[d]
<1>1. PICK x : x = [NoCall EXCEPT !.pc = "open", !.list = list,
                                  !.raises = raises, !.reads = reads]
  OBVIOUS
<1>2. x.pc = "open"
  BY <1>1 DEF NoCall
<1>3. call' = [call EXCEPT ![c] = x] /\ call \in [Callers -> CallState]
  BY <1>1 DEF AlertsIInv, AlertsTypeOK
<1> QED BY <1>2, <1>3 DEF Busy

LEMMA AlertsStep ==
  ASSUME AlertsIInv, [AlertsNext]_alertsVars, OneAtATime, OneAtATime'
  PROVE  AlertsIInv' /\ (Content' = Content \/ I!Next)
<1>1. ASSUME NEW c \in Callers, NEW k \in Keys \cup {NoKey}, LoadToRefresh(c, k)
      PROVE  AlertsIInv' /\ Content' = Content
  <2>1. PICK list, raises :
          call' = [call EXCEPT ![c] = [NoCall EXCEPT !.pc = "open", !.list = list,
                                                     !.raises = raises, !.reads = {}]]
    BY <1>1 DEF LoadToRefresh, Prepare
  <2>2. Busy(c)' /\ \A d \in Callers : d # c => call'[d] = call[d]
    BY <2>1, PrepareMoves
  <2>3. \A d \in Callers : d # c => call[d] = NoCall
    BY <2>2, MoverIsAlone
  <2> QED BY <1>1, <2>3, RefreshStep
<1>2. ASSUME NEW c \in Callers, NEW k \in Keys \cup {NoKey}, LoadToAppend(c, k)
      PROVE  AlertsIInv' /\ Content' = Content
  <2>1. PICK list, raises :
          call' = [call EXCEPT ![c] = [NoCall EXCEPT !.pc = "open", !.list = list,
                                                     !.raises = raises, !.reads = {}]]
    BY <1>2 DEF LoadToAppend, Prepare
  <2>2. Busy(c)' /\ \A d \in Callers : d # c => call'[d] = call[d]
    BY <2>1, PrepareMoves
  <2>3. \A d \in Callers : d # c => call[d] = NoCall
    BY <2>2, MoverIsAlone
  <2> QED BY <1>2, <2>3, AppendStep
<1>3. ASSUME NEW c \in Callers, NEW ids, LoadToMark(c, ids)
      PROVE  AlertsIInv' /\ Content' = Content
  <2>1. PICK list, reads :
          call' = [call EXCEPT ![c] = [NoCall EXCEPT !.pc = "open", !.list = list,
                                                     !.raises = {}, !.reads = reads]]
    BY <1>3 DEF LoadToMark, Prepare
  <2>2. Busy(c)' /\ \A d \in Callers : d # c => call'[d] = call[d]
    BY <2>1, PrepareMoves
  <2>3. \A d \in Callers : d # c => call[d] = NoCall
    BY <2>2, MoverIsAlone
  <2> QED BY <1>3, <2>3, MarkStep
<1>4. ASSUME NEW c \in Callers, Rewrite(c)
      PROVE  AlertsIInv' /\ (Content' = Content \/ I!Next)
  <2>1. Busy(c)
    BY <1>4 DEF Rewrite, Open, Flush, Replace, WriteFails, Busy
  <2>2. \A d \in Callers : d # c => call[d] = NoCall
    BY <2>1, MoverIsAlone
  <2> QED BY <1>4, <2>2, OpenStep, FlushStep, ReplaceStep, FailStep DEF Rewrite
<1>5. CASE CallersDie
  BY <1>5, DieStep
<1>6. CASE UNCHANGED alertsVars
  <2>1. UNCHANGED <<files, store, tmp, call, lastId, delivered, seen>>
    BY <1>6 DEF alertsVars
  <2>2. Content' = Content
    BY <2>1 DEF Content
  <2>3. AlertsTypeOK' /\ lastId <= lastId' /\ (tmp' # NoFile => tmp' # store')
    BY <2>1, AlertsBounds DEF AlertsIInv, AlertsTypeOK
  <2>4. \A c \in Callers : (call[c] = NoCall \/ OnItsWay(c))'
    BY <2>1, <2>2 DEF AlertsIInv, OnItsWay, Busy, Refreshes, Appends, Marks
  <2> QED BY <2>1, <2>2, <2>3, <2>4, InboxKept
<1> QED BY <1>1, <1>2, <1>3, <1>4, <1>5, <1>6 DEF AlertsNext, RaiseAlert

(* As long as no two callers overlap, the file is what they were told.      *)
THEOREM AlertsInvariant == AlertsSpec /\ []OneAtATime => []AlertsIInv
<1>1. AlertsInit => AlertsIInv
  BY AlertsStart
<1>2. AlertsIInv /\ OneAtATime /\ OneAtATime' /\ [AlertsNext]_alertsVars => AlertsIInv'
  BY AlertsStep
<1> QED BY <1>1, <1>2, PTL DEF AlertsSpec

(* A delivered alert is on file until the cap has pushed it out and a read  *)
(* one stays read, through crashes and failed writes.                       *)
THEOREM ReportsAreTrue == AlertsSpec /\ []OneAtATime => []ReportsHold
<1>1. AlertsIInv => ReportsHold
  BY DEF AlertsIInv, ReportsHold
<1> QED BY <1>1, AlertsInvariant, PTL

(* File operations, crashes and failed writes included, alerts.py implements*)
(* the inbox: what the rename puts in place is one call of it, or nothing.  *)
THEOREM AlertsRefineInbox == AlertsSpec /\ []OneAtATime => ImplementsInbox
<1>1. AlertsInit => I!Init
  BY AlertsStart
<1>2. /\ AlertsIInv /\ OneAtATime /\ OneAtATime' /\ [AlertsNext]_alertsVars
      => [I!Next]_Content
  BY AlertsStep
<1> QED BY <1>1, <1>2, AlertsInvariant, PTL DEF AlertsSpec, ImplementsInbox, I!Spec

-----------------------------------------------------------------------------
(* The watchdog and the server it revives (Watchdog).                       *)

-----------------------------------------------------------------------------
(* Types.                                                                    *)

(* A counter held at its cap.                                                *)
LEMMA CappedType == ASSUME NEW n \in Nat, NEW cap \in Nat
                    PROVE  Capped(n, cap) \in 0..cap /\ Capped(n, cap) <= n
  BY DEF Capped

(* Zero is a count in every range, and the blank records are well typed.     *)
LEMMA Zero == 0 \in 0..DownConfirmations /\ 0 \in 0..MaxTries /\ 0 \in 0..MaxRestarts
  BY WatchdogAssumption

LEMMA BlankType == Blank \in State /\ Asleep \in Look
  BY Zero, ZenonT(60) DEF State, Blank, Asleep, Look

(* What a look makes of a copy of the state.                                 *)
LEMMA MemoryTypes ==
  ASSUME NEW m \in State
  PROVE  /\ SeenUp(m) \in State /\ Supervise(m) \in State /\ Idle(m) \in State
         /\ SeenUp(m).tries = 0 /\ ~SeenUp(m).gaveUp /\ SeenUp(m).cool = m.cool
         /\ Supervise(m).tries = m.tries /\ Supervise(m).gaveUp = m.gaveUp
         /\ Supervise(m).cool = m.cool
         /\ Idle(m).tries = m.tries /\ Idle(m).gaveUp = m.gaveUp /\ Idle(m).cool = m.cool
<1>1. SeenUp(m) \in State /\ Supervise(m) \in State
  BY Zero, ZenonT(60) DEF State, SeenUp, Supervise
<1>2. Capped(m.down + 1, DownConfirmations) \in 0..DownConfirmations
  <2>1. m.down + 1 \in Nat /\ DownConfirmations \in Nat
    BY WatchdogAssumption DEF State
  <2> QED
    BY <2>1, CappedType
<1>3. Idle(m) \in State
  BY <1>2, ZenonT(60) DEF Idle, Supervise, State
<1>4. SeenUp(m).tries = 0 /\ ~SeenUp(m).gaveUp /\ SeenUp(m).cool = m.cool
  BY DEF SeenUp, State
<1>5. /\ Supervise(m).tries = m.tries /\ Supervise(m).gaveUp = m.gaveUp
      /\ Supervise(m).cool = m.cool
  BY DEF Supervise, State
<1>6. Idle(m).tries = m.tries /\ Idle(m).gaveUp = m.gaveUp /\ Idle(m).cool = m.cool
  BY DEF Idle, Supervise, State
<1> QED
  BY <1>1, <1>3, <1>4, <1>5, <1>6

(* A copy with one field changed, and what the tally reads of it.             *)
LEMMA FlagTypes ==
  ASSUME NEW m \in State
  PROVE  /\ [m EXCEPT !.disabled = TRUE] \in State /\ [m EXCEPT !.counted = TRUE] \in State
  BY ZenonT(60) DEF State

LEMMA OrphanType ==
  ASSUME NEW m \in State, NEW b \in BOOLEAN
  PROVE  LET q == [m EXCEPT !.orphan = b]
         IN q \in State /\ q.tries = m.tries /\ q.gaveUp = m.gaveUp /\ q.cool = m.cool
<1>1. [m EXCEPT !.orphan = b] \in State
  BY ZenonT(60) DEF State
<1> QED
  BY <1>1 DEF State

LEMMA GaveUpType ==
  ASSUME NEW m \in State, NEW b \in BOOLEAN
  PROVE  LET q == [m EXCEPT !.gaveUp = b]
         IN q \in State /\ q.tries = m.tries /\ q.gaveUp = b /\ q.cool = m.cool
<1>1. [m EXCEPT !.gaveUp = b] \in State
  BY ZenonT(60) DEF State
<1> QED
  BY <1>1 DEF State

LEMMA CoolType ==
  ASSUME NEW m \in State, NEW b \in BOOLEAN
  PROVE  LET q == [m EXCEPT !.cool = b]
         IN q \in State /\ q.tries = m.tries /\ q.gaveUp = m.gaveUp /\ q.cool = b
<1>1. [m EXCEPT !.cool = b] \in State
  BY ZenonT(60) DEF State
<1> QED
  BY <1>1 DEF State

LEMMA TryType ==
  ASSUME NEW m \in State, NEW n \in 0..MaxTries
  PROVE  LET q == [m EXCEPT !.cool = TRUE, !.tries = n]
         IN q \in State /\ q.tries = n /\ q.gaveUp = m.gaveUp /\ q.cool
<1>1. [m EXCEPT !.cool = TRUE, !.tries = n] \in State
  BY ZenonT(60) DEF State
<1>2. [m EXCEPT !.cool = TRUE, !.tries = n].cool
  BY ZenonT(60) DEF State
<1> QED
  BY <1>1, <1>2 DEF State

(* A process that ends changes only what the watchdog knows of it.           *)
LEMMA GoneFacts ==
  ASSUME wd \in Look, JobGone \/ ForeignGone
  PROVE  /\ wd' \in Look
         /\ wd'.pc = wd.pc /\ wd'.mem = wd.mem /\ wd'.counted = wd.counted
         /\ wd.listener = "none" <=> wd'.listener = "none"
         /\ wd.listener = "gone" => wd'.listener = "gone"
  BY DEF JobGone, ForeignGone, Look

-----------------------------------------------------------------------------
(* What each step of the watchdog makes of its own record.                   *)

LEMMA CooldownFacts ==
  ASSUME wd \in Look, disk \in State, CooldownEnds
  PROVE  /\ wd' \in Look /\ wd'.pc = wd.pc /\ wd'.listener = wd.listener
         /\ wd'.mem.tries = wd.mem.tries /\ wd'.mem.gaveUp = wd.mem.gaveUp /\ ~wd'.mem.cool
         /\ disk' \in State /\ disk'.tries = disk.tries /\ disk'.gaveUp = disk.gaveUp
         /\ ~disk'.cool
<1>1. wd.mem \in State
  BY DEF Look
<1>2. PICK q \in State : /\ q = [wd.mem EXCEPT !.cool = FALSE] /\ q.tries = wd.mem.tries
                         /\ q.gaveUp = wd.mem.gaveUp /\ q.cool = FALSE
  BY <1>1, CoolType
<1>3. wd' = [wd EXCEPT !.mem = q]
  BY <1>2 DEF CooldownEnds, Look
<1>4. wd' \in Look /\ wd'.pc = wd.pc /\ wd'.listener = wd.listener /\ wd'.mem = q
  BY <1>3 DEF Look
<1>5. disk' = [disk EXCEPT !.cool = FALSE]
  BY DEF CooldownEnds
<1>6. disk' \in State /\ disk'.tries = disk.tries /\ disk'.gaveUp = disk.gaveUp /\ disk'.cool = FALSE
  BY <1>5, CoolType
<1> QED
  BY <1>2, <1>4, <1>6

LEMMA WakeFacts ==
  ASSUME disk \in State, lines \in 0..MaxRestarts, Wake
  PROVE  /\ wd' \in Look /\ wd'.pc \in {"probe", "disable", "save"} /\ wd'.listener = "none"
         /\ wd'.mem = [disk EXCEPT !.counted = TRUE]
<1>1. PICK q \in State : q = [disk EXCEPT !.counted = TRUE]
  BY FlagTypes
<1>2. PICK p \in {"probe", "disable", "save"} :
        wd' = [Asleep EXCEPT !.pc = p, !.mem = q, !.counted = lines]
  BY <1>1 DEF Wake
<1>3. wd' \in Look /\ wd'.pc = p /\ wd'.listener = "none" /\ wd'.mem = q
  BY <1>2 DEF Asleep, Look
<1> QED
  BY <1>1, <1>3

LEMMA DisableFacts ==
  ASSUME wd \in Look, Disable \/ DisableFails
  PROVE  /\ wd' \in Look /\ wd'.pc = "save"
         /\ wd'.mem = wd.mem \/ wd'.mem = [wd.mem EXCEPT !.disabled = TRUE]
<1>1. wd.mem \in State
  BY DEF Look
<1>2. PICK q \in State : q = [wd.mem EXCEPT !.disabled = TRUE]
  BY <1>1, FlagTypes
<1>3. wd' = [wd EXCEPT !.pc = "save"] \/ wd' = [wd EXCEPT !.pc = "save", !.mem = q]
  BY <1>2 DEF Disable, DisableFails, Look
<1>4. wd' \in Look /\ wd'.pc = "save" /\ wd'.mem \in {wd.mem, q}
  BY <1>3 DEF Look
<1> QED
  BY <1>2, <1>4

LEMMA AskFacts ==
  ASSUME wd \in Look, Probe \/ AskOwner
  PROVE  /\ wd' \in Look /\ wd'.pc \in {"owner", "job", "listener"}
         /\ wd'.mem = wd.mem /\ wd'.listener = wd.listener
  BY DEF Probe, AskOwner, Look

LEMMA ServedFacts ==
  ASSUME wd \in Look, FindServed
  PROVE  /\ wd' \in Look /\ wd'.pc = "save"
         /\ wd'.mem.tries = 0 /\ ~wd'.mem.gaveUp /\ wd'.mem.cool = wd.mem.cool
<1>1. PICK who \in {"none", "job", "foreign"} :
        wd' = [wd EXCEPT !.pc = "save", !.mem = SeenUp(Recovered(wd.mem, who))]
  BY DEF FindServed
<1>2. wd.mem \in State
  BY DEF Look
<1>3. PICK b \in BOOLEAN : b = (wd.mem.orphan /\ ~Owned(who))
  OBVIOUS
<1>4. Recovered(wd.mem, who) = [wd.mem EXCEPT !.orphan = b]
  BY <1>3 DEF Recovered
<1>5. PICK m \in State : m = Recovered(wd.mem, who) /\ m.cool = wd.mem.cool
  BY <1>2, <1>4, OrphanType
<1>6. PICK q \in State : q = SeenUp(m) /\ q.tries = 0 /\ ~q.gaveUp /\ q.cool = m.cool
  BY MemoryTypes
<1>7. wd' = [wd EXCEPT !.pc = "save", !.mem = q]
  BY <1>1, <1>5, <1>6
<1>8. wd' \in Look /\ wd'.pc = "save" /\ wd'.mem = q
  BY <1>7 DEF Look
<1> QED
  BY <1>5, <1>6, <1>8

LEMMA OrphanFacts ==
  ASSUME wd \in Look, FindOrphan \/ AdoptFails
  PROVE  /\ wd' \in Look
         /\ wd'.pc \in {"save", "adopt"} /\ (wd'.pc = "adopt" => ~wd.mem.cool)
         /\ wd'.mem.tries = wd.mem.tries /\ wd'.mem.gaveUp = wd.mem.gaveUp
         /\ wd'.mem.cool = wd.mem.cool
<1>1. wd.mem \in State
  BY DEF Look
<1>2. PICK q \in State : /\ q = [wd.mem EXCEPT !.orphan = TRUE] /\ q.tries = wd.mem.tries
                         /\ q.gaveUp = wd.mem.gaveUp /\ q.cool = wd.mem.cool
  BY <1>1, OrphanType
<1>3. \/ wd' = [wd EXCEPT !.pc = "save"]
      \/ wd' = [wd EXCEPT !.pc = "save", !.mem = q]
      \/ /\ ~wd.mem.cool
         /\ \E who \in {"job", "foreign"} : wd' = [wd EXCEPT !.pc = "adopt", !.listener = who]
  BY <1>2 DEF FindOrphan, AdoptFails, Look
<1>4. /\ wd' \in Look /\ wd'.mem \in {wd.mem, q}
      /\ wd'.pc \in {"save", "adopt"} /\ (wd'.pc = "adopt" => ~wd.mem.cool)
  <2>1. CASE wd' = [wd EXCEPT !.pc = "save"] \/ wd' = [wd EXCEPT !.pc = "save", !.mem = q]
    BY <2>1 DEF Look
  <2>2. CASE ~wd.mem.cool /\ \E who \in {"job", "foreign"} :
                                wd' = [wd EXCEPT !.pc = "adopt", !.listener = who]
    <3>1. PICK who \in {"job", "foreign"} : wd' = [wd EXCEPT !.pc = "adopt", !.listener = who]
      BY <2>2
    <3>2. wd' \in Look /\ wd'.mem = wd.mem /\ wd'.pc = "adopt"
      BY <3>1 DEF Look
    <3> QED
      BY <2>2, <3>2
  <2> QED
    BY <1>3, <2>1, <2>2
<1> QED
  BY <1>2, <1>4

LEMMA AdoptFacts ==
  ASSUME wd \in Look, Adopt
  PROVE  /\ wd' \in Look /\ wd.pc = "adopt" /\ wd'.pc = "kick" /\ wd'.listener = "gone"
         /\ wd'.mem.tries = wd.mem.tries /\ wd'.mem.gaveUp = wd.mem.gaveUp /\ wd'.mem.cool
<1>1. wd.mem \in State
  BY DEF Look
<1>2. PICK q \in State : /\ q = [wd.mem EXCEPT !.cool = TRUE] /\ q.tries = wd.mem.tries
                         /\ q.gaveUp = wd.mem.gaveUp /\ q.cool = TRUE
  BY <1>1, CoolType
<1>3. wd' = [wd EXCEPT !.pc = "kick", !.mem = q, !.listener = "gone"]
  BY <1>2 DEF Adopt, Look
<1>4. wd' \in Look /\ wd'.pc = "kick" /\ wd'.listener = "gone" /\ wd'.mem = q
  BY <1>3 DEF Look
<1> QED
  BY <1>2, <1>4 DEF Adopt

LEMMA DownFacts ==
  ASSUME wd \in Look, FindUnloaded \/ FindStarting
  PROVE  /\ wd' \in Look /\ wd'.pc = "save" /\ wd'.mem \in {wd.mem, Supervise(wd.mem)}
<1>1. wd.mem \in State
  BY DEF Look
<1>2. PICK q \in State : q = Supervise(wd.mem)
  BY <1>1, MemoryTypes
<1>3. wd' = [wd EXCEPT !.pc = "save"] \/ wd' = [wd EXCEPT !.pc = "save", !.mem = q]
  BY <1>2 DEF FindUnloaded, FindStarting
<1>4. wd' \in Look /\ wd'.pc = "save" /\ wd'.mem \in {wd.mem, q}
  BY <1>3 DEF Look
<1> QED
  BY <1>2, <1>4

(* The heart of the matter: one more try, or the verdict to give up.         *)
LEMMA DormantFacts ==
  ASSUME wd \in Look, FindDormant
  PROVE  /\ wd' \in Look /\ wd'.listener = wd.listener
         /\ \/ /\ wd'.pc = "kick" /\ MayRevive(wd.mem)
               /\ wd'.mem.tries = wd.mem.tries + 1 /\ wd'.mem.cool
               /\ wd'.mem.gaveUp = wd.mem.gaveUp
            \/ /\ wd'.pc = "save"
               /\ wd'.mem.tries = wd.mem.tries /\ wd'.mem.cool = wd.mem.cool
               /\ wd'.mem.gaveUp => wd.mem.gaveUp \/ GivenUp(wd.mem)
<1>1. wd.mem \in State
  BY DEF Look
<1>2. PICK m \in State : /\ m = Idle(wd.mem) /\ m.tries = wd.mem.tries
                         /\ m.gaveUp = wd.mem.gaveUp /\ m.cool = wd.mem.cool
  BY <1>1, MemoryTypes
<1>3. CASE MayRevive(wd.mem)
  <2>1. PICK n \in 0..MaxTries : n = wd.mem.tries + 1
    <3>1. wd.mem.tries \in 0..MaxTries /\ ~(wd.mem.tries >= MaxTries)
      BY <1>1, <1>3 DEF MayRevive, GivenUp, State
    <3> QED
      BY <3>1, WatchdogAssumption
  <2>2. PICK q \in State : /\ q = [m EXCEPT !.cool = TRUE, !.tries = n]
                           /\ q.tries = n /\ q.gaveUp = m.gaveUp /\ q.cool
    BY TryType
  <2>3. Retried(wd.mem) = [m EXCEPT !.cool = TRUE, !.tries = m.tries + 1]
    BY <1>2 DEF Retried
  <2>4. wd' = [wd EXCEPT !.pc = "kick", !.mem = q]
    BY <1>2, <1>3, <2>1, <2>2, <2>3 DEF FindDormant
  <2>5. wd' \in Look /\ wd'.pc = "kick" /\ wd'.listener = wd.listener /\ wd'.mem = q
    BY <2>4 DEF Look
  <2> QED
    BY <1>2, <1>3, <2>1, <2>2, <2>5
<1>4. CASE ~MayRevive(wd.mem)
  <2>1. PICK b \in BOOLEAN : b = (m.gaveUp \/ GivenUp(wd.mem))
    OBVIOUS
  <2>2. PICK q \in State : /\ q = [m EXCEPT !.gaveUp = b]
                           /\ q.tries = m.tries /\ q.gaveUp = b /\ q.cool = m.cool
    BY GaveUpType
  <2>3. LeftAlone(wd.mem) = [m EXCEPT !.gaveUp = b]
    BY <1>2, <2>1, Zenon DEF LeftAlone
  <2>4. wd' = [wd EXCEPT !.pc = "save", !.mem = q]
    BY <1>4, <2>2, <2>3 DEF FindDormant
  <2>5. wd' \in Look /\ wd'.pc = "save" /\ wd'.listener = wd.listener /\ wd'.mem = q
    BY <2>4 DEF Look
  <2> QED
    BY <1>2, <2>1, <2>2, <2>5
<1> QED
  BY <1>3, <1>4

LEMMA KickFacts ==
  ASSUME wd \in Look, Kick \/ KickFails
  PROVE  /\ wd' \in Look /\ wd'.pc = "save" /\ wd.pc = "kick" /\ Attempted
         /\ wd'.mem.tries = wd.mem.tries /\ wd'.mem.gaveUp = wd.mem.gaveUp
         /\ wd'.mem.cool = wd.mem.cool
<1>1. wd.mem \in State
  BY DEF Look
<1>2. PICK b \in BOOLEAN : b = (wd.mem.orphan /\ wd.listener # "gone")
  OBVIOUS
<1>3. PICK q \in State : /\ q = [wd.mem EXCEPT !.orphan = b] /\ q.tries = wd.mem.tries
                         /\ q.gaveUp = wd.mem.gaveUp /\ q.cool = wd.mem.cool
  BY <1>1, OrphanType
<1>4. wd' = [wd EXCEPT !.pc = "save"] \/ wd' = [wd EXCEPT !.pc = "save", !.mem = q]
  BY <1>2, <1>3 DEF Kick, KickFails, Look
<1>5. wd' \in Look /\ wd'.pc = "save" /\ wd'.mem \in {wd.mem, q}
  BY <1>4 DEF Look
<1>6. wd.pc = "kick" /\ Attempted
  BY DEF Kick, KickFails
<1> QED
  BY <1>3, <1>5, <1>6

-----------------------------------------------------------------------------
(* Each action's own variables by the facts above, the rest unchanged.       *)
LEMMA TypeStep == WatchdogTypeOK /\ [Next]_vars => WatchdogTypeOK'
<1> SUFFICES ASSUME WatchdogTypeOK, [Next]_vars PROVE WatchdogTypeOK'
  OBVIOUS
<1> USE WatchdogAssumption DEF WatchdogTypeOK, world, history, NoFault
<1>1. CASE World
  <2>1. Capped(lines + 1, MaxRestarts) \in 0..MaxRestarts
    BY CappedType
  <2>2. CASE Respawn \/ PassGuard \/ LoadByHand \/ Overspend \/ ForeignStarts \/ ForeignBinds
    BY <2>1, <2>2 DEF Respawn, PassGuard, LoadByHand, Overspend, ForeignStarts, ForeignBinds,
                      Jobs, Running, PortOpen
  <2>3. CASE StopAtGuard \/ JobFails \/ JobStops \/ UnloadByHand \/ ForeignEnds
    BY <2>3, GoneFacts DEF StopAtGuard, JobFails, JobStops, UnloadByHand, ForeignEnds, Jobs, Running
  <2>4. CASE Bind
    BY <2>4, GoneFacts DEF Bind, Jobs, Running
  <2> QED
    BY <1>1, <2>2, <2>3, <2>4 DEF World
<1>2. CASE RollOver
  BY <1>2 DEF RollOver
<1>3. CASE CooldownEnds
  BY <1>3, CooldownFacts DEF CooldownEnds
<1>4. CASE Wake
  BY <1>4, WakeFacts DEF Wake
<1>5. CASE Disable \/ DisableFails
  BY <1>5, DisableFacts DEF Disable, DisableFails, Fault, Jobs
<1>6. CASE Probe \/ AskOwner
  BY <1>6, AskFacts DEF Probe, AskOwner, Reads, Fault
<1>7. CASE FindServed
  <2>1. 0 \in 0..MaxTries + 1
    OBVIOUS
  <2>2. faults' \in 0..MaxFaults /\ kicks' = 0
    BY <1>7 DEF FindServed, Finds, Fault
  <2> QED
    BY <1>7, <2>1, <2>2, ServedFacts DEF FindServed
<1>8. CASE FindOrphan \/ AdoptFails
  BY <1>8, OrphanFacts DEF FindOrphan, AdoptFails, Finds, Fault
<1>9. CASE Adopt
  BY <1>9, AdoptFacts DEF Adopt, Jobs
<1>10. CASE FindUnloaded \/ FindStarting
  BY <1>10, DownFacts DEF FindUnloaded, FindStarting, Reads, Fault
<1>11. CASE FindDormant
  BY <1>11, DormantFacts DEF FindDormant, Reads, Fault
<1>12. CASE Kick \/ KickFails
  <2>1. Attempted => kicks' \in 0..MaxTries + 1 /\ recent' \in 0..2 /\ lost' = lost
    <3>1. MaxTries + 1 \in Nat /\ kicks + 1 \in Nat /\ recent + 1 \in Nat /\ 2 \in Nat
      OBVIOUS
    <3> QED
      BY <3>1, CappedType DEF Attempted
  <2> QED
    BY <1>12, <2>1, KickFacts DEF Kick, KickFails, Fault, Jobs, Running
<1>13. CASE Save
  BY <1>13, BlankType DEF Save, Look
<1>14. CASE Unsaved
  <2>1. lines + wd.counted \in Nat
    BY DEF Look
  <2>2. Capped(lines + wd.counted, MaxRestarts) \in 0..MaxRestarts
    BY <2>1, CappedType
  <2> QED
    BY <1>14, <2>2, BlankType DEF Unsaved, Fault
<1>15. CASE UNCHANGED vars
  BY <1>15 DEF vars
<1> QED
  BY <1>1, <1>2, <1>3, <1>4, <1>5, <1>6, <1>7, <1>8, <1>9, <1>10, <1>11, <1>12, <1>13, <1>14,
     <1>15 DEF Next, WatchStep

-----------------------------------------------------------------------------
(* The tally.  As long as nothing was lost, the tries on record are the      *)
(* kickstarts since the port was last seen served, but for the one that has   *)
(* been decided and not made; a cooldown is on record while one runs.        *)

OnRecord(m, k) ==
    /\ k = m.tries
    /\ m.gaveUp => m.tries = MaxTries
    /\ recent = 1 => m.cool

Deciding == {"disable", "probe", "owner", "listener", "job"}

TallyInv ==
    /\ wd.pc = "asleep" => ~wd.mem.gaveUp
    /\ wd.pc \in Deciding => wd.listener = "none"
    /\ wd.pc = "kick" => wd.listener \in {"none", "gone"}
    /\ wd.pc = "adopt" => ~wd.mem.cool
    /\ ~lost =>
         /\ recent <= 1
         /\ wd.pc = "asleep" => OnRecord(disk, kicks)
         /\ wd.pc \notin {"asleep", "kick"} => OnRecord(wd.mem, kicks)
         /\ wd.pc = "kick" =>
              /\ recent = 0 /\ wd.mem.cool
              /\ wd.listener = "gone" => OnRecord(wd.mem, kicks)
              /\ wd.listener # "gone" => OnRecord(wd.mem, kicks + 1) /\ ~wd.mem.gaveUp

IInv == WatchdogTypeOK /\ TallyInv

(* Steps that leave the tally alone.                                         *)
LEMMA TallyFrame ==
  ASSUME TallyInv, wd'.pc = wd.pc, wd'.mem = wd.mem,
         wd.listener = "none" => wd'.listener = "none",
         wd.listener = "gone" => wd'.listener = "gone",
         UNCHANGED <<disk, history>>
  PROVE  TallyInv'
  BY DEF TallyInv, OnRecord, history

(* The tally moves with FindServed, FindDormant, Adopt, Kick and the clock.  *)
LEMMA TallyStep == IInv /\ [Next]_vars => TallyInv'
<1> SUFFICES ASSUME IInv, [Next]_vars PROVE TallyInv'
  OBVIOUS
<1> USE WatchdogAssumption DEF IInv, NoFault
<1>t. wd \in Look /\ disk \in State /\ wd.mem \in State /\ kicks \in Nat /\ recent \in 0..2
      /\ lost \in BOOLEAN /\ lines \in 0..MaxRestarts
  BY DEF WatchdogTypeOK, Look
<1>1. CASE World
  <2>1. CASE Respawn \/ PassGuard \/ LoadByHand \/ Overspend \/ ForeignStarts \/ ForeignBinds
    BY <2>1, TallyFrame DEF Respawn, PassGuard, LoadByHand, Overspend, ForeignStarts, ForeignBinds
  <2>2. CASE StopAtGuard \/ JobFails \/ JobStops \/ UnloadByHand \/ ForeignEnds \/ Bind
    BY <2>2, <1>t, GoneFacts, TallyFrame
       DEF StopAtGuard, JobFails, JobStops, UnloadByHand, ForeignEnds, Bind
  <2> QED
    BY <1>1, <2>1, <2>2 DEF World
<1>2. CASE RollOver
  BY <1>2, TallyFrame DEF RollOver
<1>3. CASE CooldownEnds
  <2>1. wd.pc # "kick" /\ recent' = 0 /\ UNCHANGED <<kicks, lost>>
    BY <1>3 DEF CooldownEnds
  <2> QED
    BY <1>3, <2>1, <1>t, CooldownFacts DEF TallyInv, OnRecord, Deciding
<1>4. CASE Wake
  BY <1>4, <1>t, WakeFacts DEF Wake, TallyInv, OnRecord, State, Deciding, history
<1>5. CASE Disable \/ DisableFails
  BY <1>5, <1>t, DisableFacts DEF Disable, DisableFails, TallyInv, OnRecord, State, Deciding, history
<1>6. CASE Probe \/ AskOwner
  BY <1>6, <1>t, AskFacts DEF Probe, AskOwner, TallyInv, OnRecord, Deciding, history
<1>7. CASE FindServed
  BY <1>7, <1>t, ServedFacts DEF FindServed, TallyInv, OnRecord, Deciding
<1>8. CASE FindOrphan \/ AdoptFails
  BY <1>8, <1>t, OrphanFacts DEF FindOrphan, AdoptFails, TallyInv, OnRecord, State, Deciding, history
<1>9. CASE Adopt
  BY <1>9, <1>t, AdoptFacts DEF Adopt, TallyInv, OnRecord, State, Deciding, history
<1>10. CASE FindUnloaded \/ FindStarting
  BY <1>10, <1>t, DownFacts, MemoryTypes DEF FindUnloaded, FindStarting, TallyInv, OnRecord, Deciding,
                                            history
<1>11. CASE FindDormant
  BY <1>11, <1>t, DormantFacts DEF FindDormant, MayRevive, GivenUp, TallyInv, OnRecord, State,
                                   Deciding, history
<1>12. CASE Kick \/ KickFails
  <2>1. ~lost => recent' = 1 /\ kicks' = IF wd.listener = "gone" THEN kicks ELSE kicks + 1
    BY <1>12, <1>t, KickFacts DEF Attempted, Capped, TallyInv, OnRecord, State
  <2> QED
    BY <1>12, <2>1, <1>t, KickFacts DEF TallyInv, OnRecord, Attempted, Deciding
<1>13. CASE Save
  BY <1>13, <1>t DEF Save, TallyInv, OnRecord, Asleep, Blank, Deciding, history
<1>14. CASE Unsaved
  BY <1>14 DEF Unsaved, TallyInv, Asleep, Blank, Deciding
<1>15. CASE UNCHANGED vars
  BY <1>15, TallyFrame DEF vars
<1> QED
  BY <1>1, <1>2, <1>3, <1>4, <1>5, <1>6, <1>7, <1>8, <1>9, <1>10, <1>11, <1>12, <1>13, <1>14,
     <1>15 DEF Next, WatchStep

LEMMA InitIInv == Init => IInv
<1> SUFFICES ASSUME Init PROVE IInv
  OBVIOUS
<1>1. disk \in State /\ wd \in Look /\ disk = Blank /\ wd = Asleep
  BY BlankType DEF Init
<1>2. WatchdogTypeOK
  <2>1. 0 \in 0..MaxRestarts /\ 0 \in 0..MaxFaults /\ 0 \in 0..MaxTries + 1 /\ 0 \in 0..2
    BY WatchdogAssumption
  <2> QED
    BY <1>1, <2>1 DEF Init, WatchdogTypeOK, Jobs, Running
<1>3. wd.pc = "asleep" /\ wd.mem = Blank
  BY <1>1 DEF Asleep
<1>4. OnRecord(disk, kicks)
  BY <1>1 DEF OnRecord, Blank, Init
<1>5. TallyInv
  BY <1>3, <1>4 DEF TallyInv, Deciding, Init, Blank
<1> QED
  BY <1>2, <1>5 DEF IInv

(* The strengthening is inductive: it holds of every reachable state.        *)
THEOREM TallyCorrect == Spec => []IInv
<1>1. IInv /\ [Next]_vars => IInv'
  BY TypeStep, TallyStep DEF IInv
<1> QED
  BY InitIInv, <1>1, PTL DEF Spec

(* Kickstarts are a cooldown apart, no more than REVIVE_MAX_TRIES follow each *)
(* other without the port being seen served, and the watchdog gives up only   *)
(* after that many, for any flapping of the server between its looks.        *)
THEOREM ReviveCorrect == Spec => []ReviveEarned
<1>1. IInv => ReviveEarned
  BY WatchdogAssumption
     DEF IInv, WatchdogTypeOK, TallyInv, OnRecord, ReviveEarned, State, Look, Blank
<1> QED
  BY <1>1, TallyCorrect, PTL
=============================================================================
