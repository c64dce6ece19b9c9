------------------------ MODULE WatchConditionsProofs ------------------------
(***************************************************************************)
(* Proofs about what pages the user.  First the Inbox, then the trigger    *)
(* store of WatchConditions that adds to it, for any number of threads,    *)
(* conditions and levels and any caps; last, the memory of the Sentinel.   *)
(***************************************************************************)
EXTENDS WatchConditions, Sentinel, SelectionsProofs

(* The cap keeps a suffix of the list.                                      *)
LEMMA CappedIsSuffix ==
  ASSUME NEW list \in Seq(Alert)
  PROVE  /\ Capped(list) \in Seq(Alert)
         /\ Len(Capped(list)) <= MaxRecords
         /\ \E d \in Nat : \A i \in DOMAIN Capped(list) :
              i + d \in DOMAIN list /\ Capped(list)[i] = list[i + d]
<1> USE InboxAssumption
<1>1. CASE Len(list) > MaxRecords
  <2> DEFINE d == Len(list) - MaxRecords
  <2>1. d \in Nat /\ d + 1 \in Int /\ Len(list) \in Nat
    BY <1>1
  <2>2. \A i \in (d + 1)..Len(list) : list[i] \in Alert
    BY <2>1
  <2>3. /\ Capped(list) \in Seq(Alert)
        /\ Len(Capped(list)) = Len(list) - (d + 1) + 1
        /\ \A i \in 1..(Len(list) - (d + 1) + 1) : Capped(list)[i] = list[(d + 1) + i - 1]
    <3> HIDE DEF d
    <3>1. Capped(list) = SubSeq(list, d + 1, Len(list))
      BY <1>1 DEF Capped, d
    <3>2. d + 1 <= Len(list)
      BY <1>1, <2>1 DEF d
    <3> QED BY <2>1, <2>2, <3>1, <3>2, SubSeqProperties
  <2>4. \A i \in DOMAIN Capped(list) : i + d \in DOMAIN list /\ Capped(list)[i] = list[i + d]
    BY <2>1, <2>3
  <2> QED BY <2>1, <2>3, <2>4
<1>2. CASE ~(Len(list) > MaxRecords)
  BY <1>2 DEF Capped
<1> QED BY <1>1, <1>2

LEMMA CappedPreserves ==
  ASSUME NEW list \in Seq(Alert)
  PROVE  /\ UniqueIn(list) => UniqueIn(Capped(list))
         /\ OrderedIn(list) => OrderedIn(Capped(list))
<1>1. PICK d \in Nat : \A i \in DOMAIN Capped(list) :
                         i + d \in DOMAIN list /\ Capped(list)[i] = list[i + d]
  BY CappedIsSuffix
<1>2. \A i \in DOMAIN Capped(list) : i \in Nat
  BY CappedIsSuffix
<1>3. UniqueIn(list) => UniqueIn(Capped(list))
  BY <1>1, <1>2 DEF UniqueIn
<1>4. OrderedIn(list) => OrderedIn(Capped(list))
  BY <1>1, <1>2 DEF OrderedIn
<1> QED BY <1>3, <1>4

(* mark_read changes nothing but read flags, and only sets them.            *)
LEMMA MarkedReadLemma ==
  ASSUME NEW list \in Seq(Alert), NEW ids
  PROVE  /\ MarkedRead(list, ids) \in Seq(Alert)
         /\ Len(MarkedRead(list, ids)) = Len(list)
         /\ UniqueIn(list) => UniqueIn(MarkedRead(list, ids))
         /\ OrderedIn(list) => OrderedIn(MarkedRead(list, ids))
<1> DEFINE new == MarkedRead(list, ids)
<1>1. new = [i \in 1..Len(list) |-> [list[i] EXCEPT !.read = @ \/ list[i].id \in ids]]
  BY DEF MarkedRead
<1>2. \A i \in 1..Len(list) :
        /\ new[i] \in Alert
        /\ new[i].id = list[i].id /\ new[i].key = list[i].key
        /\ ~new[i].read => ~list[i].read
  <2> SUFFICES ASSUME NEW i \in 1..Len(list)
               PROVE  /\ new[i] \in Alert
                      /\ new[i].id = list[i].id /\ new[i].key = list[i].key
                      /\ ~new[i].read => ~list[i].read
    OBVIOUS
  <2>1. list[i] \in Alert
    OBVIOUS
  <2>2. new[i] = [list[i] EXCEPT !.read = @ \/ list[i].id \in ids]
    BY <1>1
  <2> HIDE DEF new
  <2> QED BY <2>1, <2>2 DEF Alert
<1>3. new \in Seq(Alert) /\ Len(new) = Len(list) /\ DOMAIN new = 1..Len(list)
  <2> HIDE DEF new
  <2>1. new \in [1..Len(list) -> Alert]
    <3>1. DOMAIN new = 1..Len(list) /\ new = [i \in 1..Len(list) |-> new[i]]
      BY <1>1
    <3> QED BY <1>2, <3>1
  <2> QED BY <2>1, LenProperties, SeqDef
<1> HIDE DEF new
<1>4. UniqueIn(list) => UniqueIn(new)
  BY <1>2, <1>3 DEF UniqueIn
<1>5. OrderedIn(list) => OrderedIn(new)
  BY <1>2, <1>3 DEF OrderedIn
<1> QED BY <1>3, <1>4, <1>5 DEF new

(* Appending an alert with a fresh id and no unread twin.                   *)
LEMMA AppendLemma ==
  ASSUME NEW list \in Seq(Alert), NEW id \in AlertIds, NEW k \in Keys \cup {NoKey},
         ~HasUnread(list, k), id > Newest(list),
         UniqueIn(list), OrderedIn(list)
  PROVE  LET new == Append(list, NewAlert(id, k))
         IN new \in Seq(Alert) /\ UniqueIn(new) /\ OrderedIn(new)
<1> DEFINE a == NewAlert(id, k)
           new == Append(list, a)
<1>1. a \in Alert /\ a.id = id /\ a.key = k /\ a.read = FALSE
  BY DEF NewAlert, Alert
<1> HIDE DEF a
<1>2. /\ new \in Seq(Alert) /\ Len(new) = Len(list) + 1
      /\ \A i \in 1..Len(list) : new[i] = list[i]
      /\ new[Len(list) + 1] = a
  BY <1>1, AppendProperties
<1>3. Len(list) \in Nat /\ \A i \in 1..Len(list) : list[i] \in Alert
  OBVIOUS
<1> HIDE DEF new
<1>4. \A i \in 1..Len(list) : list[i].id < id
  <2> SUFFICES ASSUME NEW i \in 1..Len(list) PROVE list[i].id < id
    OBVIOUS
  <2>1. list # <<>> /\ Len(list) \in 1..Len(list)
    BY <1>3
  <2>2. list[Len(list)].id < id
    BY <2>1, <1>3 DEF Newest, AlertIds, Alert, InboxAssumption
  <2>3. i = Len(list) \/ list[i].id < list[Len(list)].id
    BY <1>3, <2>1 DEF OrderedIn
  <2> QED BY <1>3, <2>1, <2>2, <2>3 DEF Alert, AlertIds
<1>5. OrderedIn(new)
  BY <1>1, <1>2, <1>3, <1>4 DEF OrderedIn
<1>6. k # NoKey => \A i \in 1..Len(list) : list[i].key = k => list[i].read
  BY <1>3 DEF HasUnread, UnreadAt
<1>7. UniqueIn(new)
  BY <1>1, <1>2, <1>3, <1>6 DEF UniqueIn
<1> QED BY <1>2, <1>5, <1>7 DEF new, a

InboxInv == TypeOK /\ UnreadUnique /\ OldestFirst

(* An alert raised, or alerts read: the inbox stays as it should be.        *)
LEMMA InboxKeeps == ASSUME InboxInv, [Next]_inbox PROVE InboxInv'
<1> USE DEF InboxInv, TypeOK, UnreadUnique, OldestFirst
<1>1. ASSUME NEW id \in AlertIds, NEW k \in Keys \cup {NoKey}, RaiseNew(id, k)
      PROVE  InboxInv'
  <2> DEFINE new == Append(inbox, NewAlert(id, k))
  <2>1. new \in Seq(Alert) /\ UniqueIn(new) /\ OrderedIn(new)
    BY <1>1, AppendLemma DEF RaiseNew
  <2>2. inbox' = Capped(new)
    BY <1>1 DEF RaiseNew
  <2> HIDE DEF new
  <2>3. inbox' \in Seq(Alert) /\ Len(inbox') <= MaxRecords
    BY <2>1, <2>2, CappedIsSuffix
  <2>4. UniqueIn(inbox') /\ OrderedIn(inbox')
    BY <2>1, <2>2, CappedPreserves
  <2>5. UnreadUnique' /\ OldestFirst'
    BY <2>4 DEF UniqueIn, OrderedIn
  <2> QED BY <2>3, <2>5
<1>2. ASSUME NEW ids \in SUBSET AlertIds, MarkRead(ids)
      PROVE  InboxInv'
  <2>1. inbox' = MarkedRead(inbox, ids)
    BY <1>2 DEF MarkRead
  <2>2. inbox' \in Seq(Alert) /\ Len(inbox') = Len(inbox)
    BY <2>1, MarkedReadLemma
  <2>3. UniqueIn(inbox') /\ OrderedIn(inbox')
    BY <2>1, MarkedReadLemma
  <2>4. UnreadUnique' /\ OldestFirst'
    BY <2>3 DEF UniqueIn, OrderedIn
  <2> QED BY <2>2, <2>4
<1>3. CASE UNCHANGED inbox
  BY <1>3 DEF UniqueIn, OrderedIn
<1> QED BY <1>1, <1>2, <1>3 DEF Next

(* Whatever is raised and read, the inbox stays capped, keeps one unread    *)
(* alert per dedup key, and stays in the order get_alerts relies on.        *)
THEOREM InboxInvariant == Spec => []InboxInv
<1>1. Init => InboxInv
  BY InboxAssumption DEF Init, InboxInv, TypeOK, UnreadUnique, OldestFirst, UniqueIn, OrderedIn
<1>2. InboxInv /\ [Next]_inbox => InboxInv'
  BY InboxKeeps
<1> QED BY <1>1, <1>2, PTL DEF Spec

(* No alert is ever shown twice as unread under one dedup key.              *)
THEOREM NoUnreadTwins == Spec => []UnreadUnique
<1>1. InboxInv => UnreadUnique
  BY DEF InboxInv
<1> QED BY <1>1, InboxInvariant, PTL

-----------------------------------------------------------------------------
(* The store.                                                              *)

IdsUnique(list) == \A i, j \in DOMAIN list : list[i].id = list[j].id => i = j

(* A list of conditions that is or will be the file: live conditions watch *)
(* different levels, ids are those handed out, only a condition that was   *)
(* seen on the other side is armed, and a voided one never was.            *)
GoodList(list, top, seen) ==
  /\ UniqueActiveIn(list) /\ IdsUnique(list)
  /\ \A i \in DOMAIN list :
       /\ list[i].id \in 1..top
       /\ list[i].armed => list[i].id \in seen
       /\ list[i].status = "void" => ~list[i].armed

Lists == /\ GoodList(conds, lastId, observed)
         /\ \A t \in Threads : GoodList(call[t].list, lastId, observed)

(* Whoever paged the user was seen on the other side before.               *)
History == /\ observed \subseteq 1..lastId /\ cancelled \subseteq 1..lastId
           /\ \A t \in Threads : call[t].cancels \subseteq 1..lastId
           /\ AlertOnlyAfterMiss

(* While no two calls overlap: what the one call has made of the list it   *)
(* loaded, which still is the file, and what it knows of it.               *)
Kin(list, todo) ==
  /\ DOMAIN conds \subseteq DOMAIN list
  /\ \A i \in DOMAIN conds :
       IF IsActive(conds[i]) THEN LegalChange(conds[i], list[i]) ELSE list[i] = conds[i]
  /\ \A i \in todo : i \in DOMAIN conds /\ list[i] = conds[i] /\ IsActive(list[i])

(* An unarmed condition has not paged the user, a cancelled one is not     *)
(* live.                                                                   *)
Quiet(list, gone) ==
  \A i \in DOMAIN list : /\ ~list[i].armed => ~Alerted(list[i].id)
                         /\ list[i].id \in gone => IsResolved(list[i])

Serial ==
  ~raced =>
    /\ \A t, u \in Threads : call[t].pc # "idle" /\ call[u].pc # "idle" => t = u
    /\ Quiet(conds, cancelled)
    /\ \A t \in Threads : call[t].pc # "idle" =>
         /\ Kin(call[t].list, call[t].todo)
         /\ Quiet(call[t].list, cancelled \cup call[t].cancels)

IInv == WatchTypeOK /\ InboxInv /\ Lists /\ History /\ Serial

-----------------------------------------------------------------------------
(* Lists of conditions.                                                    *)

LEMMA CondsType ==
  ASSUME NEW list \in Seq(Cond)
  PROVE  /\ Len(list) \in Nat /\ DOMAIN list = 1..Len(list)
         /\ \A i \in DOMAIN list : list[i] \in Cond /\ list[i].id \in CondIds /\ list[i].id \in Nat
<1>1. Len(list) \in Nat /\ DOMAIN list = 1..Len(list)
  BY LenProperties
<1>2. \A i \in DOMAIN list : list[i] \in Cond
  BY <1>1, ElementOfSeq
<1>3. \A c \in Cond : c.id \in CondIds /\ c.id \in Nat
  BY DEF Cond, CondIds
<1> QED BY <1>1, <1>2, <1>3

(* The newest of them. *)
LEMMA LastNLemma ==
  ASSUME NEW list \in Seq(Cond), NEW n \in Nat, n <= Len(list), NEW last, last = LastN(list, n)
  PROVE  /\ last \in Seq(Cond) /\ Len(last) = n /\ DOMAIN last = 1..n
         /\ \A i \in 1..n : i + (Len(list) - n) \in DOMAIN list /\ last[i] = list[i + (Len(list) - n)]
<1> DEFINE m == Len(list) - n + 1
           top == Len(list)
<1>1. top \in Nat /\ m \in Nat /\ m = top - n + 1 /\ DOMAIN list = 1..top
      /\ \A i \in m..top : list[i] \in Cond
  BY CondsType
<1>2. last = SubSeq(list, m, top)
  BY DEF LastN
<1> HIDE DEF m, top
<1>3. /\ last \in Seq(Cond) /\ Len(last) = (IF m <= top THEN top - m + 1 ELSE 0)
      /\ \A i \in 1..(top - m + 1) : last[i] = list[m + i - 1]
  BY <1>1, <1>2, SubSeqProperties
<1>4. top - m + 1 = n /\ n <= top /\ (~(m <= top) => n = 0)
  BY <1>1 DEF top
<1>5. Len(last) = n /\ DOMAIN last = 1..n
  BY <1>1, <1>3, <1>4, LenProperties
<1>6. \A i \in 1..n : i + (top - n) \in 1..top /\ m + i - 1 = i + (top - n)
  BY <1>1, <1>4
<1>7. \A i \in 1..n : last[i] = list[i + (top - n)]
  BY <1>3, <1>4, <1>6
<1> QED BY <1>1, <1>3, <1>5, <1>6, <1>7 DEF top

(* _trim drops conditions, never duplicates one, and no live one is lost.  *)
LEMMA TrimLemma ==
  ASSUME NEW list \in Seq(Cond), NEW new, new = Trim(list)
  PROVE  /\ new \in Seq(Cond)
         /\ \A i \in DOMAIN new : \E a \in DOMAIN list : new[i] = list[a]
         /\ \A i, j \in DOMAIN new : i # j =>
              \E a, b \in DOMAIN list : a # b /\ new[i] = list[a] /\ new[j] = list[b]
         /\ \A a \in Active(list) : \E i \in DOMAIN new : new[i] = list[a]
<1> DEFINE A == Active(list)
           R == DOMAIN list \ Active(list)
           live == KeepAt(list, A)
           done == KeepAt(list, R)
           room == IF Len(live) >= MaxConditions THEN 0 ELSE MaxConditions - Len(live)
           tail == IF Len(done) > room THEN LastN(done, room) ELSE done
<1>1. new = live \o tail
  BY DEF Trim
<1>2. A \in SUBSET DOMAIN list /\ R \in SUBSET DOMAIN list /\ A \cap R = {}
  BY DEF Active
<1> HIDE DEF A, R
<1>3. /\ live \in Seq(Cond) /\ Len(live) \in Nat /\ DOMAIN live = 1..Len(live)
      /\ \A i \in DOMAIN live : \E a \in A : live[i] = list[a]
      /\ \A i, j \in DOMAIN live : i < j =>
           \E a, b \in A : a < b /\ live[i] = list[a] /\ live[j] = list[b]
      /\ \A a \in A : \E i \in DOMAIN live : live[i] = list[a]
  BY <1>2, KeptItems
<1>4. /\ done \in Seq(Cond) /\ Len(done) \in Nat /\ DOMAIN done = 1..Len(done)
      /\ \A i \in DOMAIN done : \E a \in R : done[i] = list[a]
      /\ \A i, j \in DOMAIN done : i < j =>
           \E a, b \in R : a < b /\ done[i] = list[a] /\ done[j] = list[b]
  BY <1>2, KeptItems
<1>5. room \in Nat
  BY <1>3, WatchAssumption
<1> HIDE DEF live, done, room
<1>6. /\ tail \in Seq(Cond) /\ Len(tail) \in Nat /\ DOMAIN tail = 1..Len(tail)
      /\ \E d \in Nat : \A i \in DOMAIN tail : i + d \in DOMAIN done /\ tail[i] = done[i + d]
  <2>1. CASE Len(done) > room
    <3>1. tail = LastN(done, room)
      BY <2>1
    <3> HIDE DEF tail
    <3>2. /\ tail \in Seq(Cond) /\ Len(tail) = room /\ DOMAIN tail = 1..room
          /\ \A i \in 1..room : i + (Len(done) - room) \in DOMAIN done
                                /\ tail[i] = done[i + (Len(done) - room)]
      <4>1. PICK n \in Nat : n = room
        BY <1>5
      <4>2. done \in Seq(Cond) /\ n \in Nat /\ n <= Len(done) /\ tail = LastN(done, n)
        BY <1>4, <2>1, <3>1, <4>1
      <4>3. /\ tail \in Seq(Cond) /\ Len(tail) = n /\ DOMAIN tail = 1..n
            /\ \A i \in 1..n : i + (Len(done) - n) \in DOMAIN done
                              /\ tail[i] = done[i + (Len(done) - n)]
        BY ONLY <4>2, LastNLemma
      <4> QED BY <4>1, <4>3
    <3>3. Len(done) - room \in Nat
      BY <1>4, <1>5, <2>1
    <3> QED BY <1>5, <3>2, <3>3
  <2>2. CASE ~(Len(done) > room)
    <3>1. tail = done /\ 0 \in Nat /\ \A i \in DOMAIN done : i + 0 = i
      BY <1>4, <2>2
    <3> QED BY <1>4, <3>1
  <2> QED BY <2>1, <2>2
<1> HIDE DEF tail
<1>7. PICK d \in Nat : \A i \in DOMAIN tail : i + d \in DOMAIN done /\ tail[i] = done[i + d]
  BY <1>6
<1>8. /\ \A i \in DOMAIN tail : \E a \in R : tail[i] = list[a]
      /\ \A i, j \in DOMAIN tail : i < j =>
           \E a, b \in R : a < b /\ tail[i] = list[a] /\ tail[j] = list[b]
  <2>1. \A i \in DOMAIN tail : \E a \in R : tail[i] = list[a]
    BY <1>4, <1>7
  <2>2. ASSUME NEW i \in DOMAIN tail, NEW j \in DOMAIN tail, i < j
        PROVE  \E a, b \in R : a < b /\ tail[i] = list[a] /\ tail[j] = list[b]
    <3>1. i + d \in DOMAIN done /\ j + d \in DOMAIN done /\ i + d < j + d
      BY <1>6, <1>7, <2>2
    <3>2. tail[i] = done[i + d] /\ tail[j] = done[j + d]
      BY <1>7
    <3> QED BY <1>4, <3>1, <3>2
  <2> QED BY <2>1, <2>2
<1> DEFINE n == Len(live)
<1>9. /\ new \in Seq(Cond) /\ Len(new) = n + Len(tail)
      /\ \A i \in 1..(n + Len(tail)) : new[i] = IF i <= n THEN live[i] ELSE tail[i - n]
  BY <1>1, <1>3, <1>6, ConcatProperties
<1>10. n \in Nat /\ DOMAIN new = 1..(n + Len(tail))
  BY <1>3, <1>9, LenProperties
<1> HIDE DEF n
<1>11. \A i \in DOMAIN new :
         \/ i \in DOMAIN live /\ new[i] = live[i]
         \/ i > n /\ i - n \in DOMAIN tail /\ new[i] = tail[i - n]
  <2> SUFFICES ASSUME NEW i \in 1..(n + Len(tail))
               PROVE  \/ i \in DOMAIN live /\ new[i] = live[i]
                      \/ i > n /\ i - n \in DOMAIN tail /\ new[i] = tail[i - n]
    BY <1>10
  <2>1. CASE i <= n
    BY <1>3, <1>9, <1>10, <2>1 DEF n
  <2>2. CASE ~(i <= n)
    <3>1. i > n /\ i - n \in 1..Len(tail)
      BY <1>6, <1>10, <2>2
    <3> QED BY <1>6, <1>9, <2>2, <3>1
  <2> QED BY <2>1, <2>2
<1>12. \A i \in DOMAIN new : \E a \in DOMAIN list : new[i] = list[a]
  BY <1>2, <1>3, <1>8, <1>11
<1>13. ASSUME NEW i \in DOMAIN new, NEW j \in DOMAIN new, i < j
       PROVE  \E a, b \in DOMAIN list : a # b /\ new[i] = list[a] /\ new[j] = list[b]
  <2>0. i \in Nat /\ j \in Nat
    BY <1>6, <1>10
  <2>1. CASE i \in DOMAIN live /\ new[i] = live[i] /\ j \in DOMAIN live /\ new[j] = live[j]
    <3>1. PICK a \in A, b \in A : a < b /\ live[i] = list[a] /\ live[j] = list[b]
      BY <1>3, <1>13, <2>1
    <3>2. a # b
      BY <1>2, <3>1, CondsType
    <3> QED BY <1>2, <2>1, <3>1, <3>2
  <2>2. CASE /\ i > n /\ i - n \in DOMAIN tail /\ new[i] = tail[i - n]
             /\ j > n /\ j - n \in DOMAIN tail /\ new[j] = tail[j - n]
    <3>1. i - n < j - n
      BY <1>10, <1>13, <2>0, <2>2
    <3>2. PICK a \in R, b \in R : a < b /\ tail[i - n] = list[a] /\ tail[j - n] = list[b]
      BY <1>8, <2>2, <3>1
    <3>3. a # b
      BY <1>2, <3>2, CondsType
    <3> QED BY <1>2, <2>2, <3>2, <3>3
  <2>3. CASE /\ i \in DOMAIN live /\ new[i] = live[i]
             /\ j > n /\ j - n \in DOMAIN tail /\ new[j] = tail[j - n]
    <3>1. PICK a \in A : live[i] = list[a]
      BY <1>3, <2>3
    <3>2. PICK b \in R : tail[j - n] = list[b]
      BY <1>8, <2>3
    <3>3. a # b
      BY <1>2
    <3> QED BY <1>2, <2>3, <3>1, <3>2, <3>3
  <2>4. ~(i > n /\ j \in DOMAIN live)
    BY <1>3, <1>10, <1>13, <2>0 DEF n
  <2> QED BY <1>11, <2>1, <2>2, <2>3, <2>4
<1>14. \A i, j \in DOMAIN new : i # j =>
         \E a, b \in DOMAIN list : a # b /\ new[i] = list[a] /\ new[j] = list[b]
  <2> SUFFICES ASSUME NEW i \in DOMAIN new, NEW j \in DOMAIN new, i # j
               PROVE  \E a, b \in DOMAIN list : a # b /\ new[i] = list[a] /\ new[j] = list[b]
    OBVIOUS
  <2>1. i < j \/ j < i
    BY <1>6, <1>10
  <2> QED BY <1>13, <2>1
<1>15. \A a \in A : \E i \in DOMAIN new : new[i] = list[a]
  <2> SUFFICES ASSUME NEW a \in A PROVE \E i \in DOMAIN new : new[i] = list[a]
    OBVIOUS
  <2>1. PICK i \in DOMAIN live : live[i] = list[a]
    BY <1>3
  <2>2. i \in 1..(n + Len(tail)) /\ i <= n
    BY <1>3, <1>6, <1>10 DEF n
  <2> QED BY <1>9, <1>10, <2>1, <2>2
<1> QED BY <1>9, <1>12, <1>14, <1>15 DEF A

(* So a trimmed list is as good as the whole one.                          *)
LEMMA TrimKeeps ==
  ASSUME NEW list \in Seq(Cond), NEW top, NEW seen, NEW gone, GoodList(list, top, seen)
  PROVE  /\ Trim(list) \in Seq(Cond)
         /\ GoodList(Trim(list), top, seen)
         /\ Quiet(list, gone) => Quiet(Trim(list), gone)
<1> DEFINE new == Trim(list)
<1>1. /\ new \in Seq(Cond)
      /\ \A i \in DOMAIN new : \E a \in DOMAIN list : new[i] = list[a]
      /\ \A i, j \in DOMAIN new : i # j =>
           \E a, b \in DOMAIN list : a # b /\ new[i] = list[a] /\ new[j] = list[b]
  BY TrimLemma
<1> HIDE DEF new
<1>2. UniqueActiveIn(new) /\ IdsUnique(new)
  BY <1>1 DEF GoodList, UniqueActiveIn, IdsUnique, Active
<1>3. GoodList(new, top, seen)
  BY <1>1, <1>2 DEF GoodList
<1>4. Quiet(list, gone) => Quiet(new, gone)
  BY <1>1 DEF Quiet
<1> QED BY <1>1, <1>3, <1>4 DEF new

LEMMA GoodLasts ==
  ASSUME NEW list, NEW top \in Nat, NEW later \in Nat, top <= later, NEW seen, NEW more,
         seen \subseteq more, GoodList(list, top, seen)
  PROVE  GoodList(list, later, more)
<1>1. \A n \in 1..top : n \in 1..later
  OBVIOUS
<1> QED BY <1>1 DEF GoodList

(* A new version of a live condition takes its place.                      *)
LEMMA ReplaceKeeps ==
  ASSUME NEW list \in Seq(Cond), NEW top, NEW seen, GoodList(list, top, seen),
         NEW k \in Active(list), NEW c \in Cond, c.id = list[k].id, c.level = list[k].level,
         c.armed => c.id \in seen, c.status = "void" => ~c.armed,
         NEW new, new = [list EXCEPT ![k] = c]
  PROVE  /\ new \in Seq(Cond) /\ DOMAIN new = DOMAIN list /\ GoodList(new, top, seen)
         /\ new[k] = c /\ \A j \in DOMAIN list : j # k => new[j] = list[j]
<1>1. k \in DOMAIN list /\ DOMAIN list = 1..Len(list) /\ list[k].status = "active"
  BY CondsType DEF Active
<1>2. /\ new \in Seq(Cond) /\ Len(new) = Len(list)
      /\ \A j \in 1..Len(list) : new[j] = IF j = k THEN c ELSE list[j]
  BY <1>1, ExceptSeq
<1>3. DOMAIN new = DOMAIN list
  BY <1>1, <1>2, CondsType
<1>4. new[k] = c /\ \A j \in DOMAIN list : j # k => new[j] = list[j]
  BY <1>1, <1>2
<1>5. IdsUnique(new)
  BY <1>1, <1>3, <1>4 DEF GoodList, IdsUnique
<1>6. UniqueActiveIn(new)
  BY <1>1, <1>3, <1>4 DEF GoodList, UniqueActiveIn, Active
<1>7. GoodList(new, top, seen)
  BY <1>1, <1>3, <1>4, <1>5, <1>6 DEF GoodList
<1> QED BY <1>2, <1>3, <1>4, <1>7

LEMMA ConcatConds ==
  ASSUME NEW s \in Seq(Cond), NEW u \in Seq(Cond)
  PROVE  LET c == s \o u
             m == Len(s)
             n == Len(u)
         IN /\ c \in Seq(Cond) /\ Len(c) = m + n
            /\ \A i \in 1..(m + n) : c[i] = IF i <= m THEN s[i] ELSE u[i - m]
  BY ConcatProperties

(* New conditions at the end: fresh ids, levels that no live one has.      *)
Fresh(top, n, order) == [i \in 1..n |-> NewCond(top + i, order[i])]

LEMMA NewConds ==
  ASSUME NEW top \in Nat, NEW n \in Nat, top + n <= MaxConds, NEW order \in [1..n -> Levels]
  PROVE  /\ Fresh(top, n, order) \in Seq(Cond) /\ Len(Fresh(top, n, order)) = n
         /\ \A i \in 1..n : LET c == Fresh(top, n, order)[i]
                           IN /\ c.id = top + i /\ c.level = order[i]
                              /\ c.status = "active" /\ ~c.armed
<1> DEFINE more == Fresh(top, n, order)
<1>1. ASSUME NEW i \in 1..n
      PROVE  /\ more[i] \in Cond
             /\ more[i].id = top + i /\ more[i].level = order[i]
             /\ more[i].status = "active" /\ ~more[i].armed
  <2>1. top + i \in CondIds /\ order[i] \in Levels
    BY WatchAssumption DEF CondIds
  <2>2. NewCond(top + i, order[i]) \in Cond
    BY <2>1 DEF NewCond, Cond
  <2>3. more[i] = NewCond(top + i, order[i])
    BY DEF Fresh
  <2> QED BY <2>2, <2>3 DEF NewCond
<1>2. more \in Seq(Cond) /\ Len(more) = n
  <2>1. more \in [1..n -> Cond]
    BY <1>1 DEF Fresh
  <2> QED BY <2>1, SeqDef, LenProperties
<1> QED BY <1>1, <1>2

(* Different levels, none of them watched yet, ...                         *)
Unwatched(list, n, order) ==
  /\ \A i, j \in 1..n : order[i] = order[j] => i = j
  /\ \A i \in 1..n : order[i] \notin ActiveLevels(list)

(* ... and the list with a condition for each of them at its end.          *)
Grown(list, top, n, order, long) ==
  /\ long \in Seq(Cond) /\ Len(long) = Len(list) + n
  /\ \A i \in 1..Len(list) : long[i] = list[i]
  /\ \A k \in 1..n : LET c == long[Len(list) + k]
                    IN /\ c.id = top + k /\ c.level = order[k]
                       /\ c.status = "active" /\ ~c.armed

LEMMA GrownLemma ==
  ASSUME NEW list \in Seq(Cond), NEW top \in Nat, NEW n \in Nat, top + n <= MaxConds,
         NEW order \in [1..n -> Levels]
  PROVE  Grown(list, top, n, order, list \o Fresh(top, n, order))
<1>1. PICK more : more = Fresh(top, n, order)
  OBVIOUS
<1>2. PICK long : long = list \o more
  OBVIOUS
<1>3. /\ more \in Seq(Cond) /\ Len(more) = n
      /\ \A i \in 1..n : LET c == more[i]
                        IN /\ c.id = top + i /\ c.level = order[i]
                           /\ c.status = "active" /\ ~c.armed
  BY <1>1, NewConds
<1>4. /\ long \in Seq(Cond) /\ Len(long) = Len(list) + n
      /\ \A i \in 1..(Len(list) + n) : long[i] = IF i <= Len(list) THEN list[i] ELSE more[i - Len(list)]
  <2>1. more \in Seq(Cond) /\ Len(more) = n
    BY <1>3
  <2> QED BY <1>2, <2>1, ConcatConds
<1>5. PICK m \in Nat : m = Len(list)
  BY CondsType
<1>6. /\ long \in Seq(Cond) /\ Len(long) = m + n
      /\ \A i \in 1..(m + n) : long[i] = IF i <= m THEN list[i] ELSE more[i - m]
  BY <1>4, <1>5
<1>7. \A i \in 1..m : long[i] = list[i]
  <2>1. \A i \in 1..m : i \in 1..(m + n) /\ i <= m
    OBVIOUS
  <2> QED BY <1>6, <2>1
<1>8. \A k \in 1..n : long[m + k] = more[k]
  <2>1. \A k \in 1..n : m + k \in 1..(m + n) /\ ~(m + k <= m) /\ (m + k) - m = k
    OBVIOUS
  <2> QED BY <1>6, <2>1
<1> QED BY <1>1, <1>2, <1>3, <1>5, <1>6, <1>7, <1>8 DEF Grown

(* It still has all it had; what is new is live, unarmed and unheard of.   *)
Appended(list, top, long) ==
  /\ DOMAIN list \subseteq DOMAIN long /\ \A i \in DOMAIN list : long[i] = list[i]
  /\ \A i \in DOMAIN long \ DOMAIN list :
       long[i].id \notin 1..top /\ long[i].status = "active" /\ ~long[i].armed

LEMMA AppendConds ==
  ASSUME NEW list \in Seq(Cond), NEW top \in Nat, NEW seen, seen \subseteq 1..top,
         GoodList(list, top, seen), NEW n \in Nat, NEW order, Unwatched(list, n, order),
         NEW long, Grown(list, top, n, order, long)
  PROVE  long \in Seq(Cond) /\ GoodList(long, top + n, seen) /\ Appended(list, top, long)
<1>4. PICK m \in Nat : m = Len(list) /\ DOMAIN list = 1..m /\ \A i \in 1..m : list[i] \in Cond
  BY CondsType
<1>5. /\ long \in Seq(Cond) /\ Len(long) = m + n
      /\ \A i \in 1..m : long[i] = list[i]
      /\ \A k \in 1..n : /\ long[m + k].id = top + k /\ long[m + k].level = order[k]
                         /\ long[m + k].status = "active" /\ ~long[m + k].armed
  BY <1>4 DEF Grown
<1>6. DOMAIN long = 1..(m + n)
  BY <1>5, CondsType
<1>7. \A i \in 1..m : i \in DOMAIN long /\ long[i] = list[i]
  BY <1>4, <1>5, <1>6
<1>8. ASSUME NEW i \in DOMAIN long, i \notin 1..m
      PROVE  \E k \in 1..n :
               /\ i = m + k
               /\ long[i].id = top + k /\ long[i].level = order[k]
               /\ long[i].status = "active" /\ ~long[i].armed
               /\ long[i].id \in 1..(top + n) /\ long[i].id \notin 1..top
  <2>1. i - m \in 1..n /\ i = m + (i - m)
    BY <1>6, <1>8
  <2>2. PICK k \in 1..n : i = m + k
    BY <2>1
  <2>4. /\ long[i].id = top + k /\ long[i].level = order[k]
        /\ long[i].status = "active" /\ ~long[i].armed
    BY <1>5, <2>2
  <2>5. top + k \in 1..(top + n) /\ top + k \notin 1..top
    BY <2>2
  <2> QED BY <2>2, <2>4, <2>5
<1>9. IdsUnique(long)
  <2> SUFFICES ASSUME NEW i \in DOMAIN long, NEW j \in DOMAIN long, long[i].id = long[j].id
               PROVE  i = j
    BY DEF IdsUnique
  <2>1. CASE i \in 1..m /\ j \in 1..m
    BY <1>4, <1>7, <2>1 DEF GoodList, IdsUnique
  <2>2. CASE i \notin 1..m /\ j \notin 1..m
    <3>1. PICK k \in 1..n : i = m + k /\ long[i].id = top + k
      BY <1>8, <2>2
    <3>2. PICK l \in 1..n : j = m + l /\ long[j].id = top + l
      BY <1>8, <2>2
    <3>3. top + k = top + l
      BY <3>1, <3>2
    <3>4. k = l
      BY <3>3
    <3> QED BY <3>1, <3>2, <3>4
  <2>3. \A a \in 1..m : long[a].id \in 1..top
    BY <1>4, <1>7 DEF GoodList
  <2> QED BY <1>8, <2>1, <2>2, <2>3
<1>10. UniqueActiveIn(long)
  <2> SUFFICES ASSUME NEW i \in Active(long), NEW j \in Active(long), long[i].level = long[j].level
               PROVE  i = j
    BY DEF UniqueActiveIn
  <2>0. i \in DOMAIN long /\ j \in DOMAIN long
    BY DEF Active
  <2>1. CASE i \in 1..m /\ j \in 1..m
    <3>1. i \in Active(list) /\ j \in Active(list) /\ list[i].level = list[j].level
      BY <1>4, <1>7, <2>1 DEF Active
    <3>2. UniqueActiveIn(list)
      BY DEF GoodList
    <3> QED BY <3>1, <3>2 DEF UniqueActiveIn
  <2>2. CASE i \notin 1..m /\ j \notin 1..m
    <3>1. PICK k \in 1..n : i = m + k /\ long[i].level = order[k]
      BY <1>8, <2>0, <2>2
    <3>2. PICK l \in 1..n : j = m + l /\ long[j].level = order[l]
      BY <1>8, <2>0, <2>2
    <3>3. k = l
      BY <3>1, <3>2 DEF Unwatched
    <3> QED BY <3>1, <3>2, <3>3
  <2>3. ASSUME NEW a \in 1..m, a \in Active(long) PROVE long[a].level \in ActiveLevels(list)
    BY <1>4, <1>7, <2>3 DEF ActiveLevels, Active
  <2>4. ASSUME NEW a \in DOMAIN long, a \notin 1..m PROVE long[a].level \notin ActiveLevels(list)
    BY <1>8, <2>4 DEF Unwatched
  <2> QED BY <2>0, <2>1, <2>2, <2>3, <2>4
<1>11. \A i \in DOMAIN long :
         /\ long[i].id \in 1..(top + n)
         /\ long[i].armed => long[i].id \in seen
         /\ long[i].status = "void" => ~long[i].armed
  <2> SUFFICES ASSUME NEW i \in DOMAIN long
               PROVE  /\ long[i].id \in 1..(top + n)
                      /\ long[i].armed => long[i].id \in seen
                      /\ long[i].status = "void" => ~long[i].armed
    OBVIOUS
  <2>1. CASE i \in 1..m
    <3>1. \A x \in 1..top : x \in 1..(top + n)
      OBVIOUS
    <3> QED BY <1>4, <1>7, <2>1, <3>1 DEF GoodList
  <2> QED BY <1>8, <2>1
<1>12. GoodList(long, top + n, seen)
  BY <1>9, <1>10, <1>11 DEF GoodList
<1>13. Appended(list, top, long)
  BY <1>4, <1>7, <1>8 DEF Appended
<1> QED BY <1>5, <1>12, <1>13

(* Expiring some live conditions.                                          *)
Expired(list, expired) ==
  [i \in DOMAIN list |-> IF i \in expired THEN [list[i] EXCEPT !.status = "expired"] ELSE list[i]]

LEMMA ExpireKeeps ==
  ASSUME NEW list \in Seq(Cond), NEW top, NEW seen, GoodList(list, top, seen),
         NEW expired, expired \subseteq Active(list), NEW new,
         new = Expired(list, expired)
  PROVE  /\ new \in Seq(Cond) /\ DOMAIN new = DOMAIN list /\ GoodList(new, top, seen)
         /\ \A i \in DOMAIN list :
              /\ new[i].id = list[i].id /\ new[i].armed = list[i].armed
              /\ IF i \in expired
                 THEN IsActive(list[i]) /\ new[i] = [list[i] EXCEPT !.status = "expired"]
                 ELSE new[i] = list[i]
         /\ Active(list) \ expired = Active(new)
<1>1. Len(list) \in Nat /\ DOMAIN list = 1..Len(list) /\ \A i \in DOMAIN list : list[i] \in Cond
  BY CondsType
<1>2. /\ DOMAIN new = DOMAIN list
      /\ \A i \in DOMAIN list :
           IF i \in expired THEN new[i] = [list[i] EXCEPT !.status = "expired"] ELSE new[i] = list[i]
  BY DEF Expired
<1>3. ASSUME NEW i \in DOMAIN list
      PROVE  /\ new[i] \in Cond
             /\ new[i].id = list[i].id /\ new[i].level = list[i].level /\ new[i].armed = list[i].armed
             /\ IF i \in expired THEN new[i].status = "expired" /\ IsActive(list[i])
                                 ELSE new[i] = list[i]
  BY <1>1, <1>2 DEF Cond, Active, IsActive
<1>4. new \in Seq(Cond)
  <2>1. new \in [1..Len(list) -> Cond]
    BY <1>1, <1>3 DEF Expired
  <2> QED BY <1>1, <2>1, SeqDef
<1>5. Active(new) = Active(list) \ expired
  BY <1>2, <1>3 DEF Active
<1>6. UniqueActiveIn(new) /\ IdsUnique(new)
  BY <1>2, <1>3, <1>5 DEF GoodList, UniqueActiveIn, IdsUnique, Active
<1>7. GoodList(new, top, seen)
  BY <1>2, <1>3, <1>6 DEF GoodList
<1> QED BY <1>2, <1>3, <1>4, <1>5, <1>7

-----------------------------------------------------------------------------
(* The inbox, and who paged the user.                                      *)

LEMMA RaiseKeeps ==
  ASSUME InboxInv, NEW id \in CondIds, RaiseAlert(id)
  PROVE  /\ [Next]_inbox /\ InboxInv'
         /\ \A k : Alerted(k)' => Alerted(k) \/ k = id
<1>1. CASE UNCHANGED inbox
  BY <1>1, InboxKeeps DEF Alerted
<1>2. CASE Newest(inbox) < MaxAlerts /\ RaiseNew(Newest(inbox) + 1, id)
  <2> DEFINE n == Newest(inbox) + 1
             a == NewAlert(n, id)
             long == Append(inbox, a)
  <2>1. inbox \in Seq(Alert) /\ Len(inbox) \in Nat /\ DOMAIN inbox = 1..Len(inbox)
    BY LenProperties DEF InboxInv, TypeOK
  <2>2. Newest(inbox) \in Nat
    <3>1. CASE inbox = <<>>
      BY <3>1 DEF Newest
    <3>2. CASE inbox # <<>>
      <4>1. Len(inbox) \in 1..Len(inbox)
        BY <2>1, <3>2, EmptySeq
      <4>2. inbox[Len(inbox)] \in Alert
        BY <2>1, <4>1, ElementOfSeq
      <4> QED BY <3>2, <4>2 DEF Newest, Alert, AlertIds
    <3> QED BY <3>1, <3>2
  <2>3. n \in AlertIds /\ id \in Keys \cup {NoKey}
    BY <1>2, <2>2, InboxAssumption, WatchAssumption DEF AlertIds
  <2>4. Next
    BY <1>2, <2>3 DEF Next
  <2>5. a \in Alert /\ a.key = id
    BY <2>3 DEF NewAlert, Alert
  <2>6. inbox' = Capped(long)
    BY <1>2 DEF RaiseNew
  <2> HIDE DEF a, n
  <2>7. /\ long \in Seq(Alert) /\ Len(long) = Len(inbox) + 1
        /\ \A i \in 1..Len(inbox) : long[i] = inbox[i]
        /\ long[Len(inbox) + 1] = a
    BY <2>1, <2>5, AppendProperties
  <2> HIDE DEF long
  <2>8. \A i \in DOMAIN long : long[i].key = id \/ Alerted(long[i].key)
    <3>1. DOMAIN long = 1..(Len(inbox) + 1)
      BY <2>7, LenProperties
    <3>2. \A i \in 1..(Len(inbox) + 1) : i \in 1..Len(inbox) \/ i = Len(inbox) + 1
      BY <2>1
    <3> QED BY <2>1, <2>5, <2>7, <3>1, <3>2 DEF Alerted
  <2>9. PICK d \in Nat : \A i \in DOMAIN inbox' : i + d \in DOMAIN long /\ inbox'[i] = long[i + d]
    BY <2>6, <2>7, CappedIsSuffix
  <2>10. \A k : Alerted(k)' => Alerted(k) \/ k = id
    BY <2>8, <2>9 DEF Alerted
  <2> QED BY <2>4, <2>10, InboxKeeps
<1> QED BY <1>1, <1>2 DEF RaiseAlert

LEMMA ReadKeeps ==
  ASSUME InboxInv, UserReads
  PROVE  [Next]_inbox /\ InboxInv' /\ \A k : Alerted(k)' => Alerted(k)
<1>1. inbox' = MarkedRead(inbox, AlertIds) /\ inbox \in Seq(Alert)
  BY DEF UserReads, InboxInv, TypeOK
<1>2. Next
  BY <1>1 DEF Next, MarkRead
<1>3. \A i \in DOMAIN inbox' : i \in DOMAIN inbox /\ inbox'[i].key = inbox[i].key
  <2> SUFFICES ASSUME NEW i \in DOMAIN inbox' PROVE i \in DOMAIN inbox /\ inbox'[i].key = inbox[i].key
    OBVIOUS
  <2>1. i \in DOMAIN inbox /\ inbox'[i] = [inbox[i] EXCEPT !.read = @ \/ inbox[i].id \in AlertIds]
    BY <1>1 DEF MarkedRead
  <2>2. inbox[i] \in Alert
    BY <1>1, <2>1, LenProperties, ElementOfSeq
  <2> QED BY <2>1, <2>2 DEF Alert
<1> QED BY <1>2, <1>3, InboxKeeps DEF Alerted

-----------------------------------------------------------------------------
(* The calls.                                                              *)

(* As long as the file and the inbox stay what they are.                   *)
LEMMA SameFile ==
  ASSUME conds' = conds, \A k : Alerted(k)' => Alerted(k)
  PROVE  /\ \A list, todo : Kin(list, todo)' <=> Kin(list, todo)
         /\ \A list, gone : Quiet(list, gone) => Quiet(list, gone)'
  BY DEF Kin, Quiet

LEMMA EmptyList ==
  ASSUME NEW top, NEW seen
  PROVE  GoodList(<<>>, top, seen) /\ Idle \in Call
<1>1. DOMAIN <<>> = {}
  OBVIOUS
<1> QED BY <1>1, EmptySeq DEF GoodList, UniqueActiveIn, IdsUnique, Active, Idle, Call

(* A call begins: it has loaded the file and knows what it will write or   *)
(* whom it will judge.                                                     *)
LEMMA StartKeeps ==
  ASSUME IInv, NEW t \in Threads, Loads(t), NEW c \in Call, call' = [call EXCEPT ![t] = c],
         c.pc # "idle", c.todo \subseteq Active(c.list),
         lastId' \in lastId..MaxConds, GoodList(c.list, lastId', observed),
         c.cancels \subseteq 1..lastId', Kin(c.list, c.todo),
         Quiet(conds, cancelled) => Quiet(c.list, cancelled \cup c.cancels),
         UNCHANGED <<conds, inbox, observed, cancelled>>
  PROVE  IInv'
<1>1. /\ call \in [Threads -> Call] /\ lastId \in Nat /\ lastId' \in Nat /\ lastId <= lastId'
      /\ lastId' \in 0..MaxConds
  BY WatchAssumption DEF IInv, WatchTypeOK
<1>2. /\ call' \in [Threads -> Call] /\ call'[t] = c
      /\ \A u \in Threads \ {t} : call'[u] = call[u]
  BY <1>1
<1>3. call[t].pc = "idle" /\ raced' = (raced \/ \E u \in Threads \ {t} : call[u].pc # "idle")
  BY DEF Loads
<1>4. WatchTypeOK'
  BY <1>1, <1>2, <1>3 DEF IInv, WatchTypeOK
<1>5. InboxInv'
  BY InboxKeeps DEF IInv
<1>6. Lists'
  <2>1. GoodList(conds, lastId', observed)
    BY <1>1, GoodLasts DEF IInv, Lists
  <2>2. ASSUME NEW u \in Threads PROVE GoodList(call'[u].list, lastId', observed)
    BY <1>1, <1>2, GoodLasts DEF IInv, Lists
  <2> QED BY <2>1, <2>2 DEF Lists
<1>7. History'
  <2>1. \A x \in 1..lastId : x \in 1..lastId'
    BY <1>1
  <2>2. AlertOnlyAfterMiss'
    BY DEF IInv, History, AlertOnlyAfterMiss, Alerted
  <2>3. \A u \in Threads : call'[u].cancels \subseteq 1..lastId'
    BY <1>2, <2>1 DEF IInv, History
  <2> QED BY <2>1, <2>2, <2>3 DEF IInv, History
<1>8. Serial'
  <2>1. ASSUME ~raced' PROVE ~raced /\ \A u \in Threads \ {t} : call[u].pc = "idle"
    BY <1>3, <2>1
  <2>2. PICK gone : gone = cancelled \cup c.cancels
    OBVIOUS
  <2>3. ASSUME ~raced' PROVE Quiet(conds, cancelled) /\ Quiet(c.list, gone)
    BY <2>1, <2>2, <2>3 DEF IInv, Serial
  <2>4. ASSUME ~raced' PROVE Quiet(conds, cancelled)' /\ Quiet(c.list, gone)'
    BY <2>3, <2>4 DEF Quiet, Alerted
  <2>5. Kin(c.list, c.todo)'
    BY DEF Kin
  <2>6. ASSUME ~raced' PROVE \A u \in Threads : call'[u].pc # "idle" => u = t
    BY <1>2, <2>1, <2>6
  <2>7. gone = cancelled' \cup c.cancels
    BY <2>2
  <2> QED BY <1>2, <2>4, <2>5, <2>6, <2>7 DEF Serial, Kin, Quiet
<1> QED BY <1>4, <1>5, <1>6, <1>7, <1>8 DEF IInv

(* add_conditions. *)
LEMMA AddStep ==
  ASSUME IInv, NEW t \in Threads, NEW levels \in AnswerLevels, Add(t, levels)
  PROVE  IInv'
<1> DEFINE new == levels \ ActiveLevels(conds)
           n == Cardinality(new)
<1>1. new \subseteq Levels /\ IsFiniteSet(new) /\ n \in Nat
  BY FS_Subset, FS_CardinalityType DEF AnswerLevels
<1>2. PICK order \in [1..n -> new] :
        /\ \A l \in new : \E i \in 1..n : order[i] = l
        /\ call' = [call EXCEPT ![t] =
             Writing(conds \o [i \in 1..n |-> NewCond(lastId + i, order[i])], {})]
  BY DEF Add
<1>3. /\ Loads(t) /\ lastId + n <= MaxConds /\ lastId' = lastId + n
      /\ UNCHANGED <<conds, inbox, observed, cancelled>>
  BY DEF Add
<1>4. \A i, j \in 1..n : order[i] = order[j] => i = j
  <2>1. IsFiniteSet(1..n) /\ Cardinality(1..n) = n
    BY <1>1, FS_Interval
  <2>2. order \in Surjection(1..n, new)
    BY <1>2 DEF Surjection
  <2>3. order \in Injection(1..n, new)
    BY <2>1, <2>2, FS_SurjSameCardinalityImpliesInj
  <2> QED BY <2>3 DEF Injection, IsInjective
<1>5. new \cap ActiveLevels(conds) = {}
  OBVIOUS
<1> HIDE DEF new, n
<1>6. /\ conds \in Seq(Cond) /\ lastId \in Nat /\ observed \subseteq 1..lastId
      /\ cancelled \subseteq 1..lastId /\ GoodList(conds, lastId, observed) /\ AlertOnlyAfterMiss
  BY DEF IInv, WatchTypeOK, Lists, History
<1>7. PICK top \in Nat, held \in Seq(Cond) : top = lastId /\ held = conds
  BY <1>6
<1>8. PICK seen : seen = observed
  OBVIOUS
<1>9. PICK levs \in SUBSET Levels, num \in Nat : levs = new /\ num = n
  BY <1>1
<1>10. /\ order \in [1..num -> Levels] /\ top + num <= MaxConds
       /\ seen \subseteq 1..top /\ GoodList(held, top, seen)
  BY <1>2, <1>3, <1>6, <1>7, <1>8, <1>9
<1>11. Unwatched(held, num, order)
  BY <1>2, <1>4, <1>5, <1>7, <1>9 DEF Unwatched
<1>12. PICK long :
       /\ call' = [call EXCEPT ![t] = Writing(long, {})]
       /\ long \in Seq(Cond) /\ GoodList(long, top + num, seen) /\ Appended(held, top, long)
  <2>1. PICK long : long = held \o Fresh(top, num, order)
    OBVIOUS
  <2>2. call' = [call EXCEPT ![t] = Writing(long, {})]
    BY <1>2, <1>7, <1>9, <2>1 DEF Fresh
  <2>3. Grown(held, top, num, order, long)
    BY <1>10, <2>1, GrownLemma
  <2> QED BY <1>10, <1>11, <2>2, <2>3, AppendConds
<1>13. PICK c : c = Writing(long, {})
  OBVIOUS
<1>14. call' = [call EXCEPT ![t] = c]
  BY <1>12, <1>13
<1>15. c \in Call /\ c.pc = "write" /\ c.list = long /\ c.todo = {} /\ c.cancels = {}
  BY <1>12, <1>13 DEF Writing, Idle, Call
<1>16. Kin(long, {})
  BY <1>7, <1>12 DEF Kin, LegalChange, Appended
<1>17. Quiet(conds, cancelled) => Quiet(long, cancelled)
  <2> SUFFICES ASSUME Quiet(conds, cancelled), NEW i \in DOMAIN long
               PROVE  /\ ~long[i].armed => ~Alerted(long[i].id)
                      /\ long[i].id \in cancelled => IsResolved(long[i])
    BY DEF Quiet
  <2>1. CASE i \in DOMAIN held
    BY <1>7, <1>12, <2>1 DEF Quiet, Appended
  <2>2. CASE i \notin DOMAIN held
    <3>1. long[i].id \notin 1..lastId /\ long[i].id \in CondIds
      BY <1>7, <1>12, <2>2, CondsType DEF Appended
    <3> QED BY <1>6, <3>1 DEF AlertOnlyAfterMiss
  <2> QED BY <2>1, <2>2
<1>18. lastId' \in lastId..MaxConds
  BY <1>1, <1>3, <1>6, WatchAssumption
<1>19. GoodList(long, lastId', observed)
  BY <1>3, <1>7, <1>8, <1>9, <1>12
<1>20. cancelled \cup {} = cancelled
  OBVIOUS
<1> QED BY <1>3, <1>14, <1>15, <1>16, <1>17, <1>18, <1>19, <1>20, StartKeeps

(* cancel_condition. *)
LEMMA CancelStep ==
  ASSUME IInv, NEW t \in Threads, NEW i \in DOMAIN conds, Cancel(t, i)
  PROVE  IInv'
<1>1. /\ Loads(t) /\ i \in Active(conds) /\ UNCHANGED <<conds, inbox, lastId, observed, cancelled>>
      /\ call' = [call EXCEPT ![t] =
           Writing([conds EXCEPT ![i].status = "cancelled"], {conds[i].id})]
  BY DEF Cancel
<1>2. /\ conds \in Seq(Cond) /\ lastId \in Nat /\ lastId \in 0..MaxConds
      /\ GoodList(conds, lastId, observed)
  BY WatchAssumption DEF IInv, WatchTypeOK, Lists
<1>3. PICK held \in Seq(Cond) : held = conds
  BY <1>2
<1>4. PICK top, seen : top = lastId /\ seen = observed
  OBVIOUS
<1>5. i \in Active(held) /\ GoodList(held, top, seen) /\ i \in DOMAIN held
  BY <1>1, <1>2, <1>3, <1>4
<1>6. PICK dead : dead = [held[i] EXCEPT !.status = "cancelled"]
  OBVIOUS
<1>7. held[i] \in Cond /\ IsActive(held[i])
  BY <1>5, CondsType DEF Active, IsActive
<1>8. /\ dead \in Cond /\ dead.id = held[i].id /\ dead.level = held[i].level
      /\ dead.armed = held[i].armed /\ dead.status = "cancelled" /\ LegalChange(held[i], dead)
  BY <1>6, <1>7 DEF Cond, LegalChange
<1>9. PICK new : new = [held EXCEPT ![i] = dead]
  OBVIOUS
<1>10. dead.armed => dead.id \in seen
  BY <1>5, <1>8 DEF GoodList
<1>11. /\ new \in Seq(Cond) /\ DOMAIN new = DOMAIN held /\ GoodList(new, top, seen)
       /\ new[i] = dead /\ \A j \in DOMAIN held : j # i => new[j] = held[j]
  BY <1>5, <1>8, <1>9, <1>10, ReplaceKeeps
<1>12. PICK c : c = Writing(new, {held[i].id})
  OBVIOUS
<1>13. call' = [call EXCEPT ![t] = c]
  BY <1>1, <1>3, <1>6, <1>9, <1>12
<1>14. c \in Call /\ c.pc = "write" /\ c.list = new /\ c.todo = {} /\ c.cancels = {held[i].id}
  BY <1>7, <1>11, <1>12 DEF Writing, Idle, Call, Cond
<1>15. Kin(new, {})
  BY <1>3, <1>7, <1>8, <1>11 DEF Kin, LegalChange
<1>16. PICK gone : gone = cancelled \cup {held[i].id}
  OBVIOUS
<1>17. Quiet(conds, cancelled) => Quiet(new, gone)
  <2> SUFFICES ASSUME Quiet(conds, cancelled), NEW j \in DOMAIN new
               PROVE  /\ ~new[j].armed => ~Alerted(new[j].id)
                      /\ new[j].id \in gone => IsResolved(new[j])
    BY DEF Quiet
  <2>1. CASE j = i
    BY <1>3, <1>5, <1>8, <1>11, <2>1 DEF Quiet, IsResolved
  <2>2. CASE j # i
    <3>1. held[j].id # held[i].id
      BY <1>5, <1>11, <2>2 DEF GoodList, IdsUnique
    <3> QED BY <1>3, <1>11, <1>16, <2>2, <3>1 DEF Quiet
  <2> QED BY <2>1, <2>2
<1>18. c.cancels \subseteq 1..lastId'
  BY <1>1, <1>4, <1>5, <1>14 DEF GoodList
<1>19. lastId' \in lastId..MaxConds /\ GoodList(c.list, lastId', observed)
  BY <1>1, <1>2, <1>4, <1>11, <1>14, WatchAssumption
<1>20. Quiet(conds, cancelled) => Quiet(c.list, cancelled \cup c.cancels)
  BY <1>14, <1>16, <1>17
<1> QED BY <1>1, <1>13, <1>14, <1>15, <1>18, <1>19, <1>20, StartKeeps

(* evaluate_conditions loads the file.                                     *)
LEMMA EvaluateStep ==
  ASSUME IInv, NEW t \in Threads, NEW expired, EvaluateLoads(t, expired)
  PROVE  IInv'
<1>1. /\ Loads(t) /\ expired \subseteq Active(conds)
      /\ UNCHANGED <<conds, inbox, lastId, observed, cancelled>>
      /\ call' = [call EXCEPT ![t] =
           [Idle EXCEPT !.pc = "judge", !.todo = Active(conds) \ expired,
                        !.list = [i \in DOMAIN conds |->
                           IF i \in expired THEN [conds[i] EXCEPT !.status = "expired"]
                           ELSE conds[i]]]]
  BY DEF EvaluateLoads
<1>2. /\ conds \in Seq(Cond) /\ lastId \in Nat /\ lastId \in 0..MaxConds
      /\ GoodList(conds, lastId, observed)
  BY WatchAssumption DEF IInv, WatchTypeOK, Lists
<1>3. PICK held \in Seq(Cond) : held = conds
  BY <1>2
<1>4. PICK top, seen : top = lastId /\ seen = observed
  OBVIOUS
<1>5. expired \subseteq Active(held) /\ GoodList(held, top, seen)
  BY <1>1, <1>2, <1>3, <1>4
<1>6. PICK new :
        /\ call' = [call EXCEPT ![t] =
             [Idle EXCEPT !.pc = "judge", !.todo = Active(held) \ expired, !.list = new]]
        /\ new \in Seq(Cond) /\ DOMAIN new = DOMAIN held /\ GoodList(new, top, seen)
        /\ \A i \in DOMAIN held :
             /\ new[i].id = held[i].id /\ new[i].armed = held[i].armed
             /\ IF i \in expired
                THEN IsActive(held[i]) /\ new[i] = [held[i] EXCEPT !.status = "expired"]
                ELSE new[i] = held[i]
        /\ Active(held) \ expired = Active(new)
  <2>1. PICK new : new = Expired(held, expired)
    OBVIOUS
  <2>2. call' = [call EXCEPT ![t] =
             [Idle EXCEPT !.pc = "judge", !.todo = Active(held) \ expired, !.list = new]]
    BY <1>1, <1>3, <2>1 DEF Expired
  <2>3. /\ new \in Seq(Cond) /\ DOMAIN new = DOMAIN held /\ GoodList(new, top, seen)
        /\ \A i \in DOMAIN held :
             /\ new[i].id = held[i].id /\ new[i].armed = held[i].armed
             /\ IF i \in expired
                THEN IsActive(held[i]) /\ new[i] = [held[i] EXCEPT !.status = "expired"]
                ELSE new[i] = held[i]
        /\ Active(held) \ expired = Active(new)
    BY <1>5, <2>1, ExpireKeeps
  <2> QED BY <2>2, <2>3
<1>7. PICK c : c = [Idle EXCEPT !.pc = "judge", !.todo = Active(held) \ expired, !.list = new]
  OBVIOUS
<1>8. call' = [call EXCEPT ![t] = c]
  BY <1>6, <1>7
<1>9. /\ c.pc = "judge" /\ c.list = new /\ c.todo = Active(held) \ expired /\ c.cancels = {}
      /\ c \in Call
  <2>1. Active(held) \in SUBSET Nat
    BY CondsType DEF Active
  <2> QED BY <1>6, <1>7, <2>1 DEF Idle, Call
<1>10. \A i \in DOMAIN held : held[i] \in Cond
  BY CondsType
<1>11. Kin(new, c.todo)
  <2>1. \A i \in DOMAIN conds :
          IF IsActive(conds[i]) THEN LegalChange(conds[i], new[i]) ELSE new[i] = conds[i]
    BY <1>3, <1>6 DEF LegalChange
  <2>2. \A i \in c.todo : i \in DOMAIN conds /\ new[i] = conds[i] /\ IsActive(new[i])
    BY <1>3, <1>6, <1>9 DEF Active, IsActive
  <2> QED BY <1>3, <1>6, <2>1, <2>2 DEF Kin
<1>12. Quiet(conds, cancelled) => Quiet(new, cancelled)
  <2> SUFFICES ASSUME Quiet(conds, cancelled), NEW i \in DOMAIN new
               PROVE  /\ ~new[i].armed => ~Alerted(new[i].id)
                      /\ new[i].id \in cancelled => IsResolved(new[i])
    BY DEF Quiet
  <2>1. IsResolved(held[i]) => IsResolved(new[i])
    BY <1>6 DEF IsActive, IsResolved
  <2> QED BY <1>3, <1>6, <2>1 DEF Quiet
<1>13. c.cancels \subseteq 1..lastId' /\ cancelled \cup c.cancels = cancelled
  BY <1>9
<1>14. lastId' \in lastId..MaxConds /\ GoodList(c.list, lastId', observed)
  BY <1>1, <1>2, <1>4, <1>6, <1>9, WatchAssumption
<1>15. c.todo \subseteq Active(c.list) /\ c.pc # "idle" /\ Kin(c.list, c.todo)
  BY <1>6, <1>9, <1>11
<1>16. Quiet(conds, cancelled) => Quiet(c.list, cancelled \cup c.cancels)
  BY <1>9, <1>12, <1>13
<1> QED BY <1>1, <1>8, <1>9, <1>13, <1>14, <1>15, <1>16, StartKeeps

-----------------------------------------------------------------------------
(* One condition judged.                                                   *)

LEMMA CurrentLemma ==
  ASSUME WatchTypeOK, NEW t \in Threads, Judging(t)
  PROVE  /\ Current(t) \in call[t].todo /\ Current(t) \in Active(call[t].list)
         /\ Current(t) \in DOMAIN call[t].list /\ call[t].list[Current(t)] \in Cond
         /\ IsActive(call[t].list[Current(t)])
<1>1. call[t] \in Call /\ call[t].todo # {} /\ call[t].todo \subseteq Active(call[t].list)
  BY DEF Judging, WatchTypeOK
<1>2. call[t].todo \in SUBSET Nat /\ call[t].list \in Seq(Cond)
  BY <1>1 DEF Call
<1>3. \E i \in call[t].todo : \A j \in call[t].todo : i <= j
  BY <1>1, <1>2, MinExists
<1>4. Current(t) \in call[t].todo
  BY <1>3 DEF Current
<1> QED BY <1>1, <1>2, <1>4, CondsType DEF Active, IsActive

(* The current condition becomes cond, and only if it was and stays armed  *)
(* is there a new alert, about it.                                         *)
LEMMA JudgeKeeps ==
  ASSUME IInv, NEW t \in Threads, Judging(t), NEW k, k = Current(t),
         NEW old, old = call[t].list[k], NEW cond \in Cond, Judged(t, cond),
         cond.id = old.id, cond.level = old.level, LegalChange(old, cond),
         cond.armed => cond.id \in observed', cond.status = "void" => ~cond.armed,
         observed \subseteq observed', observed' \subseteq observed \cup {old.id}, InboxInv',
         \A x : Alerted(x)' => Alerted(x) \/ (x = old.id /\ old.armed),
         UNCHANGED <<conds, lastId, cancelled, raced>>
  PROVE  IInv'
<1>1. /\ conds \in Seq(Cond) /\ call \in [Threads -> Call] /\ lastId \in Nat
      /\ observed \in SUBSET CondIds
      /\ \A u \in Threads : call[u].todo \subseteq Active(call[u].list)
  BY WatchAssumption DEF IInv, WatchTypeOK
<1>2. /\ k \in call[t].todo /\ k \in Active(call[t].list) /\ k \in DOMAIN call[t].list
      /\ old \in Cond /\ IsActive(old)
  BY CurrentLemma DEF IInv
<1>3. PICK list \in Seq(Cond), todo \in SUBSET Nat, cancels \in SUBSET CondIds :
        list = call[t].list /\ todo = call[t].todo /\ cancels = call[t].cancels
  BY <1>1 DEF Call
<1>4. PICK new : new = [list EXCEPT ![k] = cond]
  OBVIOUS
<1>5. PICK c : c = [call[t] EXCEPT !.todo = todo \ {k}, !.list = new]
  OBVIOUS
<1>6. call' = [call EXCEPT ![t] = c]
  BY <1>1, <1>3, <1>4, <1>5 DEF Judged
<1>7. call'[t] = c /\ \A u \in Threads \ {t} : call'[u] = call[u]
  BY <1>1, <1>6
<1>8. c.pc = "judge" /\ call[t].pc = "judge" /\ c.list = new /\ c.todo = todo \ {k} /\ c.cancels = cancels
  BY <1>1, <1>3, <1>5 DEF Call, Judging
<1>9. old = list[k] /\ k \in DOMAIN list /\ k \in todo /\ k \in Active(list) /\ todo \subseteq Active(list)
  BY <1>1, <1>2, <1>3
<1>10. PICK top, seen, more : top = lastId /\ seen = observed /\ more = observed'
  OBVIOUS
<1>11. \A l : GoodList(l, top, seen) => GoodList(l, top, more)
  BY <1>1, <1>10, GoodLasts
<1>12. GoodList(list, top, seen) /\ GoodList(conds, top, seen)
  BY <1>3, <1>10 DEF IInv, Lists
<1>13. /\ new \in Seq(Cond) /\ DOMAIN new = DOMAIN list /\ GoodList(new, top, more)
       /\ new[k] = cond /\ \A j \in DOMAIN list : j # k => new[j] = list[j]
  <2>1. /\ GoodList(list, top, more) /\ (cond.armed => cond.id \in more)
        /\ cond.id = list[k].id /\ cond.level = list[k].level
    BY <1>9, <1>10, <1>11, <1>12
  <2> QED BY <1>4, <1>9, <2>1, ReplaceKeeps
<1>14. observed' \in SUBSET CondIds
  BY <1>1, <1>2 DEF Cond
<1>15. WatchTypeOK'
  <2>1. c \in Call
    <3>1. call[t] \in Call /\ new \in Seq(Cond) /\ todo \ {k} \in SUBSET Nat
      BY <1>1, <1>13
    <3> QED BY <1>5, <3>1 DEF Call
  <2>2. c.todo \subseteq Active(c.list)
    <3>1. \A j \in todo \ {k} : j \in DOMAIN list /\ list[j].status = "active"
      BY <1>9 DEF Active
    <3>2. \A j \in todo \ {k} : j \in DOMAIN new /\ new[j].status = "active"
      BY <1>13, <3>1
    <3> QED BY <1>8, <3>2 DEF Active
  <2>3. call' \in [Threads -> Call] /\ \A u \in Threads : call'[u].todo \subseteq Active(call'[u].list)
    BY <1>1, <1>6, <1>7, <2>1, <2>2
  <2>4. inbox' \in Seq(Alert)
    BY DEF InboxInv, TypeOK
  <2> QED BY <1>14, <2>3, <2>4 DEF IInv, WatchTypeOK
<1>16. Lists'
  <2>1. \A u \in Threads : GoodList(call'[u].list, top, more)
    BY <1>7, <1>8, <1>10, <1>11, <1>13 DEF IInv, Lists
  <2> QED BY <1>10, <1>11, <1>12, <2>1 DEF Lists
<1>17. History'
  <2>1. old.id \in 1..lastId /\ (old.armed => old.id \in observed)
    BY <1>9, <1>10, <1>12 DEF GoodList
  <2>2. \A u \in Threads : call'[u].cancels \subseteq 1..lastId
    BY <1>3, <1>7, <1>8 DEF IInv, History
  <2>3. AlertOnlyAfterMiss'
    BY <2>1 DEF IInv, History, AlertOnlyAfterMiss
  <2> QED BY <2>1, <2>2, <2>3 DEF IInv, History
<1>18. Serial'
  <2>1. PICK gone : gone = cancelled \cup cancels
    OBVIOUS
  <2>2. ASSUME ~raced
        PROVE  /\ \A u, v \in Threads : call[u].pc # "idle" /\ call[v].pc # "idle" => u = v
               /\ Quiet(conds, cancelled) /\ Kin(list, todo) /\ Quiet(list, gone)
    BY <1>3, <1>8, <2>1, <2>2 DEF IInv, Serial
  <2>3. ASSUME ~raced PROVE Quiet(conds, cancelled)'
    <3> SUFFICES ASSUME NEW i \in DOMAIN conds
                 PROVE  /\ ~conds[i].armed => ~Alerted(conds[i].id)'
                        /\ conds[i].id \in cancelled => IsResolved(conds[i])
      BY DEF Quiet
    <3>1. k \in DOMAIN conds /\ conds[k] = old
      BY <1>9, <2>2, <2>3 DEF Kin
    <3>2. conds[i].id = old.id => i = k
      BY <1>12, <3>1 DEF GoodList, IdsUnique
    <3> QED BY <2>2, <2>3, <3>1, <3>2 DEF Quiet
  <2>4. ASSUME ~raced PROVE Kin(new, todo \ {k})'
    <3>1. Kin(list, todo)
      BY <2>2, <2>4
    <3>2. DOMAIN conds \subseteq DOMAIN new
      BY <1>13, <3>1 DEF Kin
    <3>3. k \in DOMAIN conds /\ conds[k] = old
      BY <1>9, <3>1 DEF Kin
    <3>4. \A i \in DOMAIN conds :
            IF IsActive(conds[i]) THEN LegalChange(conds[i], new[i]) ELSE new[i] = conds[i]
      <4> TAKE i \in DOMAIN conds
      <4>1. CASE i = k
        BY <1>2, <1>13, <3>3, <4>1
      <4>2. CASE i # k
        <5>1. new[i] = list[i]
          BY <1>13, <3>1, <4>2 DEF Kin
        <5> QED BY <3>1, <5>1 DEF Kin
      <4> QED BY <4>1, <4>2
    <3>5. \A i \in todo \ {k} : i \in DOMAIN conds /\ new[i] = conds[i] /\ IsActive(new[i])
      BY <1>9, <1>13, <3>1 DEF Kin, Active
    <3>6. Kin(new, todo \ {k})
      BY <3>2, <3>4, <3>5 DEF Kin
    <3> QED BY <3>6 DEF Kin
  <2>5. ASSUME ~raced PROVE Quiet(new, gone)'
    <3> SUFFICES ASSUME NEW i \in DOMAIN new
                 PROVE  /\ ~new[i].armed => ~Alerted(new[i].id)'
                        /\ new[i].id \in gone => IsResolved(new[i])
      BY DEF Quiet
    <3>1. Quiet(list, gone)
      BY <2>2, <2>5
    <3>2. CASE i = k
      <4>1. old.armed => cond.armed
        BY <1>2 DEF LegalChange, Cond
      <4>2. old.id \notin gone
        BY <1>2, <1>9, <3>1 DEF Quiet, IsActive, IsResolved
      <4> QED BY <1>9, <1>13, <3>1, <3>2, <4>1, <4>2 DEF Quiet
    <3>3. CASE i # k
      <4>1. new[i] = list[i] /\ i \in DOMAIN list
        BY <1>13, <3>3
      <4>2. list[i].id # old.id
        BY <1>9, <1>12, <3>3, <4>1 DEF GoodList, IdsUnique
      <4> QED BY <3>1, <4>1, <4>2 DEF Quiet
    <3> QED BY <3>2, <3>3
  <2>6. ASSUME ~raced PROVE \A u \in Threads : call'[u].pc # "idle" => u = t
    BY <1>7, <1>8, <2>2, <2>6
  <2>7. gone = cancelled' \cup c.cancels
    BY <1>8, <2>1
  <2> QED BY <1>7, <1>8, <2>3, <2>4, <2>5, <2>6, <2>7 DEF Serial, Kin, Quiet
<1> QED BY <1>15, <1>16, <1>17, <1>18 DEF IInv

(* The verdicts on one condition. *)
LEMMA JudgeStep ==
  ASSUME IInv, NEW t \in Threads,
         JudgeNoQuote(t) \/ JudgeMiss(t) \/ JudgeVoid(t) \/ JudgeFire(t)
  PROVE  IInv'
<1>1. PICK k, old : k = Current(t) /\ old = call[t].list[k]
  OBVIOUS
<1>2. Judging(t)
  BY DEF JudgeNoQuote, JudgeMiss, JudgeVoid, JudgeFire
<1>3. old \in Cond /\ IsActive(old) /\ old.id \in CondIds /\ old.status = "active"
  BY <1>1, <1>2, CurrentLemma DEF IInv, Cond, IsActive
<1>4. old.armed => old.id \in observed
  <2>1. k \in DOMAIN call[t].list
    BY <1>1, <1>2, CurrentLemma DEF IInv
  <2> QED BY <1>1, <2>1 DEF IInv, Lists, GoodList
<1>5. CASE JudgeNoQuote(t)
  <2>1. Judged(t, old) /\ UNCHANGED <<conds, inbox, lastId, observed, cancelled, raced>>
    BY <1>1, <1>5 DEF JudgeNoQuote
  <2>2. InboxInv'
    BY <2>1, InboxKeeps DEF IInv
  <2>3. \A x : Alerted(x)' => Alerted(x)
    BY <2>1 DEF Alerted
  <2>4. LegalChange(old, old)
    BY DEF LegalChange
  <2> QED BY <1>1, <1>2, <1>3, <1>4, <2>1, <2>2, <2>3, <2>4, JudgeKeeps
<1>6. CASE JudgeMiss(t)
  <2>1. PICK c : c = [old EXCEPT !.armed = TRUE]
    OBVIOUS
  <2>2. /\ Judged(t, c) /\ observed' = observed \cup {old.id}
        /\ UNCHANGED <<conds, inbox, lastId, cancelled, raced>>
    BY <1>1, <1>6, <2>1 DEF JudgeMiss
  <2>3. InboxInv' /\ \A x : Alerted(x)' => Alerted(x)
    BY <2>2, InboxKeeps DEF IInv, Alerted
  <2>4. c \in Cond /\ c.id = old.id /\ c.level = old.level /\ c.status = "active"
    BY <1>3, <2>1 DEF Cond
  <2>5. LegalChange(old, c)
    <3>1. CASE old.armed
      BY <1>3, <2>1, <3>1 DEF LegalChange, Cond
    <3>2. CASE ~old.armed
      BY <2>1, <3>2 DEF LegalChange
    <3> QED BY <3>1, <3>2
  <2>6. c.id \in observed' /\ c.status # "void"
    BY <2>2, <2>4
  <2> QED BY <1>1, <1>2, <2>2, <2>3, <2>4, <2>5, <2>6, JudgeKeeps
<1>7. CASE JudgeVoid(t)
  <2>1. PICK c : c = [old EXCEPT !.status = "void"]
    OBVIOUS
  <2>2. ~old.armed /\ Judged(t, c) /\ UNCHANGED <<conds, inbox, lastId, observed, cancelled, raced>>
    BY <1>1, <1>7, <2>1 DEF JudgeVoid
  <2>3. InboxInv' /\ \A x : Alerted(x)' => Alerted(x)
    BY <2>2, InboxKeeps DEF IInv, Alerted
  <2>4. c \in Cond /\ c.id = old.id /\ c.level = old.level /\ ~c.armed
    BY <1>3, <2>1, <2>2 DEF Cond
  <2>5. LegalChange(old, c)
    BY <2>1, <2>2 DEF LegalChange
  <2> QED BY <1>1, <1>2, <2>2, <2>3, <2>4, <2>5, JudgeKeeps
<1>8. CASE JudgeFire(t)
  <2>1. PICK c : c = [old EXCEPT !.status = "fired"]
    OBVIOUS
  <2>2. /\ old.armed /\ Judged(t, c) /\ RaiseAlert(old.id)
        /\ UNCHANGED <<conds, lastId, observed, cancelled, raced>>
    BY <1>1, <1>8, <2>1 DEF JudgeFire
  <2>3. InboxInv' /\ \A x : Alerted(x)' => Alerted(x) \/ (x = old.id /\ old.armed)
    BY <1>3, <2>2, RaiseKeeps DEF IInv
  <2>4. /\ c \in Cond /\ c.id = old.id /\ c.level = old.level /\ c.armed = old.armed
        /\ c.status = "fired"
    BY <1>3, <2>1 DEF Cond
  <2>5. LegalChange(old, c)
    BY <2>1, <2>2 DEF LegalChange
  <2>6. c.id \in observed' /\ c.status # "void"
    BY <1>4, <2>2, <2>4
  <2> QED BY <1>1, <1>2, <2>2, <2>3, <2>4, <2>5, <2>6, JudgeKeeps
<1> QED BY <1>5, <1>6, <1>7, <1>8

-----------------------------------------------------------------------------
(* The end of a call, and the rest.                                        *)

LEMMA DoneStep ==
  ASSUME IInv, NEW t \in Threads, EvaluateDone(t)
  PROVE  IInv'
<1>1. PICK c : c = Writing(call[t].list, {})
  OBVIOUS
<1>2. /\ call[t].pc = "judge" /\ call \in [Threads -> Call] /\ call[t] \in Call
      /\ UNCHANGED <<conds, inbox, lastId, observed, cancelled, raced>>
  BY DEF EvaluateDone, IInv, WatchTypeOK
<1>3. call' = [call EXCEPT ![t] = c]
  BY <1>1, <1>2 DEF EvaluateDone
<1>4. call'[t] = c /\ \A u \in Threads \ {t} : call'[u] = call[u]
  BY <1>2, <1>3
<1>5. c \in Call /\ c.pc = "write" /\ c.list = call[t].list /\ c.todo = {} /\ c.cancels = {}
  BY <1>1, <1>2 DEF Writing, Idle, Call
<1>6. WatchTypeOK'
  BY <1>2, <1>3, <1>4, <1>5 DEF IInv, WatchTypeOK
<1>7. InboxInv'
  BY <1>2, InboxKeeps DEF IInv
<1>8. Lists'
  BY <1>2, <1>4, <1>5 DEF IInv, Lists
<1>9. History'
  BY <1>2, <1>4, <1>5 DEF IInv, History, AlertOnlyAfterMiss, Alerted
<1>10. Serial'
  <2>1. PICK list, todo, gone, all :
          list = call[t].list /\ todo = call[t].todo /\ gone = cancelled \cup call[t].cancels /\ all = cancelled
    OBVIOUS
  <2>2. ASSUME ~raced
        PROVE  /\ \A u, v \in Threads : call[u].pc # "idle" /\ call[v].pc # "idle" => u = v
               /\ Quiet(conds, cancelled) /\ Kin(list, todo) /\ Quiet(list, gone)
    BY <1>2, <2>1, <2>2 DEF IInv, Serial
  <2>3. ASSUME ~raced PROVE Quiet(conds, cancelled)' /\ Quiet(list, all)'
    BY <1>2, <2>1, <2>2, <2>3 DEF Quiet, Alerted
  <2>4. ASSUME ~raced PROVE Kin(list, {})'
    BY <1>2, <2>2, <2>4 DEF Kin
  <2>5. ASSUME ~raced PROVE \A u \in Threads : call'[u].pc # "idle" => u = t
    BY <1>2, <1>4, <2>2, <2>5
  <2>6. all = cancelled' \cup c.cancels
    BY <1>2, <1>5, <2>1
  <2> QED BY <1>2, <1>4, <1>5, <2>1, <2>3, <2>4, <2>5, <2>6 DEF Serial, Kin, Quiet
<1> QED BY <1>6, <1>7, <1>8, <1>9, <1>10 DEF IInv

LEMMA WriteStep ==
  ASSUME IInv, NEW t \in Threads, Write(t)
  PROVE  IInv'
<1>1. /\ call[t].pc = "write" /\ call \in [Threads -> Call] /\ call[t] \in Call
      /\ conds' = Trim(call[t].list) /\ cancelled' = cancelled \cup call[t].cancels
      /\ call' = [call EXCEPT ![t] = Idle]
      /\ UNCHANGED <<inbox, lastId, observed, raced>>
  BY DEF Write, IInv, WatchTypeOK
<1>2. call'[t] = Idle /\ \A u \in Threads \ {t} : call'[u] = call[u]
  BY <1>1
<1>3. Idle \in Call /\ Idle.pc = "idle" /\ Idle.list = <<>> /\ Idle.todo = {} /\ Idle.cancels = {}
  BY EmptyList DEF Idle
<1>4. PICK list \in Seq(Cond) : list = call[t].list
  BY <1>1 DEF Call
<1>5. PICK top, seen, gone :
         top = lastId /\ seen = observed /\ gone = cancelled \cup call[t].cancels
  OBVIOUS
<1>6. /\ conds' \in Seq(Cond) /\ GoodList(conds', top, seen)
      /\ Quiet(list, gone) => Quiet(conds', gone)
  <2>1. PICK new : new = Trim(list)
    OBVIOUS
  <2>2. GoodList(list, top, seen)
    BY <1>4, <1>5 DEF IInv, Lists
  <2>3. new \in Seq(Cond) /\ GoodList(new, top, seen) /\ (Quiet(list, gone) => Quiet(new, gone))
    BY <2>1, <2>2, TrimKeeps
  <2>4. conds' = new
    BY <1>1, <1>4, <2>1
  <2> QED BY <2>3, <2>4
<1>7. WatchTypeOK'
  <2>1. call' \in [Threads -> Call]
    BY <1>1, <1>3
  <2>2. \A u \in Threads : call'[u].todo \subseteq Active(call'[u].list)
    BY <1>2, <1>3 DEF IInv, WatchTypeOK
  <2>3. cancelled' \in SUBSET CondIds
    BY <1>1 DEF Call, IInv, WatchTypeOK
  <2> QED BY <1>1, <1>6, <2>1, <2>2, <2>3 DEF IInv, WatchTypeOK
<1>8. InboxInv'
  BY <1>1, InboxKeeps DEF IInv
<1>9. Lists'
  <2>1. GoodList(<<>>, top, seen)
    BY EmptyList
  <2> QED BY <1>1, <1>2, <1>3, <1>4, <1>5, <1>6, <2>1 DEF IInv, Lists
<1>10. History'
  BY <1>1, <1>2, <1>3 DEF IInv, History, AlertOnlyAfterMiss, Alerted
<1>11. Serial'
  <2>1. ASSUME ~raced
        PROVE  /\ \A u, v \in Threads : call[u].pc # "idle" /\ call[v].pc # "idle" => u = v
               /\ Quiet(list, gone)
    BY <1>1, <1>4, <1>5, <2>1 DEF IInv, Serial
  <2>2. ASSUME ~raced PROVE \A u \in Threads : call'[u].pc = "idle"
    BY <1>1, <1>2, <1>3, <2>1, <2>2
  <2>3. ASSUME ~raced PROVE Quiet(conds, cancelled)'
    <3>1. Quiet(conds', gone)
      BY <1>6, <2>1, <2>3
    <3>2. gone = cancelled'
      BY <1>1, <1>5
    <3> QED BY <1>1, <3>1, <3>2 DEF Quiet, Alerted
  <2> QED BY <1>1, <2>2, <2>3 DEF Serial
<1> QED BY <1>7, <1>8, <1>9, <1>10, <1>11 DEF IInv

(* Some calls are over without a trace: a failed write, a crash.           *)
LEMMA DropStep ==
  ASSUME IInv, call' \in [Threads -> Call], \A u \in Threads : call'[u] \in {call[u], Idle},
         UNCHANGED <<conds, inbox, lastId, observed, cancelled, raced>>
  PROVE  IInv'
<1>1. Idle.pc = "idle" /\ Idle.list = <<>> /\ Idle.todo = {} /\ Idle.cancels = {}
  BY DEF Idle
<1>2. WatchTypeOK'
  BY <1>1 DEF IInv, WatchTypeOK
<1>3. InboxInv'
  BY InboxKeeps DEF IInv
<1>4. Lists'
  <2>1. PICK top, seen : top = lastId /\ seen = observed
    OBVIOUS
  <2>2. GoodList(<<>>, top, seen)
    BY EmptyList
  <2> QED BY <1>1, <2>1, <2>2 DEF IInv, Lists
<1>5. History'
  BY <1>1 DEF IInv, History, AlertOnlyAfterMiss, Alerted
<1>6. Serial'
  <2>1. \A u \in Threads : call'[u].pc # "idle" => call'[u] = call[u]
    BY <1>1
  <2> QED BY <2>1 DEF IInv, Serial, Kin, Quiet, Alerted
<1> QED BY <1>2, <1>3, <1>4, <1>5, <1>6 DEF IInv

LEMMA ReadStep == ASSUME IInv, UserReads PROVE IInv'
<1>1. UNCHANGED <<conds, call, lastId, observed, cancelled, raced>>
  BY DEF UserReads
<1>2. InboxInv' /\ \A x : Alerted(x)' => Alerted(x)
  BY ReadKeeps DEF IInv
<1>3. WatchTypeOK'
  BY <1>1, <1>2 DEF IInv, WatchTypeOK, InboxInv, TypeOK
<1>4. Lists'
  BY <1>1 DEF IInv, Lists
<1>5. History'
  BY <1>1, <1>2 DEF IInv, History, AlertOnlyAfterMiss
<1>6. Serial'
  BY <1>1, <1>2 DEF IInv, Serial, Kin, Quiet
<1> QED BY <1>2, <1>3, <1>4, <1>5, <1>6 DEF IInv

LEMMA StepKeeps == ASSUME IInv, [WatchNext]_vars PROVE IInv'
<1>1. ASSUME NEW t \in Threads, NEW levels \in AnswerLevels, Add(t, levels) PROVE IInv'
  BY <1>1, AddStep
<1>2. ASSUME NEW t \in Threads, NEW i \in DOMAIN conds, Cancel(t, i) PROVE IInv'
  BY <1>2, CancelStep
<1>3. ASSUME NEW t \in Threads, Evaluate(t) PROVE IInv'
  BY <1>3, EvaluateStep, JudgeStep, DoneStep DEF Evaluate
<1>4. ASSUME NEW t \in Threads, Write(t) PROVE IInv'
  BY <1>4, WriteStep
<1>5. ASSUME NEW t \in Threads, WriteFails(t) PROVE IInv'
  <2>1. call \in [Threads -> Call] /\ Idle \in Call
    BY EmptyList DEF IInv, WatchTypeOK
  <2>2. call' \in [Threads -> Call] /\ \A u \in Threads : call'[u] \in {call[u], Idle}
    BY <1>5, <2>1 DEF WriteFails
  <2> QED BY <1>5, <2>2, DropStep DEF WriteFails
<1>6. CASE UserReads
  BY <1>6, ReadStep
<1>7. CASE Crash
  <2>1. call' \in [Threads -> Call] /\ \A u \in Threads : call'[u] \in {call[u], Idle}
    BY <1>7, EmptyList DEF Crash
  <2> QED BY <1>7, <2>1, DropStep DEF Crash
<1>8. CASE UNCHANGED vars
  <2>1. call' \in [Threads -> Call] /\ \A u \in Threads : call'[u] \in {call[u], Idle}
    BY <1>8 DEF vars, IInv, WatchTypeOK
  <2> QED BY <1>8, <2>1, DropStep DEF vars
<1> QED BY <1>1, <1>2, <1>3, <1>4, <1>5, <1>6, <1>7, <1>8 DEF WatchNext

LEMMA InitGood == WatchInit => IInv
<1> SUFFICES ASSUME WatchInit PROVE IInv
  OBVIOUS
<1> USE DEF WatchInit
<1>1. PICK top, seen : top = lastId /\ seen = observed
  OBVIOUS
<1>2. GoodList(<<>>, top, seen) /\ Idle \in Call
  BY EmptyList
<1>3. /\ Idle.pc = "idle" /\ Idle.list = <<>> /\ Idle.todo = {} /\ Idle.cancels = {}
      /\ \A t \in Threads : call[t] = Idle
  BY DEF Idle
<1>4. WatchTypeOK
  <2>1. conds \in Seq(Cond) /\ inbox \in Seq(Alert)
    BY EmptySeq
  <2>2. call \in [Threads -> Call]
    BY <1>2
  <2>3. lastId \in 0..MaxConds
    BY WatchAssumption
  <2> QED BY <1>3, <2>1, <2>2, <2>3 DEF WatchTypeOK
<1>5. InboxInv
  BY InboxAssumption DEF InboxInv, TypeOK, UnreadUnique, OldestFirst, UniqueIn, OrderedIn
<1>6. Lists
  BY <1>1, <1>2, <1>3 DEF Lists
<1>7. History
  BY <1>3 DEF History, AlertOnlyAfterMiss, Alerted
<1>8. Serial
  BY <1>3 DEF Serial, Quiet
<1> QED BY <1>4, <1>5, <1>6, <1>7, <1>8 DEF IInv

(* Every reachable state satisfies the invariant: whatever the calls have  *)
(* loaded and changed is a list fit to be the file.                        *)
THEOREM WatchInvariant == WatchSpec => []IInv
<1>1. IInv /\ [WatchNext]_vars => IInv'
  BY StepKeeps
<1> QED BY <1>1, InitGood, PTL DEF WatchSpec

(* The file is well formed and no two live conditions watch one level,     *)
(* however add_conditions, cancel_condition and evaluate_conditions        *)
(* overwrite each other's work.                                            *)
THEOREM StoreIsSound == WatchSpec => []StoreInv
<1>1. IInv => StoreInv
  BY DEF IInv, StoreInv, UniqueActive, Lists, GoodList
<1> QED BY <1>1, WatchInvariant, PTL

(* evaluate_conditions pages the user for crossings only: never before a   *)
(* miss was seen, and while no two calls overlap never for a condition     *)
(* that was voided at its first evaluation.                                *)
THEOREM PagesAreCrossings == WatchSpec => []PagesOnlyCrossings
<1>1. ASSUME IInv PROVE PagesOnlyCrossings
  <2>1. AlertOnlyAfterMiss
    BY <1>1 DEF IInv, History
  <2>2. VoidNeverAlerts
    BY <1>1 DEF IInv, Serial, Quiet, Lists, GoodList, VoidNeverAlerts
  <2> QED BY <2>1, <2>2 DEF PagesOnlyCrossings
<1> QED BY <1>1, WatchInvariant, PTL

-----------------------------------------------------------------------------
(* What a step does to the inbox and to the file.                          *)

LEMMA InboxStep ==
  ASSUME IInv, [WatchNext]_vars
  PROVE  [Next]_inbox /\ (~raced => CancelledStayQuiet)
<1>1. CASE UNCHANGED inbox
  BY <1>1 DEF CancelledStayQuiet, Alerted
<1>2. CASE UserReads
  BY <1>2, ReadKeeps DEF CancelledStayQuiet, IInv
<1>3. ASSUME NEW t \in Threads, JudgeFire(t)
      PROVE  [Next]_inbox /\ (~raced => CancelledStayQuiet)
  <2>1. PICK k, old : k = Current(t) /\ old = call[t].list[k]
    OBVIOUS
  <2>2. Judging(t) /\ RaiseAlert(old.id)
    BY <1>3, <2>1 DEF JudgeFire
  <2>3. k \in DOMAIN call[t].list /\ old.id \in CondIds /\ IsActive(old)
    BY <2>1, <2>2, CurrentLemma DEF IInv, Cond
  <2>4. [Next]_inbox /\ \A x : Alerted(x)' => Alerted(x) \/ x = old.id
    BY <2>2, <2>3, RaiseKeeps DEF IInv
  <2>5. ASSUME ~raced PROVE old.id \notin cancelled
    <3>1. Quiet(call[t].list, cancelled \cup call[t].cancels)
      BY <2>2, <2>5 DEF IInv, Serial, Judging
    <3> QED BY <2>1, <2>3, <3>1 DEF Quiet, IsActive, IsResolved
  <2> QED BY <2>4, <2>5 DEF CancelledStayQuiet
<1> QED BY <1>1, <1>2, <1>3
        DEF WatchNext, vars, Add, Cancel, Evaluate, EvaluateLoads, JudgeNoQuote, JudgeMiss,
            JudgeVoid, EvaluateDone, Write, WriteFails, Crash

LEMMA FileStep ==
  ASSUME IInv, [WatchNext]_vars, ~raced
  PROVE  LegalRewrite
<1> DEFINE Kept(id) == {c \in {conds'[j] : j \in DOMAIN conds'} : c.id = id}
<1>1. conds \in Seq(Cond) /\ IdsUnique(conds) /\ \A i \in DOMAIN conds : conds[i] \in Cond
  BY CondsType DEF IInv, WatchTypeOK, Lists, GoodList
<1>2. CASE UNCHANGED conds
  <2>1. \A i \in DOMAIN conds : Kept(conds[i].id) = {conds[i]}
    BY <1>1, <1>2 DEF IdsUnique
  <2>2. \A i \in DOMAIN conds : LegalChange(conds[i], conds[i])
    BY DEF LegalChange
  <2> QED BY <2>1, <2>2 DEF LegalRewrite
<1>3. ASSUME NEW t \in Threads, Write(t)
      PROVE  LegalRewrite
  <2>1. call[t].pc = "write" /\ conds' = Trim(call[t].list) /\ call[t].list \in Seq(Cond)
    BY <1>3 DEF Write, IInv, WatchTypeOK, Call
  <2>2. PICK list \in Seq(Cond), todo \in SUBSET Nat : list = call[t].list /\ todo = call[t].todo
    BY <2>1 DEF IInv, WatchTypeOK, Call
  <2>3. PICK new : new = Trim(list)
    OBVIOUS
  <2>4. /\ \A i \in DOMAIN new : \E a \in DOMAIN list : new[i] = list[a]
        /\ \A a \in Active(list) : \E i \in DOMAIN new : new[i] = list[a]
    BY <2>3, TrimLemma
  <2>5. IdsUnique(list) /\ Kin(list, todo)
    BY <2>1, <2>2 DEF IInv, Lists, GoodList, Serial
  <2>6. ASSUME NEW i \in DOMAIN conds
        PROVE  /\ i \in DOMAIN list /\ list[i].id = conds[i].id
               /\ Kept(conds[i].id) \subseteq {list[i]}
    <3>1. i \in DOMAIN list /\ (LegalChange(conds[i], list[i]) \/ list[i] = conds[i])
      BY <2>5 DEF Kin
    <3>2. list[i].id = conds[i].id
      BY <1>1, <3>1 DEF LegalChange, Cond
    <3>3. \A c \in Kept(conds[i].id) : c = list[i]
      BY <2>1, <2>2, <2>3, <2>4, <2>5, <3>1, <3>2 DEF IdsUnique
    <3> QED BY <3>1, <3>2, <3>3
  <2>7. ASSUME NEW i \in DOMAIN conds, Kept(conds[i].id) = {}
        PROVE  Resolving(conds[i].id)
    <3>1. i \notin Active(list)
      <4>1. SUFFICES ASSUME i \in Active(list) PROVE FALSE
        OBVIOUS
      <4>2. PICK j \in DOMAIN new : new[j] = list[i]
        BY <2>4, <4>1
      <4>3. conds'[j] \in Kept(conds[i].id)
        BY <2>1, <2>2, <2>3, <2>6, <4>2
      <4> QED BY <2>7, <4>3
    <3> QED BY <2>1, <2>2, <2>6, <3>1 DEF Resolving, Active, IsResolved
  <2>8. \A i \in DOMAIN conds :
          IF IsActive(conds[i]) THEN LegalChange(conds[i], list[i]) ELSE list[i] = conds[i]
    BY <2>5 DEF Kin
  <2> QED BY <2>6, <2>7, <2>8 DEF LegalRewrite
<1> QED BY <1>2, <1>3
        DEF WatchNext, vars, Add, Cancel, Evaluate, EvaluateLoads, JudgeNoQuote, JudgeMiss,
            JudgeVoid, JudgeFire, EvaluateDone, WriteFails, UserReads, Crash

(* While no two calls overlap: no rewrite of the file evicts or revives a  *)
(* condition, and a cancelled one never pages the user again.              *)
THEOREM LifecycleIsRespected == WatchSpec => LifecycleRespected
<1>1. IInv /\ [WatchNext]_vars => [~raced => LegalRewrite /\ CancelledStayQuiet]_vars
  BY InboxStep, FileStep
<1> QED BY <1>1, WatchInvariant, PTL DEF WatchSpec, LifecycleRespected

(* To the inbox the trigger store is one more caller: all it does there is *)
(* raise alerts and let the user read them.                                *)
THEOREM StoreRefinesInbox == WatchSpec => Spec
<1>1. WatchInit => Init
  BY DEF WatchInit, Init
<1>2. IInv /\ [WatchNext]_vars => [Next]_inbox
  BY InboxStep
<1> QED BY <1>1, <1>2, WatchInvariant, PTL DEF WatchSpec, Spec

-----------------------------------------------------------------------------
(* The sentinel, for any metrics, boundaries, rungs, holdings and signals.  *)

(* A memory that stands by what was told: it holds every told level for     *)
(* present, so that no reading makes it news.                               *)
StandsBy(mem, S) ==
  /\ \A m \in Metrics : \A k \in DOMAIN Boundaries[m] :
       <<"band", m, k>> \in S => k <= mem.band[m]
  /\ \A r \in Rungs : <<"rung", r>> \in S => r \in mem.fired
  /\ \A hc \in Holdings \X Crosses : <<"cross", hc>> \in S => mem.cross[hc] = "present"
  /\ \A h \in Holdings : <<"spike", h>> \in S => mem.spike[h] = "loud"

(* What a memory holds for absent, some reading found absent.               *)
Founded(mem, S) ==
  /\ \A m \in Metrics : mem.band[m] # Unseen =>
       \A k \in DOMAIN Boundaries[m] : k > mem.band[m] => <<"band", m, k>> \in S
  /\ \A hc \in Holdings \X Crosses : mem.cross[hc] = "absent" => <<"cross", hc>> \in S
  /\ \A h \in Holdings : mem.spike[h] = "quiet" => <<"spike", h>> \in S

(* What a memory takes note of, compared with the one the tick started      *)
(* from, is announced or has no baseline.                                   *)
Noted(old, new, S) ==
  /\ \A m \in Metrics : \/ new.band[m] <= old.band[m] \/ old.band[m] = Unseen
                        \/ <<"band", m, new.band[m]>> \in S
  /\ \A r \in new.fired : r \in old.fired \/ ~old.seen \/ <<"rung", r>> \in S
  /\ \A hc \in Holdings \X Crosses :
       new.cross[hc] = "present" =>
         old.cross[hc] \in {"present", Unknown} \/ <<"cross", hc>> \in S
  /\ \A h \in Holdings :
       new.spike[h] = "loud" => old.spike[h] \in {"loud", Unknown} \/ <<"spike", h>> \in S

Base == IF tick.lost THEN Blank ELSE file

(* Before the holdings have been read the tick knows nothing new of them.   *)
HoldingsToCome ==
  /\ tick.mem.cross = Base.cross /\ tick.mem.spike = Base.spike
  /\ \A hc \in Holdings \X Crosses : <<"cross", hc>> \notin tick.pending
  /\ \A h \in Holdings : <<"spike", h>> \notin tick.pending

TickInv ==
  /\ Undelivered => /\ StandsBy(tick.mem, told \cup tick.pending)
                    /\ Founded(tick.mem, unreached)
                    /\ Noted(Base, tick.mem, tick.pending)
  /\ tick.pc = "holdings" => HoldingsToCome

SentinelIInv == /\ SentinelTypeOK /\ OnlyNews /\ NoRefire
        /\ StandsBy(file, told) /\ Founded(file, unreached)
        /\ TickInv

-----------------------------------------------------------------------------
(* Levels, bands and the ladder.                                            *)

(* The kinds of levels do not mix.                                          *)
LEMMA Kinds ==
  /\ \A a, b, c : /\ <<"band", a, b>> # <<"rung", c>>
                  /\ <<"band", a, b>> # <<"cross", c>>
                  /\ <<"band", a, b>> # <<"spike", c>>
  /\ \A a, b : /\ <<"rung", a>> # <<"cross", b>> /\ <<"rung", a>> # <<"spike", b>>
               /\ <<"cross", a>> # <<"spike", b>>
<1>1. ASSUME NEW a, NEW b, NEW c, NEW t
      PROVE  <<"band", a, b>> # <<t, c>>
  <2>1. Len(<<"band", a, b>>) = 3 /\ Len(<<t, c>>) = 2
    OBVIOUS
  <2> QED BY <2>1
<1> QED BY <1>1

LEMMA LevelShape ==
  /\ \A m, k : <<"band", m, k>> \in Level <=> m \in Metrics /\ k \in 1..Len(Boundaries[m])
  /\ \A r : <<"rung", r>> \in Level <=> r \in Rungs
  /\ \A hc : <<"cross", hc>> \in Level <=> hc \in Holdings \X Crosses
  /\ \A h : <<"spike", h>> \in Level <=> h \in Holdings
<1> DEFINE B == UNION {{<<"band", m, b>> : b \in 1..Len(Boundaries[m])} : m \in Metrics}
<1>1. Level = B \cup {<<"rung", r>> : r \in Rungs}
                \cup {<<"cross", hc>> : hc \in Holdings \X Crosses}
                \cup {<<"spike", h>> : h \in Holdings}
  BY DEF Level
<1>2. \A m, k : <<"band", m, k>> \in B <=> m \in Metrics /\ k \in 1..Len(Boundaries[m])
  OBVIOUS
<1>3. \A x \in B : \E m, k : x = <<"band", m, k>>
  OBVIOUS
<1> HIDE DEF B
<1> QED BY <1>1, <1>2, <1>3, Kinds

(* A nonempty set of numbers up to n has a greatest.                        *)
LEMMA MaxOfBounded ==
  ASSUME NEW n \in Nat, NEW S \in SUBSET (0..n), S # {}
  PROVE  MaxOf(S) \in S /\ \A y \in S : y <= MaxOf(S)
<1> DEFINE T == {k \in Nat : n - k \in S}
<1>1. PICK x : x \in S
  OBVIOUS
<1>2. n - x \in T
  BY <1>1
<1>3. PICK k \in T : \A j \in T : ~(<<j, k>> \in OpToRel(<, Nat))
  <2>1. T \subseteq Nat /\ T # {}
    BY <1>2
  <2> HIDE DEF T
  <2> QED BY <2>1, NatLessThanWellFounded, WFMin
<1>4. \A j \in T : ~(j < k)
  BY <1>3 DEF OpToRel
<1>5. n - k \in S /\ \A y \in S : y <= n - k
  <2>1. ASSUME NEW y \in S PROVE y <= n - k
    <3>1. n - y \in T
      OBVIOUS
    <3> QED BY <1>4, <3>1
  <2> QED BY <2>1
<1> QED BY <1>5 DEF MaxOf

(* Where the hysteresis leaves a metric: a boundary above the new band has  *)
(* not been cleared, and one within the old band stays, unless undercut.    *)
LEMMA BandFacts ==
  ASSUME NEW m \in Metrics, NEW v \in Nat, NEW last \in 0..Len(Boundaries[m]),
         NEW new, new = BandWithHysteresis(m, v, last)
  PROVE  /\ new \in 0..Len(Boundaries[m])
         /\ \A k \in DOMAIN Boundaries[m] : k > new => v < Boundaries[m][k] + Margin
         /\ \A k \in 1..last : v > Boundaries[m][k] - Margin => k <= new
<1> USE SentinelAssumption
<1> DEFINE b == Boundaries[m]
           n == Len(b)
           U == {last} \cup {k \in DOMAIN b : v >= b[k] + Margin}
           up == MaxOf(U)
           D == {0} \cup {k \in 1..up : v > b[k] - Margin}
<1>1. n \in Nat /\ DOMAIN b = 1..n /\ \A k \in 1..n : b[k] \in Nat
  OBVIOUS
<1>2. new = MaxOf(D)
  BY DEF BandWithHysteresis
<1> HIDE DEF b, n
<1>3. last \in 0..n
  BY DEF n, b
<1>4. U \in SUBSET (0..n) /\ U # {}
  BY <1>1, <1>3
<1>5. up \in U /\ \A k \in U : k <= up
  <2> HIDE DEF U
  <2> QED BY <1>1, <1>4, MaxOfBounded
<1>6. up \in 0..n /\ last <= up /\ \A k \in 1..n : k > up => v < b[k] + Margin
  <2> HIDE DEF up
  <2>1. last \in U /\ \A k \in 1..n : v >= b[k] + Margin => k \in U
    BY <1>1
  <2>2. up \in 0..n /\ last <= up
    BY <1>4, <1>5, <2>1
  <2>3. ASSUME NEW k \in 1..n, k > up PROVE v < b[k] + Margin
    <3>1. ~(k <= up)
      BY <2>2, <2>3, <1>1
    <3>2. ~(v >= b[k] + Margin)
      BY <3>1, <2>1, <1>5
    <3> QED BY <3>2, <1>1
  <2> QED BY <2>2, <2>3
<1> HIDE DEF up
<1>7. D \in SUBSET (0..n) /\ D # {}
  BY <1>1, <1>6
<1>8. new \in D /\ \A k \in D : k <= new
  <2> HIDE DEF D
  <2> QED BY <1>1, <1>2, <1>7, MaxOfBounded
<1>9. new \in 0..n
  BY <1>7, <1>8
<1>10. ASSUME NEW k \in 1..n, k > new PROVE v < b[k] + Margin
  <2>1. k \notin D
    BY <1>8, <1>9, <1>10, <1>1
  <2>2. CASE k > up
    BY <2>2, <1>6
  <2>3. CASE ~(k > up)
    <3>1. k \in 1..up /\ ~(v > b[k] - Margin)
      BY <2>1, <2>3, <1>6, <1>1
    <3> QED BY <3>1, <1>1
  <2> QED BY <2>2, <2>3
<1>11. ASSUME NEW k \in 1..last, v > b[k] - Margin PROVE k <= new
  BY <1>11, <1>6, <1>8, <1>3, <1>1
<1> QED BY <1>1, <1>9, <1>10, <1>11 DEF b, n

(* The same of a reading, or of none.                                       *)
LEMMA NewBandFacts ==
  ASSUME NEW m \in Metrics, NEW v \in Values \cup {Skipped},
         NEW last \in Unseen..Len(Boundaries[m]), NEW new, new = NewBand(m, v, last)
  PROVE  /\ new \in Unseen..Len(Boundaries[m])
         /\ v = Skipped => new = last
         /\ v # Skipped => /\ new # Unseen
                           /\ \A k \in DOMAIN Boundaries[m] :
                                k > new => v < Boundaries[m][k] + Margin
                           /\ \A k \in DOMAIN Boundaries[m] :
                                k <= last /\ v > Boundaries[m][k] - Margin => k <= new
<1> USE SentinelAssumption
<1>1. Len(Boundaries[m]) \in Nat /\ DOMAIN Boundaries[m] = 1..Len(Boundaries[m])
  OBVIOUS
<1>2. CASE v = Skipped
  BY <1>1, <1>2 DEF NewBand, Unseen
<1>3. CASE v # Skipped
  <2>1. PICK from : from = IF last = Unseen THEN 0 ELSE last
    OBVIOUS
  <2>2. v \in Nat /\ from \in 0..Len(Boundaries[m])
    BY <1>1, <1>3, <2>1 DEF Unseen
  <2>3. new = BandWithHysteresis(m, v, from)
    BY <1>3, <2>1 DEF NewBand
  <2>4. /\ new \in 0..Len(Boundaries[m])
        /\ \A k \in DOMAIN Boundaries[m] : k > new => v < Boundaries[m][k] + Margin
        /\ \A k \in 1..from : v > Boundaries[m][k] - Margin => k <= new
    BY <2>2, <2>3, BandFacts
  <2>5. \A k \in DOMAIN Boundaries[m] : k <= last => k \in 1..from
    BY <1>1, <2>1, <2>2 DEF Unseen
  <2>6. new \in Unseen..Len(Boundaries[m]) /\ new # Unseen
    BY <1>1, <2>4 DEF Unseen
  <2> QED BY <1>3, <2>4, <2>5, <2>6
<1> QED BY <1>2, <1>3

(* A rung fires once: it joins the fired ones, and was not among them.      *)
LEMMA LadderFacts ==
  ASSUME NEW mem \in Memory, NEW v \in Nat, NEW rungs \in SUBSET Rungs,
         NEW rung, rung = LadderStep(mem, v, rungs)
  PROVE  /\ rung.seen \in BOOLEAN /\ rung.fired \in SUBSET Rungs
         /\ rung.fires \subseteq rung.fired \ mem.fired
         /\ v > Reset => mem.fired \cap rungs \subseteq rung.fired
         /\ \A r \in rung.fired : r \in mem.fired \/ ~mem.seen \/ r \in rung.fires
<1> USE SentinelAssumption
<1>1. mem.fired \subseteq Rungs /\ mem.seen \in BOOLEAN
  BY DEF Memory
<1>2. CASE rungs = {}
  BY <1>1, <1>2 DEF LadderStep
<1>3. CASE rungs # {} /\ v <= Reset
  BY <1>1, <1>3 DEF LadderStep
<1>4. CASE rungs # {} /\ ~(v <= Reset)
  BY <1>1, <1>4 DEF LadderStep
<1> QED BY <1>2, <1>3, <1>4

-----------------------------------------------------------------------------
(* The two readings of a tick.                                              *)

LEMMA BandLevels ==
  ASSUME NEW m0 \in Metrics, NEW k0 \in DOMAIN Boundaries[m0], NEW v \in Nat,
         NEW m \in Metrics, NEW rungs \in SUBSET Rungs
  PROVE  /\ <<"band", m0, k0>> \in Rearmed(m, v, rungs) <=>
              m = m0 /\ v <= Boundaries[m0][k0] - Margin
         /\ <<"band", m0, k0>> \in BandsBelow(m, v) <=>
              m = m0 /\ v < Boundaries[m0][k0] + Margin
<1> DEFINE A == {<<"band", m, k>> : k \in {j \in DOMAIN Boundaries[m] : v <= Boundaries[m][j] - Margin}}
           B == IF m # SPY THEN {}
                ELSE {<<"rung", r>> : r \in IF v <= Reset THEN Rungs ELSE Rungs \ rungs}
<1>1. Rearmed(m, v, rungs) = A \cup B
  BY DEF Rearmed
<1>2. <<"band", m0, k0>> \notin B
  BY Kinds
<1>3. <<"band", m0, k0>> \in A <=> m = m0 /\ v <= Boundaries[m0][k0] - Margin
  OBVIOUS
<1>4. <<"band", m0, k0>> \in BandsBelow(m, v) <=> m = m0 /\ v < Boundaries[m0][k0] + Margin
  BY DEF BandsBelow
<1> QED BY <1>1, <1>2, <1>3, <1>4

LEMMA RungRearmed ==
  ASSUME NEW r \in Rungs, NEW v \in Nat, NEW rungs \in SUBSET Rungs
  PROVE  <<"rung", r>> \in Rearmed(SPY, v, rungs) <=> v <= Reset \/ r \notin rungs
<1> DEFINE A == {<<"band", SPY, k>> : k \in {j \in DOMAIN Boundaries[SPY] : v <= Boundaries[SPY][j] - Margin}}
           B == {<<"rung", q>> : q \in IF v <= Reset THEN Rungs ELSE Rungs \ rungs}
<1>1. Rearmed(SPY, v, rungs) = A \cup B
  BY DEF Rearmed
<1>2. <<"rung", r>> \notin A
  BY Kinds
<1>3. <<"rung", r>> \in B <=> v <= Reset \/ r \notin rungs
  OBVIOUS
<1> QED BY <1>1, <1>2, <1>3

(* What a reading makes of the bands, what the ladder of the rungs, and     *)
(* what is announced of both.                                               *)
BandsMove(reading, old, band) ==
  \A m \in Metrics :
    /\ band[m] \in Unseen..Len(Boundaries[m])
    /\ reading[m] = Skipped => band[m] = old[m]
    /\ reading[m] # Skipped =>
         /\ band[m] # Unseen
         /\ \A k \in DOMAIN Boundaries[m] :
              /\ k > band[m] => reading[m] < Boundaries[m][k] + Margin
              /\ k <= old[m] /\ reading[m] > Boundaries[m][k] - Margin => k <= band[m]

RungsMove(v, rungs, mem, rung) ==
  /\ rung.seen \in BOOLEAN /\ rung.fired \in SUBSET Rungs
  /\ rung.fires \subseteq rung.fired \ mem.fired
  /\ v = Skipped => rung.fired = mem.fired
  /\ v # Skipped /\ v > Reset => mem.fired \cap rungs \subseteq rung.fired
  /\ \A r \in rung.fired : r \in mem.fired \/ ~mem.seen \/ r \in rung.fires

Announced(old, band, fires, S) ==
  /\ \A m \in Metrics, k \in Nat :
       <<"band", m, k>> \in S => old[m] # Unseen /\ band[m] > old[m] /\ k = band[m]
  /\ \A m \in Metrics : old[m] # Unseen /\ band[m] > old[m] => <<"band", m, band[m]>> \in S
  /\ \A r : <<"rung", r>> \in S <=> r \in fires
  /\ \A hc : <<"cross", hc>> \notin S
  /\ \A h : <<"spike", h>> \notin S
  /\ \A x \in S : \/ \E m \in Metrics : /\ x = <<"band", m, band[m]>>
                                        /\ old[m] # Unseen /\ band[m] > old[m]
                  \/ \E r \in fires : x = <<"rung", r>>

LEMMA ReadBandsMove ==
  ASSUME NEW reading \in MarketReadings, NEW mem \in Memory, InBands(mem),
         NEW band, band = [m \in Metrics |-> NewBand(m, reading[m], mem.band[m])]
  PROVE  BandsMove(reading, mem.band, band)
<1>1. \A m \in Metrics : /\ reading[m] \in Values \cup {Skipped}
                         /\ mem.band[m] \in Unseen..Len(Boundaries[m])
                         /\ band[m] = NewBand(m, reading[m], mem.band[m])
  BY DEF MarketReadings, InBands
<1>2. ASSUME NEW m \in Metrics, NEW v, v = reading[m], NEW last, last = mem.band[m],
             NEW next, next = band[m]
      PROVE  /\ next \in Unseen..Len(Boundaries[m])
             /\ v = Skipped => next = last
             /\ v # Skipped => /\ next # Unseen
                               /\ \A k \in DOMAIN Boundaries[m] :
                                    k > next => v < Boundaries[m][k] + Margin
                               /\ \A k \in DOMAIN Boundaries[m] :
                                    k <= last /\ v > Boundaries[m][k] - Margin => k <= next
  <2>1. v \in Values \cup {Skipped} /\ last \in Unseen..Len(Boundaries[m])
    BY <1>1, <1>2
  <2>2. next = NewBand(m, v, last)
    BY <1>1, <1>2
  <2> QED BY ONLY <2>1, <2>2, NewBandFacts
<1> QED BY <1>2 DEF BandsMove

LEMMA ReadRungsMove ==
  ASSUME NEW reading \in MarketReadings, NEW mem \in Memory, NEW rungs \in SUBSET Rungs,
         NEW rung, rung = IF reading[SPY] = Skipped
                          THEN [seen |-> mem.seen, fired |-> mem.fired, fires |-> {}]
                          ELSE LadderStep(mem, reading[SPY], rungs)
  PROVE  RungsMove(reading[SPY], rungs, mem, rung)
<1> USE SentinelAssumption
<1>1. mem.seen \in BOOLEAN /\ mem.fired \in SUBSET Rungs
  BY DEF Memory
<1>2. CASE reading[SPY] = Skipped
  BY <1>1, <1>2 DEF RungsMove
<1>3. CASE reading[SPY] # Skipped
  <2>1. PICK v \in Nat : v = reading[SPY]
    BY <1>3 DEF MarketReadings
  <2>2. rung = LadderStep(mem, v, rungs)
    BY <1>3, <2>1
  <2>3. /\ rung.seen \in BOOLEAN /\ rung.fired \in SUBSET Rungs
        /\ rung.fires \subseteq rung.fired \ mem.fired
        /\ v > Reset => mem.fired \cap rungs \subseteq rung.fired
        /\ \A r \in rung.fired : r \in mem.fired \/ ~mem.seen \/ r \in rung.fires
    BY ONLY <2>2, LadderFacts, mem \in Memory, rungs \in SUBSET Rungs, v \in Nat
  <2>4. RungsMove(v, rungs, mem, rung)
    BY <1>3, <2>1, <2>3 DEF RungsMove
  <2> QED BY <2>1, <2>4
<1> QED BY <1>2, <1>3

LEMMA MarketAnnounces ==
  ASSUME NEW old, NEW band, NEW fires, NEW S,
         S = BandAlerts(old, band) \cup {<<"rung", r>> : r \in fires}
  PROVE  Announced(old, band, fires, S)
<1>1. \A x : x \in BandAlerts(old, band) <=>
        \E m \in Metrics : x = <<"band", m, band[m]>> /\ old[m] # Unseen /\ band[m] > old[m]
  BY DEF BandAlerts
<1>2. PICK F : F = {<<"rung", r>> : r \in fires}
  OBVIOUS
<1>3. PICK A : A = BandAlerts(old, band)
  OBVIOUS
<1>4. /\ \A x : x \in A <=> \E m \in Metrics : /\ x = <<"band", m, band[m]>>
                                               /\ old[m] # Unseen /\ band[m] > old[m]
      /\ \A x : x \in F <=> \E r \in fires : x = <<"rung", r>>
      /\ \A x : x \in S <=> x \in A \/ x \in F
  BY <1>1, <1>2, <1>3
<1> QED BY ONLY <1>4, Kinds DEF Announced

(* The metrics a reading covers, what is left of S when it has re-armed, and *)
(* U with what it found not reached.                                        *)
Covered(reading) == {m \in Metrics : reading[m] # Skipped}
LeftOf(S, reading, rungs) == S \ UNION {Rearmed(m, reading[m], rungs) : m \in Covered(reading)}
AddedTo(U, reading) == U \cup UNION {BandsBelow(m, reading[m]) : m \in Covered(reading)}

(* What a market reading makes of a memory that stands by S and is founded  *)
(* in U.                                                                    *)
(* The memory a tick may go on with: new, made of old, with P to announce,  *)
(* T told and U found absent before, W after the reading.                   *)
Fit(old, new, P, T, U, W) ==
  /\ P \in SUBSET Level /\ W \in SUBSET Level
  /\ StandsBy(new, T \cup P) /\ Founded(new, W) /\ Noted(old, new, P)
  /\ P \cap T = {} /\ P \ RungLevels \subseteq U

MarketRead(reading, rungs, mem, rung, new, P, S, T, U, W) ==
  /\ reading \in MarketReadings /\ mem \in Memory /\ InBands(mem) /\ rungs \in SUBSET Rungs
  /\ BandsMove(reading, mem.band, new.band)
  /\ RungsMove(reading[SPY], rungs, mem, rung) /\ new.fired = rung.fired
  /\ new.cross = mem.cross /\ new.spike = mem.spike
  /\ Announced(mem.band, new.band, rung.fires, P)
  /\ S \in SUBSET Level /\ StandsBy(mem, S) /\ T = LeftOf(S, reading, rungs)
  /\ U \in SUBSET Level /\ Founded(mem, U) /\ W = AddedTo(U, reading)

LEMMA MarketReading ==
  ASSUME NEW reading, NEW rungs, NEW mem, NEW rung, NEW new, NEW pending,
         NEW S, NEW T, NEW U, NEW W,
         MarketRead(reading, rungs, mem, rung, new, pending, S, T, U, W)
  PROVE  Fit(mem, new, pending, T, U, W)
<1>a. PICK band : band = new.band
  OBVIOUS
<1>b. /\ reading \in MarketReadings /\ mem \in Memory /\ InBands(mem) /\ rungs \in SUBSET Rungs
      /\ BandsMove(reading, mem.band, band)
      /\ RungsMove(reading[SPY], rungs, mem, rung) /\ new.fired = rung.fired
      /\ new.cross = mem.cross /\ new.spike = mem.spike
      /\ Announced(mem.band, band, rung.fires, pending)
      /\ S \in SUBSET Level /\ StandsBy(mem, S) /\ T = LeftOf(S, reading, rungs)
      /\ U \in SUBSET Level /\ Founded(mem, U) /\ W = AddedTo(U, reading)
  BY <1>a DEF MarketRead
<1> USE <1>a, <1>b
<1> USE SentinelAssumption
<1>0. PICK read : /\ read = {m \in Metrics : reading[m] # Skipped}
                  /\ T = S \ UNION {Rearmed(m, reading[m], rungs) : m \in read}
                  /\ W = U \cup UNION {BandsBelow(m, reading[m]) : m \in read}
  BY DEF Covered, LeftOf, AddedTo
<1>01. ASSUME NEW m \in read
       PROVE  /\ \A x \in Rearmed(m, reading[m], rungs) : x \notin T
              /\ \A x \in BandsBelow(m, reading[m]) : x \in W
  BY <1>0
<1>1. /\ mem.band \in [Metrics -> Nat \cup {Unseen}] /\ mem.seen \in BOOLEAN
      /\ mem.fired \in SUBSET Rungs
      /\ \A m \in Metrics : mem.band[m] \in Unseen..Len(Boundaries[m])
      /\ \A m \in Metrics : reading[m] \in Values \cup {Skipped}
      /\ \A m \in read : reading[m] \in Nat /\ m \in Metrics
      /\ \A m \in Metrics : m \notin read <=> reading[m] = Skipped
      /\ \A m \in Metrics : Len(Boundaries[m]) \in Nat
                            /\ DOMAIN Boundaries[m] = 1..Len(Boundaries[m])
                            /\ \A k \in DOMAIN Boundaries[m] : Boundaries[m][k] \in Nat
  <2>1. /\ mem.band \in [Metrics -> Nat \cup {Unseen}] /\ mem.seen \in BOOLEAN
        /\ mem.fired \in SUBSET Rungs
    BY DEF Memory
  <2>2. \A m \in Metrics : mem.band[m] \in Unseen..Len(Boundaries[m])
    BY DEF InBands
  <2>3. \A m \in Metrics : reading[m] \in Values \cup {Skipped}
    BY DEF MarketReadings
  <2>6. \A m : m \in read <=> m \in Metrics /\ reading[m] # Skipped
    BY <1>0
  <2>4. \A m \in Metrics : Boundaries[m] \in Seq(Nat)
    OBVIOUS
  <2>5. \A m \in Metrics : Len(Boundaries[m]) \in Nat
                            /\ DOMAIN Boundaries[m] = 1..Len(Boundaries[m])
                            /\ \A k \in DOMAIN Boundaries[m] : Boundaries[m][k] \in Nat
    BY <2>4
  <2> QED BY <2>1, <2>2, <2>3, <2>5, <2>6
<1>2. ASSUME NEW m \in Metrics
      PROVE  /\ band[m] \in Unseen..Len(Boundaries[m])
             /\ m \notin read => band[m] = mem.band[m]
             /\ m \in read => /\ band[m] # Unseen
                              /\ \A k \in DOMAIN Boundaries[m] :
                                   k > band[m] => reading[m] < Boundaries[m][k] + Margin
                              /\ \A k \in DOMAIN Boundaries[m] :
                                   k <= mem.band[m] /\ reading[m] > Boundaries[m][k] - Margin
                                     => k <= band[m]
  BY <1>1 DEF BandsMove
<1>3. /\ rung.seen \in BOOLEAN /\ rung.fired \in SUBSET Rungs
      /\ rung.fires \subseteq rung.fired \ mem.fired
      /\ SPY \notin read => rung.fired = mem.fired
      /\ SPY \in read /\ reading[SPY] > Reset => mem.fired \cap rungs \subseteq rung.fired
      /\ \A r \in rung.fired : r \in mem.fired \/ ~mem.seen \/ r \in rung.fires
  BY <1>1 DEF RungsMove
<1>7. /\ \A m \in Metrics, k \in Nat :
           <<"band", m, k>> \in pending => mem.band[m] # Unseen /\ band[m] > mem.band[m] /\ k = band[m]
      /\ \A m \in Metrics : mem.band[m] # Unseen /\ band[m] > mem.band[m] => <<"band", m, band[m]>> \in pending
      /\ \A r : <<"rung", r>> \in pending <=> r \in rung.fires
      /\ \A hc : <<"cross", hc>> \notin pending
      /\ \A h : <<"spike", h>> \notin pending
      /\ \A x \in pending : \/ \E m \in Metrics : /\ x = <<"band", m, band[m]>>
                                                  /\ mem.band[m] # Unseen
                                                  /\ band[m] > mem.band[m]
                            \/ \E r \in rung.fires : x = <<"rung", r>>
  BY DEF Announced
<1>8. ASSUME NEW m \in Metrics, mem.band[m] # Unseen, band[m] > mem.band[m]
      PROVE  band[m] \in DOMAIN Boundaries[m]
  BY <1>1, <1>2, <1>8 DEF Unseen
<1>9. pending \in SUBSET Level
  <2>1. ASSUME NEW x \in pending PROVE x \in Level
    <3>1. CASE \E m \in Metrics : /\ x = <<"band", m, band[m]>>
                                  /\ mem.band[m] # Unseen /\ band[m] > mem.band[m]
      BY <1>1, <1>8, <3>1, LevelShape, ZenonT(60)
    <3>2. CASE \E r \in rung.fires : x = <<"rung", r>>
      BY <1>3, <3>2, LevelShape
    <3> QED BY <1>7, <3>1, <3>2
  <2> QED BY <2>1
<1> QED
  <2>1. W \in SUBSET Level
    <3>1. ASSUME NEW m \in read, NEW x \in BandsBelow(m, reading[m]) PROVE x \in Level
      <4>1. PICK k \in DOMAIN Boundaries[m] : x = <<"band", m, k>>
        BY DEF BandsBelow
      <4>2. m \in Metrics /\ k \in 1..Len(Boundaries[m])
        BY <1>1
      <4> QED BY <4>1, <4>2, LevelShape
    <3> QED BY <1>0, <3>1
  <2>2. StandsBy(new, T \cup pending)
    <3>1. ASSUME NEW m \in Metrics, NEW k \in DOMAIN Boundaries[m], <<"band", m, k>> \in T
          PROVE  k <= new.band[m]
      <4>1. k <= mem.band[m] /\ <<"band", m, k>> \in S
        BY <1>0, <3>1 DEF StandsBy
      <4>2. CASE m \in read
        <5>1. <<"band", m, k>> \notin Rearmed(m, reading[m], rungs)
          BY <1>01, <3>1, <4>2
        <5>2. ~(reading[m] <= Boundaries[m][k] - Margin)
          BY <1>1, <4>2, <5>1, BandLevels
        <5> QED BY <1>1, <1>2, <4>1, <4>2, <5>2
      <4>3. CASE m \notin read
        BY <1>2, <4>1, <4>3
      <4> QED BY <4>2, <4>3
    <3>2. ASSUME NEW m \in Metrics, NEW k \in DOMAIN Boundaries[m], <<"band", m, k>> \in pending
          PROVE  k <= new.band[m]
      BY <1>1, <1>2, <1>7, <3>2
    <3>3. ASSUME NEW r \in Rungs, <<"rung", r>> \in T PROVE r \in new.fired
      <4>1. r \in mem.fired
        BY <1>0, <3>3 DEF StandsBy
      <4>2. CASE SPY \in read
        <5>1. <<"rung", r>> \notin Rearmed(SPY, reading[SPY], rungs)
          BY <1>01, <3>3, <4>2
        <5>2. ~(reading[SPY] <= Reset \/ r \notin rungs)
          BY <1>1, <4>2, <5>1, RungRearmed
        <5> QED BY <1>1, <1>2, <1>3, <4>1, <4>2, <5>2
      <4>3. CASE SPY \notin read
        BY <1>2, <1>3, <4>1, <4>3
      <4> QED BY <4>2, <4>3
    <3>4. ASSUME NEW r \in Rungs, <<"rung", r>> \in pending PROVE r \in new.fired
      BY <1>2, <1>3, <1>7, <3>4
    <3>5. T \subseteq S
      BY <1>0
    <3> QED BY <1>2, <1>7, <3>1, <3>2, <3>3, <3>4, <3>5 DEF StandsBy
  <2>3. Founded(new, W)
    <3>1. ASSUME NEW m \in Metrics, new.band[m] # Unseen,
                 NEW k \in DOMAIN Boundaries[m], k > new.band[m]
          PROVE  <<"band", m, k>> \in W
      <4>1. CASE m \in read
        <5>1. reading[m] < Boundaries[m][k] + Margin
          BY <1>2, <3>1, <4>1
        <5>2. <<"band", m, k>> \in BandsBelow(m, reading[m])
          BY <1>1, <4>1, <5>1, BandLevels
        <5> QED BY <1>01, <4>1, <5>2
      <4>2. CASE m \notin read
        BY <1>0, <1>2, <3>1, <4>2 DEF Founded
      <4> QED BY <4>1, <4>2
    <3> QED BY <1>0, <1>2, <3>1 DEF Founded
  <2>4. Noted(mem, new, pending)
    <3>1. ASSUME NEW m \in Metrics
          PROVE  \/ new.band[m] <= mem.band[m] \/ mem.band[m] = Unseen
                 \/ <<"band", m, new.band[m]>> \in pending
      <4>1. CASE mem.band[m] # Unseen /\ band[m] > mem.band[m]
        BY <1>1, <1>2, <1>7, <1>8, <4>1
      <4>2. CASE ~(band[m] > mem.band[m])
        BY <1>1, <1>2, <4>2 DEF Unseen
      <4> QED BY <4>1, <4>2
    <3>2. \A r \in new.fired : r \in mem.fired \/ ~mem.seen \/ <<"rung", r>> \in pending
      BY <1>2, <1>3, <1>7
    <3>3. \A hc \in Holdings \X Crosses :
            new.cross[hc] = "present" => mem.cross[hc] \in {"present", Unknown}
      BY <1>2
    <3>4. \A h \in Holdings : new.spike[h] = "loud" => mem.spike[h] \in {"loud", Unknown}
      BY <1>2
    <3> QED BY <3>1, <3>2, <3>3, <3>4 DEF Noted
  <2>5. ASSUME NEW x \in pending PROVE x \notin T /\ (x \in U \/ x \in RungLevels)
    <3>1. ASSUME NEW m \in Metrics, x = <<"band", m, band[m]>>,
                 mem.band[m] # Unseen, band[m] > mem.band[m]
          PROVE  x \notin T /\ x \in U
      <4>1. band[m] \in DOMAIN Boundaries[m]
        BY <1>8, <3>1
      <4>2. ~(band[m] <= mem.band[m])
        BY <1>1, <1>2, <3>1 DEF Unseen
      <4>3. x \notin S
        BY <3>1, <4>1, <4>2 DEF StandsBy
      <4>4. x \in U
        BY <3>1, <4>1 DEF Founded
      <4> QED BY <1>0, <4>3, <4>4
    <3>2. ASSUME NEW r \in rung.fires, x = <<"rung", r>> PROVE x \notin T /\ x \in RungLevels
      <4>1. r \notin mem.fired /\ r \in Rungs
        BY <1>3
      <4>2. x \notin S
        BY <3>2, <4>1 DEF StandsBy
      <4> QED BY <1>0, <3>2, <4>1, <4>2 DEF RungLevels
    <3> QED BY <1>7, <3>1, <3>2
  <2>6. pending \cap T = {} /\ pending \ RungLevels \subseteq U
    BY <2>5
  <2> QED BY <1>9, <2>1, <2>2, <2>3, <2>4, <2>6 DEF Fit

(* What a reading makes of a cross, that is found, not found or forgotten.  *)
CrossMove(old, new, found, absent, gone) ==
  \A hc \in Holdings \X Crosses :
    /\ new[hc] \in {Unknown, "absent", "present"}
    /\ hc \in found => hc \notin absent /\ hc \notin gone /\ new[hc] = "present"
    /\ hc \in absent => hc \notin gone /\ new[hc] = "absent"
    /\ hc \in gone => new[hc] = Unknown
    /\ hc \notin found /\ hc \notin absent /\ hc \notin gone => new[hc] = old[hc]

(* ... and of a volume, that is high, low, low enough to start from, or     *)
(* forgotten.                                                               *)
SpikeMove(old, new, high, low, below, gone) ==
  \A h \in Holdings :
    /\ new[h] \in {Unknown, "quiet", "loud"}
    /\ h \in high => h \notin below /\ h \notin gone /\ new[h] = "loud"
    /\ h \in low => h \in below
    /\ h \in below => h \notin gone
    /\ h \in below => new[h] = IF h \in low \/ old[h] = Unknown THEN "quiet" ELSE old[h]
    /\ h \in gone => new[h] = Unknown
    /\ h \notin high /\ h \notin below /\ h \notin gone => new[h] = old[h]

(* What a download shows of the crosses and of the volumes.                 *)
CurrentBars(tech) == {h \in DOMAIN tech : ~tech[h].stale}
Found(tech) == {hc \in CurrentBars(tech) \X Crosses : tech[hc[1]].cross[hc[2]]}
Absent(tech) == {hc \in CurrentBars(tech) \X Crosses : ~tech[hc[1]].cross[hc[2]]}
Gone(tech) == IF DOMAIN tech = {} THEN {} ELSE Holdings \ DOMAIN tech
Vol(tech, v) == {h \in CurrentBars(tech) : tech[h].vol = v}
Below(tech) == Vol(tech, "low") \cup Vol(tech, "between")

LEMMA TechShape ==
  ASSUME NEW tech \in HoldingReadings
  PROVE  /\ DOMAIN tech \in SUBSET Holdings
         /\ \A h \in DOMAIN tech : tech[h].stale \in BOOLEAN
                                   /\ tech[h].vol \in {"low", "between", "high", "none"}
                                   /\ \A c \in Crosses : tech[h].cross[c] \in BOOLEAN
<1>1. PICK D \in SUBSET Holdings : tech \in [D -> Signal]
  BY DEF HoldingReadings
<1> QED BY <1>1 DEF Signal

LEMMA ReadCrossMove ==
  ASSUME NEW tech \in HoldingReadings,
         NEW old \in [Holdings \X Crosses -> {Unknown, "absent", "present"}]
  PROVE  /\ CrossMove(old, NewCross(old, tech), Found(tech), Absent(tech), Gone(tech) \X Crosses)
         /\ NewCross(old, tech) \in [Holdings \X Crosses -> {Unknown, "absent", "present"}]
         /\ Found(tech) \subseteq Holdings \X Crosses /\ Absent(tech) \subseteq Holdings \X Crosses
         /\ CrossAlerts(old, tech)
              = {<<"cross", at>> : at \in {hc \in Found(tech) : old[hc] = "absent"}}
<1>0. PICK new, fresh, found, absent, gone :
        /\ new = NewCross(old, tech) /\ fresh = {h \in DOMAIN tech : ~tech[h].stale}
        /\ found = {hc \in fresh \X Crosses : tech[hc[1]].cross[hc[2]]}
        /\ absent = {hc \in fresh \X Crosses : ~tech[hc[1]].cross[hc[2]]}
        /\ gone = (IF DOMAIN tech = {} THEN {} ELSE Holdings \ DOMAIN tech) \X Crosses
        /\ found = Found(tech) /\ absent = Absent(tech) /\ gone = Gone(tech) \X Crosses
  BY DEF CurrentBars, Found, Absent, Gone
<1> USE <1>0
<1>1. /\ DOMAIN tech \in SUBSET Holdings
      /\ \A h \in DOMAIN tech : tech[h].stale \in BOOLEAN
      /\ \A h \in DOMAIN tech, c \in Crosses : tech[h].cross[c] \in BOOLEAN
  BY TechShape
<1>2. \A hc \in Holdings \X Crosses : hc[1] \in Holdings /\ hc[2] \in Crosses /\ hc = <<hc[1], hc[2]>>
  OBVIOUS
<1>3. ASSUME NEW hc \in Holdings \X Crosses
      PROVE  new[hc] = IF hc[1] \notin DOMAIN tech THEN IF DOMAIN tech = {} THEN old[hc] ELSE Unknown
                       ELSE IF tech[hc[1]].stale THEN old[hc]
                       ELSE IF tech[hc[1]].cross[hc[2]] THEN "present" ELSE "absent"
  BY DEF NewCross
<1>4. ASSUME NEW hc \in Holdings \X Crosses
      PROVE  /\ hc \in found <=> hc[1] \in DOMAIN tech /\ ~tech[hc[1]].stale /\ tech[hc[1]].cross[hc[2]]
             /\ hc \in absent <=> hc[1] \in DOMAIN tech /\ ~tech[hc[1]].stale /\ ~tech[hc[1]].cross[hc[2]]
             /\ hc \in gone <=> DOMAIN tech # {} /\ hc[1] \notin DOMAIN tech
  BY <1>1, <1>2
<1>5. CrossMove(old, new, found, absent, gone)
  <2>1. ASSUME NEW hc \in Holdings \X Crosses
        PROVE  /\ new[hc] \in {Unknown, "absent", "present"}
               /\ hc \in found => hc \notin absent /\ hc \notin gone /\ new[hc] = "present"
               /\ hc \in absent => hc \notin gone /\ new[hc] = "absent"
               /\ hc \in gone => new[hc] = Unknown
               /\ hc \notin found /\ hc \notin absent /\ hc \notin gone => new[hc] = old[hc]
    <3>1. CASE hc[1] \notin DOMAIN tech
      BY <1>3, <1>4, <3>1
    <3>2. CASE hc[1] \in DOMAIN tech /\ tech[hc[1]].stale
      BY <1>3, <1>4, <3>2
    <3>3. CASE hc[1] \in DOMAIN tech /\ ~tech[hc[1]].stale
      BY <1>3, <1>4, <3>3
    <3> QED BY <1>1, <3>1, <3>2, <3>3
  <2> QED BY <2>1 DEF CrossMove
<1>6. new \in [Holdings \X Crosses -> {Unknown, "absent", "present"}]
  <2>1. \A hc \in Holdings \X Crosses : new[hc] \in {Unknown, "absent", "present"}
    BY <1>5 DEF CrossMove
  <2> QED BY <2>1 DEF NewCross
<1>7. found \subseteq Holdings \X Crosses /\ absent \subseteq Holdings \X Crosses
  BY <1>1
<1>8. {hc \in (DOMAIN tech) \X Crosses :
        ~tech[hc[1]].stale /\ tech[hc[1]].cross[hc[2]] /\ old[hc] = "absent"}
        = {hc \in found : old[hc] = "absent"}
  OBVIOUS
<1> QED BY <1>5, <1>6, <1>7, <1>8 DEF CrossAlerts

LEMMA ReadSpikeMove ==
  ASSUME NEW tech \in HoldingReadings, NEW old \in [Holdings -> {Unknown, "quiet", "loud"}]
  PROVE  /\ SpikeMove(old, NewSpikes(old, tech),
                      Vol(tech, "high"), Vol(tech, "low"), Below(tech), Gone(tech))
         /\ NewSpikes(old, tech) \in [Holdings -> {Unknown, "quiet", "loud"}]
         /\ Vol(tech, "high") \subseteq Holdings /\ Below(tech) \subseteq Holdings
         /\ SpikeAlerts(old, tech)
              = {<<"spike", h>> : h \in {k \in Vol(tech, "high") : old[k] = "quiet"}}
<1>0. PICK new, fresh, high, low, below, gone :
        /\ new = NewSpikes(old, tech) /\ fresh = {h \in DOMAIN tech : ~tech[h].stale}
        /\ high = {h \in fresh : tech[h].vol = "high"}
        /\ low = {h \in fresh : tech[h].vol = "low"}
        /\ below = low \cup {h \in fresh : tech[h].vol = "between"}
        /\ gone = IF DOMAIN tech = {} THEN {} ELSE Holdings \ DOMAIN tech
        /\ high = Vol(tech, "high") /\ low = Vol(tech, "low")
        /\ below = Below(tech) /\ gone = Gone(tech)
  BY DEF CurrentBars, Vol, Below, Gone
<1> USE <1>0
<1>1. /\ DOMAIN tech \in SUBSET Holdings
      /\ \A h \in DOMAIN tech : /\ tech[h].stale \in BOOLEAN
                                /\ tech[h].vol \in {"low", "between", "high", "none"}
  BY TechShape
<1>2. ASSUME NEW h \in Holdings
      PROVE  new[h] = IF h \notin DOMAIN tech THEN IF DOMAIN tech = {} THEN old[h] ELSE Unknown
                      ELSE IF tech[h].stale THEN old[h] ELSE NewSpike(old[h], tech[h].vol)
  BY DEF NewSpikes
<1>3. ASSUME NEW h \in Holdings
      PROVE  /\ h \in high <=> h \in DOMAIN tech /\ ~tech[h].stale /\ tech[h].vol = "high"
             /\ h \in low <=> h \in DOMAIN tech /\ ~tech[h].stale /\ tech[h].vol = "low"
             /\ h \in below <=> h \in DOMAIN tech /\ ~tech[h].stale /\ tech[h].vol \in {"low", "between"}
             /\ h \in gone <=> DOMAIN tech # {} /\ h \notin DOMAIN tech
  BY <1>1
<1>4. SpikeMove(old, new, high, low, below, gone)
  <2>1. ASSUME NEW h \in Holdings
        PROVE  /\ new[h] \in {Unknown, "quiet", "loud"}
               /\ h \in high => h \notin below /\ h \notin gone /\ new[h] = "loud"
               /\ h \in low => h \in below
               /\ h \in below => h \notin gone
               /\ h \in below => new[h] = IF h \in low \/ old[h] = Unknown THEN "quiet" ELSE old[h]
               /\ h \in gone => new[h] = Unknown
               /\ h \notin high /\ h \notin below /\ h \notin gone => new[h] = old[h]
    <3>1. CASE h \notin DOMAIN tech
      BY <1>2, <1>3, <3>1
    <3>2. CASE h \in DOMAIN tech /\ tech[h].stale
      BY <1>2, <1>3, <3>2
    <3>3. CASE h \in DOMAIN tech /\ ~tech[h].stale
      <4>1. new[h] = NewSpike(old[h], tech[h].vol)
        BY <1>2, <3>3
      <4>2. old[h] \in {Unknown, "quiet", "loud"} /\ tech[h].vol \in {"low", "between", "high", "none"}
        BY <1>1, <3>3
      <4> QED BY <1>3, <3>3, <4>1, <4>2 DEF NewSpike, Unknown
    <3> QED BY <3>1, <3>2, <3>3, <1>1
  <2> QED BY <2>1 DEF SpikeMove
<1>5. new \in [Holdings -> {Unknown, "quiet", "loud"}]
  <2>1. \A h \in Holdings : new[h] \in {Unknown, "quiet", "loud"}
    BY <1>4 DEF SpikeMove
  <2> QED BY <2>1 DEF NewSpikes
<1>6. {k \in DOMAIN tech : ~tech[k].stale /\ tech[k].vol = "high" /\ old[k] = "quiet"}
        = {k \in high : old[k] = "quiet"}
  OBVIOUS
<1> QED BY <1>1, <1>4, <1>5, <1>6 DEF SpikeAlerts

LEMMA HoldingsAnnounce ==
  ASSUME NEW C, NEW H, NEW P, NEW Q,
         Q = P \cup {<<"cross", hc>> : hc \in C} \cup {<<"spike", h>> : h \in H}
  PROVE  /\ \A m, k : <<"band", m, k>> \in Q <=> <<"band", m, k>> \in P
         /\ \A r : <<"rung", r>> \in Q <=> <<"rung", r>> \in P
         /\ \A hc : <<"cross", hc>> \in Q <=> hc \in C \/ <<"cross", hc>> \in P
         /\ \A h : <<"spike", h>> \in Q <=> h \in H \/ <<"spike", h>> \in P
         /\ P \subseteq Q
         /\ \A x \in Q : \/ x \in P \/ (\E hc \in C : x = <<"cross", hc>>)
                         \/ \E h \in H : x = <<"spike", h>>
<1>1. PICK A : A = {<<"cross", hc>> : hc \in C}
  OBVIOUS
<1>2. PICK B : B = {<<"spike", h>> : h \in H}
  OBVIOUS
<1>3. /\ \A x : x \in A <=> \E hc \in C : x = <<"cross", hc>>
      /\ \A x : x \in B <=> \E h \in H : x = <<"spike", h>>
      /\ \A x : x \in Q <=> x \in P \/ x \in A \/ x \in B
  BY <1>1, <1>2
<1> QED BY ONLY <1>3, Kinds

LEMMA HoldingsRearm ==
  ASSUME NEW C, NEW H, NEW S, NEW T,
         T = S \ (CrossLevels(C) \cup {<<"spike", h>> : h \in H})
  PROVE  /\ T \subseteq S
         /\ \A hc : <<"cross", hc>> \in T => hc \notin C
         /\ \A h : <<"spike", h>> \in T => h \notin H
  BY DEF CrossLevels

(* What a reading of the holdings makes of a memory that stands by S and P, *)
(* is founded in U, and was noted in P against an older one.                *)
HoldingsRead(base, mem, new, found, absent, forgot, high, low, below, gone, C, H,
             P, Q, S, T, U, W) ==
  /\ mem \in Memory /\ new.band = mem.band /\ new.fired = mem.fired
  /\ mem.cross = base.cross /\ mem.spike = base.spike
  /\ CrossMove(mem.cross, new.cross, found, absent, forgot)
  /\ SpikeMove(mem.spike, new.spike, high, low, below, gone)
  /\ found \subseteq Holdings \X Crosses /\ absent \subseteq Holdings \X Crosses
  /\ high \subseteq Holdings /\ below \subseteq Holdings
  /\ U \in SUBSET Level /\ Founded(mem, U)
  /\ P \in SUBSET Level /\ P \ RungLevels \subseteq U
  /\ \A hc \in Holdings \X Crosses : <<"cross", hc>> \notin P
  /\ \A h \in Holdings : <<"spike", h>> \notin P
  /\ C = {hc \in found : mem.cross[hc] = "absent"}
  /\ H = {h \in high : mem.spike[h] = "quiet"}
  /\ Q = P \cup {<<"cross", hc>> : hc \in C} \cup {<<"spike", h>> : h \in H}
  /\ P \cap S = {} /\ StandsBy(mem, S \cup P) /\ Noted(base, mem, P)
  /\ T = S \ (CrossLevels(absent \cup forgot) \cup {<<"spike", h>> : h \in low \cup gone})
  /\ W = U \cup CrossLevels(absent) \cup {<<"spike", h>> : h \in below}

LEMMA HoldingsReading ==
  ASSUME NEW base, NEW mem, NEW new, NEW found, NEW absent, NEW forgot,
         NEW high, NEW low, NEW below, NEW gone, NEW C, NEW H,
         NEW P, NEW Q, NEW S, NEW T, NEW U, NEW W,
         HoldingsRead(base, mem, new, found, absent, forgot, high, low, below, gone, C, H,
                      P, Q, S, T, U, W)
  PROVE  Fit(base, new, Q, T, W, W)
<1>a. /\ mem \in Memory /\ new.band = mem.band /\ new.fired = mem.fired
      /\ mem.cross = base.cross /\ mem.spike = base.spike
      /\ CrossMove(mem.cross, new.cross, found, absent, forgot)
      /\ SpikeMove(mem.spike, new.spike, high, low, below, gone)
      /\ found \subseteq Holdings \X Crosses /\ absent \subseteq Holdings \X Crosses
      /\ high \subseteq Holdings /\ below \subseteq Holdings
      /\ U \in SUBSET Level /\ Founded(mem, U)
      /\ P \in SUBSET Level /\ P \ RungLevels \subseteq U
      /\ \A hc \in Holdings \X Crosses : <<"cross", hc>> \notin P
      /\ \A h \in Holdings : <<"spike", h>> \notin P
      /\ P \cap S = {} /\ StandsBy(mem, S \cup P) /\ Noted(base, mem, P)
  BY DEF HoldingsRead
<1>b. /\ C = {hc \in found : mem.cross[hc] = "absent"}
      /\ H = {h \in high : mem.spike[h] = "quiet"}
  BY DEF HoldingsRead
<1>c. Q = P \cup {<<"cross", hc>> : hc \in C} \cup {<<"spike", h>> : h \in H}
  BY DEF HoldingsRead
<1>d. T = S \ (CrossLevels(absent \cup forgot) \cup {<<"spike", h>> : h \in low \cup gone})
  BY DEF HoldingsRead
<1>e. W = U \cup CrossLevels(absent) \cup {<<"spike", h>> : h \in below}
  BY DEF HoldingsRead
<1> USE <1>a
<1>1. /\ \A m, k : <<"band", m, k>> \in Q <=> <<"band", m, k>> \in P
      /\ \A r : <<"rung", r>> \in Q <=> <<"rung", r>> \in P
      /\ \A hc : <<"cross", hc>> \in Q <=> hc \in C \/ <<"cross", hc>> \in P
      /\ \A h : <<"spike", h>> \in Q <=> h \in H \/ <<"spike", h>> \in P
      /\ P \subseteq Q
      /\ \A x \in Q : \/ x \in P \/ (\E hc \in C : x = <<"cross", hc>>)
                      \/ \E h \in H : x = <<"spike", h>>
  BY ONLY <1>c, HoldingsAnnounce
<1>2. /\ T \subseteq S
      /\ \A hc : <<"cross", hc>> \in T => hc \notin absent \cup forgot
      /\ \A h : <<"spike", h>> \in T => h \notin low \cup gone
  <2>1. PICK A, B : A = absent \cup forgot /\ B = low \cup gone
    OBVIOUS
  <2>2. T = S \ (CrossLevels(A) \cup {<<"spike", h>> : h \in B})
    BY <1>d, <2>1
  <2>3. /\ T \subseteq S
        /\ \A hc : <<"cross", hc>> \in T => hc \notin A
        /\ \A h : <<"spike", h>> \in T => h \notin B
    BY ONLY <2>2, HoldingsRearm
  <2> QED BY <2>1, <2>3
<1>3. /\ U \subseteq W
      /\ \A hc \in absent : <<"cross", hc>> \in W
      /\ \A h \in below : <<"spike", h>> \in W
      /\ \A x \in W : \/ x \in U \/ (\E hc \in absent : x = <<"cross", hc>>)
                      \/ \E h \in below : x = <<"spike", h>>
  BY <1>e DEF CrossLevels
<1>4. /\ \A hc : hc \in C <=> hc \in found /\ mem.cross[hc] = "absent"
      /\ \A h : h \in H <=> h \in high /\ mem.spike[h] = "quiet"
      /\ C \subseteq Holdings \X Crosses /\ H \subseteq Holdings
      /\ \A hc \in Holdings \X Crosses : mem.cross[hc] \in {Unknown, "absent", "present"}
      /\ \A h \in Holdings : mem.spike[h] \in {Unknown, "quiet", "loud"}
  BY <1>b DEF Memory
<1>5. Q \in SUBSET Level /\ W \in SUBSET Level
  BY <1>1, <1>3, <1>4, LevelShape
<1>6. StandsBy(new, T \cup Q)
  <2>1. /\ \A m \in Metrics : \A k \in DOMAIN Boundaries[m] :
             <<"band", m, k>> \in T \cup Q => k <= new.band[m]
        /\ \A r \in Rungs : <<"rung", r>> \in T \cup Q => r \in new.fired
    BY <1>1, <1>2 DEF StandsBy
  <2>2. ASSUME NEW hc \in Holdings \X Crosses, <<"cross", hc>> \in T \cup Q
        PROVE  new.cross[hc] = "present"
    <3>1. CASE hc \in C
      BY <1>4, <3>1 DEF CrossMove
    <3>2. CASE hc \notin C
      <4>1. <<"cross", hc>> \in S /\ hc \notin absent /\ hc \notin forgot
        BY <1>1, <1>2, <2>2, <3>2
      <4>2. mem.cross[hc] = "present"
        BY <4>1 DEF StandsBy
      <4> QED BY <4>1, <4>2 DEF CrossMove
    <3> QED BY <3>1, <3>2
  <2>3. ASSUME NEW h \in Holdings, <<"spike", h>> \in T \cup Q
        PROVE  new.spike[h] = "loud"
    <3>1. CASE h \in H
      BY <1>4, <3>1 DEF SpikeMove
    <3>2. CASE h \notin H
      <4>1. <<"spike", h>> \in S /\ h \notin low /\ h \notin gone
        BY <1>1, <1>2, <2>3, <3>2
      <4>2. mem.spike[h] = "loud"
        BY <4>1 DEF StandsBy
      <4> QED BY <4>1, <4>2 DEF SpikeMove, Unknown
    <3> QED BY <3>1, <3>2
  <2> QED BY <2>1, <2>2, <2>3 DEF StandsBy
<1>7. Founded(new, W)
  <2>1. \A m \in Metrics : new.band[m] # Unseen =>
          \A k \in DOMAIN Boundaries[m] : k > new.band[m] => <<"band", m, k>> \in W
    BY <1>3 DEF Founded
  <2>2. \A hc \in Holdings \X Crosses : new.cross[hc] = "absent" => <<"cross", hc>> \in W
    BY <1>3 DEF Founded, CrossMove, Unknown
  <2>3. \A h \in Holdings : new.spike[h] = "quiet" => <<"spike", h>> \in W
    BY <1>3 DEF Founded, SpikeMove, Unknown
  <2> QED BY <2>1, <2>2, <2>3 DEF Founded
<1>8. Noted(base, new, Q)
  <2>1. /\ \A m \in Metrics : \/ new.band[m] <= base.band[m] \/ base.band[m] = Unseen
                              \/ <<"band", m, new.band[m]>> \in Q
        /\ \A r \in new.fired : r \in base.fired \/ ~base.seen \/ <<"rung", r>> \in Q
    BY <1>1 DEF Noted
  <2>2. ASSUME NEW hc \in Holdings \X Crosses, new.cross[hc] = "present"
        PROVE  base.cross[hc] \in {"present", Unknown} \/ <<"cross", hc>> \in Q
    BY <1>1, <1>4, <2>2 DEF CrossMove, Unknown
  <2>3. ASSUME NEW h \in Holdings, new.spike[h] = "loud"
        PROVE  base.spike[h] \in {"loud", Unknown} \/ <<"spike", h>> \in Q
    BY <1>1, <1>4, <2>3 DEF SpikeMove, Unknown
  <2> QED BY <2>1, <2>2, <2>3 DEF Noted
<1>9. ASSUME NEW x \in Q PROVE x \notin T /\ (x \in W \/ x \in RungLevels)
  <2>1. CASE x \in P
    BY <1>2, <1>3, <2>1
  <2>2. ASSUME NEW hc \in C, x = <<"cross", hc>> PROVE x \notin T /\ x \in W
    <3>1. hc \in Holdings \X Crosses /\ mem.cross[hc] = "absent"
      BY <1>4
    <3>2. x \notin S
      BY <2>2, <3>1 DEF StandsBy
    <3> QED BY <1>2, <1>3, <2>2, <3>1, <3>2 DEF Founded
  <2>3. ASSUME NEW h \in H, x = <<"spike", h>> PROVE x \notin T /\ x \in W
    <3>1. h \in Holdings /\ mem.spike[h] = "quiet"
      BY <1>4
    <3>2. x \notin S
      BY <2>3, <3>1 DEF StandsBy
    <3> QED BY <1>2, <1>3, <2>3, <3>1, <3>2 DEF Founded
  <2> QED BY <1>1, <2>1, <2>2, <2>3
<1> QED BY <1>5, <1>6, <1>7, <1>8, <1>9 DEF Fit

-----------------------------------------------------------------------------
(* The invariant.                                                           *)

LEMMA BlankFacts ==
  /\ Blank \in Memory /\ InBands(Blank)
  /\ StandsBy(Blank, {}) /\ \A S : Founded(Blank, S)
<1> USE SentinelAssumption
<1>1. Blank \in Memory
  BY DEF Blank, Memory
<1>2. InBands(Blank)
  <2>1. \A m \in Metrics : Len(Boundaries[m]) \in Nat
    OBVIOUS
  <2> QED BY <2>1 DEF Blank, InBands, Unseen
<1>3. StandsBy(Blank, {})
  BY DEF StandsBy
<1>4. ASSUME NEW S PROVE Founded(Blank, S)
  BY DEF Founded, Blank, Unknown
<1> QED BY <1>1, <1>2, <1>3, <1>4

LEMMA FewerTold ==
  ASSUME NEW mem, NEW S, NEW T, T \subseteq S, StandsBy(mem, S)
  PROVE  StandsBy(mem, T)
  BY DEF StandsBy

LEMMA MoreFound ==
  ASSUME NEW mem, NEW S, NEW T, S \subseteq T, Founded(mem, S)
  PROVE  Founded(mem, T)
  BY DEF Founded

LEMMA SentinelStart == SentinelInit => SentinelIInv
<1> SUFFICES ASSUME SentinelInit PROVE SentinelIInv
  OBVIOUS
<1>1. SentinelTypeOK
  BY BlankFacts, SentinelAssumption DEF SentinelInit, SentinelTypeOK, NoTick
<1>2. tick.pc = "idle"
  BY DEF SentinelInit, NoTick
<1> QED BY <1>1, <1>2, BlankFacts
        DEF SentinelInit, SentinelIInv, OnlyNews, NoRefire, TickInv, Undelivered

LEMMA ReadMarketKeeps ==
  ASSUME SentinelIInv, NEW reading \in MarketReadings, NEW mem \in {file, Blank},
         NEW rungs \in {ladder, {}}, ReadMarket(reading, mem, rungs)
  PROVE  SentinelIInv'
<1> USE SentinelAssumption
<1> DEFINE band0 == [m \in Metrics |-> NewBand(m, reading[m], mem.band[m])]
           rung0 == IF reading[SPY] = Skipped
                    THEN [seen |-> mem.seen, fired |-> mem.fired, fires |-> {}]
                    ELSE LadderStep(mem, reading[SPY], rungs)
<1>1. mem \in Memory /\ InBands(mem) /\ Founded(mem, unreached) /\ rungs \in SUBSET Rungs
  BY BlankFacts DEF SentinelIInv, SentinelTypeOK
<1>2. PICK band : band = band0
  OBVIOUS
<1>3. PICK rung : rung = rung0
  OBVIOUS
<1>4. PICK new : new = [mem EXCEPT !.band = band, !.seen = rung.seen, !.fired = rung.fired]
  OBVIOUS
<1>5. PICK P : P = BandAlerts(mem.band, band) \cup {<<"rung", r>> : r \in rung.fires}
  OBVIOUS
<1>6. PICK read : read = Covered(reading)
  OBVIOUS
<1>7. PICK S : S = IF mem # file THEN {} ELSE told
  OBVIOUS
<1>8. /\ tick' = [pc |-> "holdings", lost |-> mem # file, mem |-> new, pending |-> P]
      /\ told' = LeftOf(S, reading, rungs)
      /\ unreached' = AddedTo(unreached, reading)
  BY <1>2, <1>3, <1>4, <1>5, <1>6, <1>7 DEF ReadMarket, Covered, LeftOf, AddedTo
<1>9. /\ file' = file /\ ladder' = ladder
      /\ IF SPY \in read
         THEN depth' = reading[SPY] /\ late' = {r \in late : r <= reading[SPY]}
         ELSE depth' = depth /\ late' = late
  BY <1>6 DEF ReadMarket, Covered
<1>10. S \in SUBSET Level /\ StandsBy(mem, S) /\ S \subseteq told
  BY <1>7, BlankFacts DEF SentinelIInv, SentinelTypeOK
<1>11. /\ new.band = band /\ new.seen = rung.seen /\ new.fired = rung.fired
       /\ new.cross = mem.cross /\ new.spike = mem.spike
  BY <1>1, <1>4 DEF Memory
<1>25a. new = [band |-> band, seen |-> rung.seen, fired |-> rung.fired,
                cross |-> mem.cross, spike |-> mem.spike]
  BY <1>1, <1>4 DEF Memory
<1>12. BandsMove(reading, mem.band, band)
  BY <1>1, <1>2, ReadBandsMove
<1>13. RungsMove(reading[SPY], rungs, mem, rung)
  BY <1>1, <1>3, ReadRungsMove
<1>14. Announced(mem.band, band, rung.fires, P)
  BY ONLY <1>5, MarketAnnounces
<1>15. new \in Memory /\ InBands(new)
  <2>1. ASSUME NEW m \in Metrics
        PROVE  band[m] \in Unseen..Len(Boundaries[m]) /\ band[m] \in Nat \cup {Unseen}
    <3>1. Len(Boundaries[m]) \in Nat
      OBVIOUS
    <3> QED BY <1>12, <3>1 DEF BandsMove, Unseen
  <2>2. band \in [Metrics -> Nat \cup {Unseen}]
    BY <1>2, <2>1
  <2>3. rung.seen \in BOOLEAN /\ rung.fired \in SUBSET Rungs
    BY <1>13 DEF RungsMove
  <2> HIDE DEF band0, rung0
  <2> QED BY <1>1, <1>11, <1>25a, <2>1, <2>2, <2>3 DEF Memory, InBands
<1>16. PICK U \in SUBSET Level : U = unreached
  BY DEF SentinelIInv, SentinelTypeOK
<1>19. Founded(mem, U)
  BY <1>1, <1>16
<1>17. PICK T : T = LeftOf(S, reading, rungs)
  OBVIOUS
<1>18. PICK W : W = AddedTo(U, reading)
  OBVIOUS
<1> HIDE DEF band0, rung0
<1>20. /\ P \in SUBSET Level /\ W \in SUBSET Level
       /\ StandsBy(new, T \cup P) /\ Founded(new, W) /\ Noted(mem, new, P)
       /\ P \cap T = {} /\ P \ RungLevels \subseteq U
  <2>1. MarketRead(reading, rungs, mem, rung, new, P, S, T, U, W)
    BY <1>1, <1>10, <1>11, <1>12, <1>13, <1>14, <1>16, <1>17, <1>18, <1>19 DEF MarketRead
  <2>2. Fit(mem, new, P, T, U, W)
    BY ONLY <2>1, MarketReading
  <2> QED BY <2>2 DEF Fit
<1>21. told' = T /\ unreached' = W /\ T \subseteq told /\ unreached \subseteq W
  BY <1>8, <1>10, <1>16, <1>17, <1>18 DEF LeftOf, AddedTo
<1>22. Base' = mem
  BY <1>8, <1>9 DEF Base
<1>23. SentinelTypeOK'
  <2>1. depth' \in Values \cup {0} /\ late' \subseteq Rungs
    BY <1>6, <1>9 DEF SentinelIInv, SentinelTypeOK, MarketReadings, Covered
  <2> QED BY <1>8, <1>9, <1>15, <1>20, <1>21, <2>1 DEF SentinelIInv, SentinelTypeOK
<1>24. /\ tick.pc' = "holdings" /\ tick.mem' = new /\ tick.pending' = P
  BY <1>8
<1>25. OnlyNews' /\ NoRefire'
  BY <1>16, <1>20, <1>21, <1>24 DEF OnlyNews, NoRefire, RungLevels
<1>26. StandsBy(file, told)' /\ Founded(file, unreached)'
  BY <1>9, <1>21, FewerTold, MoreFound DEF SentinelIInv
<1>27. TickInv'
  BY <1>11, <1>14, <1>20, <1>21, <1>22, <1>24 DEF TickInv, HoldingsToCome, Announced
<1> QED BY <1>23, <1>25, <1>26, <1>27 DEF SentinelIInv

LEMMA ReadHoldingsKeeps ==
  ASSUME SentinelIInv, NEW tech \in HoldingReadings, ReadHoldings(tech)
  PROVE  SentinelIInv'
<1>1. tick.pc = "holdings" /\ tick.mem \in Memory /\ InBands(tick.mem)
  BY DEF ReadHoldings, SentinelIInv, SentinelTypeOK
<1>2. /\ StandsBy(tick.mem, told \cup tick.pending) /\ Founded(tick.mem, unreached)
      /\ Noted(Base, tick.mem, tick.pending) /\ HoldingsToCome
      /\ tick.pending \cap told = {} /\ tick.pending \ RungLevels \subseteq unreached
      /\ tick.pending \in SUBSET Level /\ unreached \in SUBSET Level /\ tick.lost \in BOOLEAN
  BY <1>1 DEF SentinelIInv, SentinelTypeOK, TickInv, Undelivered, OnlyNews, NoRefire
<1>3. PICK mem, new, base :
        /\ mem = tick.mem /\ base = Base
        /\ new = [mem EXCEPT !.cross = NewCross(@, tech), !.spike = NewSpikes(@, tech)]
  OBVIOUS
<1>4. /\ mem.cross \in [Holdings \X Crosses -> {Unknown, "absent", "present"}]
      /\ mem.spike \in [Holdings -> {Unknown, "quiet", "loud"}]
  BY <1>1, <1>3 DEF Memory
<1>5. /\ new.band = mem.band /\ new.seen = mem.seen /\ new.fired = mem.fired
      /\ new.cross = NewCross(mem.cross, tech) /\ new.spike = NewSpikes(mem.spike, tech)
  BY <1>1, <1>3 DEF Memory
<1>6. new = [band |-> mem.band, seen |-> mem.seen, fired |-> mem.fired,
             cross |-> new.cross, spike |-> new.spike]
  BY <1>1, <1>3 DEF Memory
<1>7. /\ CrossMove(mem.cross, new.cross, Found(tech), Absent(tech), Gone(tech) \X Crosses)
      /\ new.cross \in [Holdings \X Crosses -> {Unknown, "absent", "present"}]
      /\ Found(tech) \subseteq Holdings \X Crosses /\ Absent(tech) \subseteq Holdings \X Crosses
      /\ CrossAlerts(mem.cross, tech)
           = {<<"cross", at>> : at \in {hc \in Found(tech) : mem.cross[hc] = "absent"}}
  <2>1. PICK old \in [Holdings \X Crosses -> {Unknown, "absent", "present"}] : old = mem.cross
    BY <1>4
  <2>2. /\ CrossMove(old, NewCross(old, tech), Found(tech), Absent(tech), Gone(tech) \X Crosses)
        /\ NewCross(old, tech) \in [Holdings \X Crosses -> {Unknown, "absent", "present"}]
        /\ Found(tech) \subseteq Holdings \X Crosses /\ Absent(tech) \subseteq Holdings \X Crosses
        /\ CrossAlerts(old, tech)
             = {<<"cross", at>> : at \in {hc \in Found(tech) : old[hc] = "absent"}}
    BY ReadCrossMove
  <2> QED BY <1>5, <2>1, <2>2
<1>8. /\ SpikeMove(mem.spike, new.spike,
                   Vol(tech, "high"), Vol(tech, "low"), Below(tech), Gone(tech))
      /\ new.spike \in [Holdings -> {Unknown, "quiet", "loud"}]
      /\ Vol(tech, "high") \subseteq Holdings /\ Below(tech) \subseteq Holdings
      /\ SpikeAlerts(mem.spike, tech)
           = {<<"spike", h>> : h \in {k \in Vol(tech, "high") : mem.spike[k] = "quiet"}}
  BY <1>4, <1>5, ReadSpikeMove
<1>9. PICK found, absent, forgot, high, low, below, gone :
        /\ found = Found(tech) /\ absent = Absent(tech) /\ gone = Gone(tech)
        /\ forgot = Gone(tech) \X Crosses
        /\ high = Vol(tech, "high") /\ low = Vol(tech, "low") /\ below = Below(tech)
  OBVIOUS
<1>10. PICK C, H : /\ C = {hc \in found : mem.cross[hc] = "absent"}
                   /\ H = {h \in high : mem.spike[h] = "quiet"}
  OBVIOUS
<1>11. PICK P, S, U : P = tick.pending /\ S = told /\ U = unreached
  OBVIOUS
<1>12. PICK Q, T, W :
         /\ Q = P \cup {<<"cross", hc>> : hc \in C} \cup {<<"spike", h>> : h \in H}
         /\ T = S \ (CrossLevels(absent \cup forgot) \cup {<<"spike", h>> : h \in low \cup gone})
         /\ W = U \cup CrossLevels(absent) \cup {<<"spike", h>> : h \in below}
  OBVIOUS
<1>13. /\ Q = P \cup CrossAlerts(mem.cross, tech) \cup SpikeAlerts(mem.spike, tech)
       /\ T \subseteq told /\ unreached \subseteq W
  BY <1>7, <1>8, <1>9, <1>10, <1>11, <1>12
<1>14. tick' = [pc |-> "write", lost |-> tick.lost, mem |-> new, pending |-> Q]
  BY <1>3, <1>11, <1>13 DEF ReadHoldings
<1>15. told' = T /\ unreached' = W
  <2>1. /\ told' = told \ (CrossLevels(Absent(tech) \cup (Gone(tech) \X Crosses))
                             \cup {<<"spike", h>> : h \in Vol(tech, "low") \cup Gone(tech)})
        /\ unreached' = unreached \cup CrossLevels(Absent(tech))
                                  \cup {<<"spike", h>> : h \in Below(tech)}
    BY DEF ReadHoldings, CurrentBars, Absent, Gone, Vol, Below
  <2> QED BY <1>9, <1>11, <1>12, <2>1
<1>16. /\ file' = file /\ ladder' = ladder /\ depth' = depth /\ late' = late
  BY DEF ReadHoldings
<1>17. Fit(base, new, Q, T, W, W)
  <2>1. HoldingsRead(base, mem, new, found, absent, forgot, high, low, below, gone, C, H,
                     P, Q, S, T, U, W)
    <3>1. mem \in Memory /\ mem.cross = base.cross /\ mem.spike = base.spike
      BY <1>1, <1>2, <1>3 DEF HoldingsToCome
    <3>2. /\ U \in SUBSET Level /\ Founded(mem, U)
          /\ P \in SUBSET Level /\ P \ RungLevels \subseteq U
          /\ \A hc \in Holdings \X Crosses : <<"cross", hc>> \notin P
          /\ \A h \in Holdings : <<"spike", h>> \notin P
          /\ P \cap S = {} /\ StandsBy(mem, S \cup P) /\ Noted(base, mem, P)
      BY <1>2, <1>3, <1>11 DEF HoldingsToCome
    <3>3. /\ CrossMove(mem.cross, new.cross, found, absent, forgot)
          /\ SpikeMove(mem.spike, new.spike, high, low, below, gone)
          /\ found \subseteq Holdings \X Crosses /\ absent \subseteq Holdings \X Crosses
          /\ high \subseteq Holdings /\ below \subseteq Holdings
      BY <1>7, <1>8, <1>9
    <3> QED BY <1>5, <1>10, <1>12, <3>1, <3>2, <3>3 DEF HoldingsRead
  <2> QED BY ONLY <2>1, HoldingsReading
<1>18. new \in Memory /\ InBands(new)
  <2>1. /\ mem.band \in [Metrics -> Nat \cup {Unseen}] /\ mem.seen \in BOOLEAN
        /\ mem.fired \in SUBSET Rungs /\ InBands(mem)
    BY <1>1, <1>3 DEF Memory
  <2> QED BY <1>5, <1>6, <1>7, <1>8, <2>1 DEF Memory, InBands
<1>19. /\ tick.pc' = "write" /\ tick.mem' = new /\ tick.pending' = Q
       /\ tick.lost' = tick.lost /\ Base' = base
  BY <1>3, <1>14, <1>16 DEF Base
<1>20. /\ Q \in SUBSET Level /\ W \in SUBSET Level
       /\ StandsBy(new, T \cup Q) /\ Founded(new, W) /\ Noted(base, new, Q)
       /\ Q \cap T = {} /\ Q \ RungLevels \subseteq W
  BY <1>17 DEF Fit
<1>21. SentinelTypeOK'
  BY <1>2, <1>13, <1>14, <1>15, <1>16, <1>18, <1>20 DEF SentinelIInv, SentinelTypeOK
<1>22. OnlyNews' /\ NoRefire'
  BY <1>15, <1>19, <1>20 DEF OnlyNews, NoRefire, RungLevels
<1>23. StandsBy(file, told)' /\ Founded(file, unreached)'
  BY <1>13, <1>15, <1>16, FewerTold, MoreFound DEF SentinelIInv
<1>24. TickInv'
  BY <1>15, <1>19, <1>20 DEF TickInv
<1> QED BY <1>21, <1>22, <1>23, <1>24 DEF SentinelIInv

LEMMA SentinelStep == SentinelIInv /\ [SentinelNext]_sentinelVars => SentinelIInv'
<1> SUFFICES ASSUME SentinelIInv, [SentinelNext]_sentinelVars PROVE SentinelIInv'
  OBVIOUS
<1>1. ASSUME NEW reading \in MarketReadings, NEW mem \in {file, Blank},
             NEW rungs \in {ladder, {}}, ReadMarket(reading, mem, rungs)
      PROVE  SentinelIInv'
  BY <1>1, ReadMarketKeeps
<1>2. ASSUME NEW tech \in HoldingReadings, ReadHoldings(tech)
      PROVE  SentinelIInv'
  BY <1>2, ReadHoldingsKeeps
<1>3. CASE WriteState
  <2>1. /\ file' = tick.mem /\ told' = told \cup tick.pending /\ tick.pc = "write"
        /\ ladder' = ladder /\ unreached' = unreached /\ depth' = depth /\ late' = late
        /\ tick'.pc = "deliver" /\ tick'.mem = tick.mem /\ tick'.lost = tick.lost
        /\ tick'.pending = tick.pending
        /\ tick' \in [pc : {"idle", "holdings", "write", "deliver"}, mem : Memory,
                      lost : BOOLEAN, pending : SUBSET Level]
    BY <1>3 DEF WriteState, SentinelIInv, SentinelTypeOK
  <2>2. StandsBy(tick.mem, told \cup tick.pending) /\ Founded(tick.mem, unreached)
    BY <2>1 DEF SentinelIInv, TickInv, Undelivered
  <2> QED BY <2>1, <2>2
          DEF SentinelIInv, SentinelTypeOK, OnlyNews, NoRefire, TickInv, Undelivered
<1>4. CASE WriteStateFails
  <2>1. /\ file' = file /\ told' = told /\ ladder' = ladder /\ unreached' = unreached
        /\ depth' = depth /\ late' = late
        /\ tick'.pc = "deliver" /\ tick'.mem = tick.mem
        /\ tick' \in [pc : {"idle", "holdings", "write", "deliver"}, mem : Memory,
                      lost : BOOLEAN, pending : SUBSET Level]
    BY <1>4 DEF WriteStateFails, SentinelIInv, SentinelTypeOK, hist
  <2> QED BY <2>1 DEF SentinelIInv, SentinelTypeOK, OnlyNews, NoRefire, TickInv, Undelivered
<1>5. CASE Deliver \/ ProcessDies
  <2>1. /\ file' = file /\ told' = told /\ ladder' = ladder /\ unreached' = unreached
        /\ depth' = depth /\ late' = late /\ tick' = NoTick
    BY <1>5 DEF Deliver, ProcessDies, hist
  <2> QED BY <2>1, BlankFacts
          DEF SentinelIInv, SentinelTypeOK, OnlyNews, NoRefire, TickInv, Undelivered, NoTick
<1>6. ASSUME NEW levels \in SUBSET Rungs, EditLadder(levels)
      PROVE  SentinelIInv'
  <2>1. /\ file' = file /\ tick' = tick /\ told' = told /\ unreached' = unreached
        /\ depth' = depth /\ ladder' \in SUBSET Rungs
    BY <1>6 DEF EditLadder
  <2>2. late' \subseteq Rungs
    BY <1>6 DEF EditLadder, SentinelIInv, SentinelTypeOK
  <2> QED BY <2>1, <2>2
          DEF SentinelIInv, SentinelTypeOK, OnlyNews, NoRefire, TickInv, Undelivered, HoldingsToCome, Base
<1>7. CASE UNCHANGED sentinelVars
  BY <1>7 DEF sentinelVars, hist, SentinelIInv, SentinelTypeOK, OnlyNews, NoRefire, TickInv,
              Undelivered, HoldingsToCome, Base
<1> QED BY <1>1, <1>2, <1>3, <1>4, <1>5, <1>6, <1>7 DEF SentinelNext

(* Of what tools/intraday_sentinel.py remembers and announces: the memory   *)
(* is well formed, and a band, a cross or a spike is announced only if some *)
(* earlier reading found it not there, whatever fails or is lost.           *)
THEOREM SentinelIsSound == SentinelSpec => []SentinelInv
<1>1. SentinelIInv => SentinelInv
  BY DEF SentinelIInv, SentinelInv
<1> QED BY <1>1, SentinelStart, SentinelStep, PTL DEF SentinelSpec

(* A level that a saved tick announced is not announced again before a      *)
(* reading has re-armed it (_band_with_hysteresis, _update_cross,           *)
(* _update_vol, evaluate_deployment_ladder), unless the memory was lost.    *)
THEOREM NothingRefires == SentinelSpec => []NoRefire
<1>1. SentinelIInv => NoRefire
  BY DEF SentinelIInv
<1> QED BY <1>1, SentinelStart, SentinelStep, PTL DEF SentinelSpec

(* What the state file takes note of stands in the memory the tick began    *)
(* with, is announced by it, or has no baseline there.                      *)
LEMMA NotedIsStanding ==
  ASSUME NEW base, NEW mem \in Memory, NEW P, Noted(base, mem, P),
         \A m \in Metrics : mem.band[m] > 0 => base.band[m] \in Nat \cup {Unseen}
  PROVE  Standing(mem) \subseteq Standing(base) \cup P \cup Silent(base, mem)
<1>1. ASSUME NEW m \in Metrics, mem.band[m] > 0
      PROVE  <<"band", m, mem.band[m]>> \in Standing(base) \cup P \cup Silent(base, mem)
  <2>1. mem.band[m] \in Nat
    BY <1>1 DEF Memory, Unseen
  <2>2. CASE mem.band[m] = base.band[m]
    BY <1>1, <2>2 DEF Standing
  <2>3. CASE base.band[m] = Unseen \/ mem.band[m] < base.band[m]
    BY <2>3 DEF Silent
  <2>4. CASE <<"band", m, mem.band[m]>> \in P
    BY <2>4
  <2> QED BY <1>1, <2>1, <2>2, <2>3, <2>4 DEF Noted, Unseen
<1>2. ASSUME NEW r \in mem.fired
      PROVE  <<"rung", r>> \in Standing(base) \cup P \cup Silent(base, mem)
  <2>1. r \in Rungs
    BY DEF Memory
  <2>2. CASE r \in base.fired
    BY <2>2 DEF Standing
  <2>3. CASE ~base.seen
    BY <2>1, <2>3 DEF Silent, RungLevels
  <2> QED BY <2>2, <2>3 DEF Noted
<1>3. ASSUME NEW hc \in Holdings \X Crosses, mem.cross[hc] = "present"
      PROVE  <<"cross", hc>> \in Standing(base) \cup P \cup Silent(base, mem)
  BY <1>3 DEF Noted, Standing, Silent
<1>4. ASSUME NEW h \in Holdings, mem.spike[h] = "loud"
      PROVE  <<"spike", h>> \in Standing(base) \cup P \cup Silent(base, mem)
  BY <1>4 DEF Noted, Standing, Silent
<1> QED BY <1>1, <1>2, <1>3, <1>4 DEF Standing

(* "updating state from a stale bar would consume the transition": a tick   *)
(* never writes a new signal into intraday_sentinel_state.json unless it    *)
(* announces it or sees it for the first time.                              *)
THEOREM NothingIsConsumed == SentinelSpec => NothingConsumed
<1>1. ASSUME SentinelIInv, [SentinelNext]_sentinelVars, file # file'
      PROVE  Standing(file') \subseteq
               Standing(IF tick.lost THEN Blank ELSE file) \cup tick.pending
                 \cup Silent(IF tick.lost THEN Blank ELSE file, file')
  <2>1. WriteState
    BY <1>1 DEF SentinelNext, ReadMarket, ReadHoldings, WriteStateFails, Deliver,
                ProcessDies, EditLadder, sentinelVars, hist
  <2>2. tick.pc = "write" /\ file' = tick.mem /\ tick.mem \in Memory
    BY <1>1, <2>1 DEF WriteState, SentinelIInv, SentinelTypeOK
  <2>3. PICK base, mem, P : base = Base /\ mem = tick.mem /\ P = tick.pending
    OBVIOUS
  <2>4. Noted(base, mem, P) /\ mem \in Memory
    BY <1>1, <2>2, <2>3 DEF SentinelIInv, TickInv, Undelivered
  <2>5. base \in Memory
    BY <1>1, <2>3, BlankFacts DEF Base, SentinelIInv, SentinelTypeOK
  <2>6. \A m \in Metrics : base.band[m] \in Nat \cup {Unseen}
    BY <2>5 DEF Memory
  <2>7. Standing(mem) \subseteq Standing(base) \cup P \cup Silent(base, mem)
    BY ONLY <2>4, <2>6, NotedIsStanding
  <2> QED BY <2>2, <2>3, <2>7 DEF Base
<1>2. SentinelIInv /\ [SentinelNext]_sentinelVars =>
        [file # file' =>
           LET base == IF tick.lost THEN Blank ELSE file
           IN  Standing(file') \subseteq
                 Standing(base) \cup tick.pending \cup Silent(base, file')]_sentinelVars
  BY <1>1
<1> QED BY <1>2, SentinelStart, SentinelStep, PTL DEF SentinelSpec, NothingConsumed
=============================================================================
