------------------------------- MODULE Inbox -------------------------------
(***************************************************************************)
(* What the alerts inbox of tools/alerts.py promises: one list per profile,*)
(* oldest alert first, capped, in which an unread alert is refreshed       *)
(* instead of duplicated.  Each call is one step.  Alerts.tla shows how    *)
(* far the file-based implementation keeps the promise.                    *)
(***************************************************************************)
EXTENDS Integers, Sequences

CONSTANTS
  Keys,        (* dedup keys                                                *)
  NoKey,       (* dedup_key=None                                            *)
  MaxRecords,  (* _MAX_RECORDS                                              *)
  MaxAlerts    (* bound on the alerts ever raised                           *)

ASSUME InboxAssumption ==
  /\ NoKey \notin Keys
  /\ MaxRecords \in Nat \ {0}
  /\ MaxAlerts \in Nat

VARIABLE inbox

AlertIds == 1..MaxAlerts

(* The fields any decision depends on; ts, title and message follow along.  *)
Alert == [id : AlertIds, key : Keys \cup {NoKey}, read : BOOLEAN]

(* "a matching UNREAD alert" *)
UnreadAt(list, k) == {i \in DOMAIN list : list[i].key = k /\ ~list[i].read}

(* Mutant: the test of the read flag is inverted. *)
HasUnreadInverted(list, k) ==
  k # NoKey /\ \E i \in DOMAIN list : list[i].key = k /\ list[i].read

HasUnread(list, k) == k # NoKey /\ UnreadAt(list, k) # {}

(* records[-_MAX_RECORDS:] *)
Capped(list) ==
  IF Len(list) > MaxRecords
  THEN SubSeq(list, Len(list) - MaxRecords + 1, Len(list))
  ELSE list

NewAlert(id, k) == [id |-> id, key |-> k, read |-> FALSE]

MarkedRead(list, ids) ==
  [i \in DOMAIN list |-> [list[i] EXCEPT !.read = @ \/ list[i].id \in ids]]

Newest(list) == IF list = <<>> THEN 0 ELSE list[Len(list)].id

Init == inbox = <<>>

(* A refresh changes no field that is modelled: it is a stuttering step.    *)
RaiseNew(id, k) ==
  /\ ~HasUnread(inbox, k)
  /\ id > Newest(inbox)
  /\ inbox' = Capped(Append(inbox, NewAlert(id, k)))

MarkRead(ids) == inbox' = MarkedRead(inbox, ids)

Next ==
  \/ \E id \in AlertIds, k \in Keys \cup {NoKey} : RaiseNew(id, k)
  \/ \E ids \in SUBSET AlertIds : MarkRead(ids)

Spec == Init /\ [][Next]_inbox

TypeOK ==
  /\ inbox \in Seq(Alert)
  /\ Len(inbox) <= MaxRecords

UniqueIn(list) ==
  \A i, j \in DOMAIN list :
    /\ list[i].key = list[j].key /\ list[i].key # NoKey
    /\ ~list[i].read /\ ~list[j].read
    => i = j

OrderedIn(list) == \A i, j \in DOMAIN list : i < j => list[i].id < list[j].id

(* "A sentinel that fires every tick must not bury the inbox": no two       *)
(* unread alerts carry the same dedup key.                                  *)
UnreadUnique == UniqueIn(inbox)

(* get_alerts reverses the file to list the newest alert first: the file is *)
(* in the order of creation.                                                *)
OldestFirst == OrderedIn(inbox)
=============================================================================
