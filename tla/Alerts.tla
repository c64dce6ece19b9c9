------------------------------- MODULE Alerts -------------------------------
(***************************************************************************)
(* tools/alerts.py at the level of its file operations.                    *)
(*                                                                         *)
(* raise_alert and mark_read load alerts.jsonl, compute a new list and     *)
(* rewrite the file: open path + ".tmp" (truncating it), write, rename.    *)
(* There is no lock, the callers are engine threads, request threads and   *)
(* the event loop, and they all use the same temporary name.               *)
(***************************************************************************)
EXTENDS Integers, Sequences, FiniteSets

CONSTANTS Keys, NoKey, MaxRecords, MaxAlerts,
  Callers,     (* threads that may be inside raise_alert or mark_read       *)
  NoFile       (* no directory entry, no open file                          *)

ASSUME AlertsAssumption ==
  /\ NoKey \notin Keys
  /\ MaxRecords \in Nat \ {0} /\ MaxAlerts \in Nat
  /\ IsFiniteSet(Callers) /\ NoFile \notin Nat

VARIABLES
  files,       (* contents of the files (inodes)                            *)
  store,       (* the file that alerts.jsonl names, or NoFile               *)
  tmp,         (* the file that alerts.jsonl.tmp names, or NoFile           *)
  call,        (* what each caller is doing                                 *)
  lastId,      (* the newest id handed out (uuid4)                          *)
  (* History variables, read by no action. *)
  delivered,   (* ids whose raise_alert returned a record                   *)
  seen         (* ids that a mark_read has stored as read                   *)

alertsVars == <<files, store, tmp, call, lastId, delivered, seen>>

Files == 1..(Cardinality(Callers) + 2)

(* What a reader of alerts.jsonl gets: _load_all. *)
Content == IF store = NoFile THEN <<>> ELSE files[store]

I == INSTANCE Inbox WITH inbox <- Content

NoCall == [pc |-> "idle", list |-> <<>>, file |-> NoFile, raises |-> {}, reads |-> {}]

CallState ==
  [pc : {"idle", "open", "flush", "replace"}, list : Seq(I!Alert),
   file : Files \cup {NoFile}, raises : SUBSET I!AlertIds, reads : SUBSET I!AlertIds]

AlertsTypeOK ==
  /\ files \in [Files -> Seq(I!Alert)]
  /\ store \in Files \cup {NoFile}
  /\ tmp \in Files \cup {NoFile}
  /\ call \in [Callers -> CallState]
  /\ \A c \in Callers : Len(call[c].list) <= MaxRecords
  /\ lastId \in 0..MaxAlerts
  /\ delivered \in SUBSET I!AlertIds
  /\ seen \in SUBSET I!AlertIds

AlertsInit ==
  /\ files = [f \in Files |-> <<>>]
  /\ store = NoFile
  /\ tmp = NoFile
  /\ call = [c \in Callers |-> NoCall]
  /\ lastId = 0
  /\ delivered = {}
  /\ seen = {}

-----------------------------------------------------------------------------
(* Load and compute.                                                       *)

(* The caller will write this list, which raises or marks these alerts.     *)
Prepare(c, list, raises, reads) ==
  call' = [call EXCEPT ![c] =
    [NoCall EXCEPT !.pc = "open", !.list = I!Capped(list),
                 !.raises = raises, !.reads = reads]]

(* raise_alert: refresh the first matching unread alert ... *)
LoadToRefresh(c, k) ==
  /\ call[c].pc = "idle"
  /\ I!HasUnread(Content, k)
  /\ LET at == CHOOSE i \in I!UnreadAt(Content, k) :
                 \A j \in I!UnreadAt(Content, k) : i <= j
     IN Prepare(c, Content, {Content[at].id}, {})
  /\ UNCHANGED <<files, store, tmp, lastId, delivered, seen>>

(* ... or append a new one. *)
LoadToAppend(c, k) ==
  /\ call[c].pc = "idle"
  /\ ~I!HasUnread(Content, k)
  /\ lastId < MaxAlerts
  /\ lastId' = lastId + 1
  /\ Prepare(c, Append(Content, I!NewAlert(lastId + 1, k)), {lastId + 1}, {})
  /\ UNCHANGED <<files, store, tmp, delivered, seen>>

(* mark_read, by ids or all: nothing is written when nothing changed.       *)
LoadToMark(c, ids) ==
  LET unread == {i \in DOMAIN Content : ~Content[i].read}
      hit    == {Content[i].id : i \in unread} \cap ids
  IN /\ call[c].pc = "idle"
     /\ hit # {}
     /\ Prepare(c, I!MarkedRead(Content, hit), {}, hit)
     /\ UNCHANGED <<files, store, tmp, lastId, delivered, seen>>

-----------------------------------------------------------------------------
(* _write_all.                                                             *)

InUse == {store, tmp} \cup {call[c].file : c \in Callers}

(* Mutant: the rewrite goes straight to alerts.jsonl. *)
OpenInPlace(c) ==
  LET new == CHOOSE f \in Files : f \notin InUse
      f   == IF store = NoFile THEN new ELSE store
  IN /\ call[c].pc = "open"
     /\ files' = [files EXCEPT ![f] = <<>>]
     /\ tmp' = f
     /\ call' = [call EXCEPT ![c].pc = "flush", ![c].file = f]
     /\ UNCHANGED <<store, lastId, delivered, seen>>

(* open(tmp, "w") truncates the file that is there, or creates one.         *)
Open(c) ==
  LET new == CHOOSE f \in Files : f \notin InUse
      f   == IF tmp = NoFile THEN new ELSE tmp
  IN /\ call[c].pc = "open"
     /\ files' = [files EXCEPT ![f] = <<>>]
     /\ tmp' = f
     /\ call' = [call EXCEPT ![c].pc = "flush", ![c].file = f]
     /\ UNCHANGED <<store, lastId, delivered, seen>>

(* The buffered lines reach the file when it is closed, from offset 0 on.   *)
(* If someone else has written there in the meantime and what is there is   *)
(* longer, whole lines of its tail stay behind ours.                        *)
Flush(c) ==
  LET old == files[call[c].file]
  IN /\ call[c].pc = "flush"
     /\ \E n \in 0..Len(old) :
          /\ n = 0 \/ n < Len(old)
          /\ files' = [files EXCEPT ![call[c].file] =
                         call[c].list \o SubSeq(old, Len(old) - n + 1, Len(old))]
     /\ call' = [call EXCEPT ![c].pc = "replace", ![c].file = NoFile]
     /\ UNCHANGED <<store, tmp, lastId, delivered, seen>>

(* os.replace(tmp, path): whichever file has the temporary name is renamed. *)
(* If someone else has renamed it already it raises FileNotFoundError, and  *)
(* raise_alert returns None.                                                *)
Replace(c) ==
  /\ call[c].pc = "replace"
  /\ call' = [call EXCEPT ![c] = NoCall]
  /\ IF tmp = NoFile
     THEN UNCHANGED <<store, delivered, seen>>
     ELSE /\ store' = tmp
          /\ delivered' = delivered \cup call[c].raises
          /\ seen' = seen \cup call[c].reads
  /\ tmp' = NoFile
  /\ UNCHANGED <<files, lastId>>

(* Mutant: the caller is told that its alert was stored. *)
WriteFailsSilently(c) ==
  /\ call[c].pc \in {"open", "flush"}
  /\ call' = [call EXCEPT ![c] = NoCall]
  /\ delivered' = delivered \cup call[c].raises
  /\ seen' = seen \cup call[c].reads
  /\ UNCHANGED <<files, store, tmp, lastId>>

(* open() or the write raised (a full disk leaves a prefix in the file).    *)
WriteFails(c) ==
  /\ \/ call[c].pc = "open" /\ UNCHANGED files
     \/ /\ call[c].pc = "flush"
        /\ \E n \in 0..(Len(call[c].list) - 1) :
             files' = [files EXCEPT ![call[c].file] = SubSeq(call[c].list, 1, n)]
  /\ call' = [call EXCEPT ![c] = NoCall]
  /\ UNCHANGED <<store, tmp, lastId, delivered, seen>>

(* The process dies; directory entries and file contents stay.              *)
CallersDie ==
  /\ call' = [c \in Callers |-> NoCall]
  /\ UNCHANGED <<files, store, tmp, lastId, delivered, seen>>

-----------------------------------------------------------------------------
RaiseAlert(c) == \E k \in Keys \cup {NoKey} : LoadToRefresh(c, k) \/ LoadToAppend(c, k)

Rewrite(c) == Open(c) \/ Flush(c) \/ Replace(c) \/ WriteFails(c)

AlertsNext ==
  \/ \E c \in Callers :
       \/ RaiseAlert(c)
       \/ \E ids \in SUBSET I!AlertIds : LoadToMark(c, ids)
       \/ Rewrite(c)
  \/ CallersDie

AlertsSpec == AlertsInit /\ [][AlertsNext]_alertsVars

-----------------------------------------------------------------------------
(* Properties.                                                             *)

Stored(id) == \E i \in DOMAIN Content : Content[i].id = id

(* "persist to the per-profile inbox ... Returns the record written (or the *)
(* refreshed record), None on failure": an alert reported as delivered is   *)
(* in the inbox until the cap has pushed it out.                            *)
DeliveredKept ==
  \A id \in delivered :
    Stored(id) \/ Cardinality({d \in delivered : d > id}) >= MaxRecords

(* An alert the user has read does not come back as unread.                 *)
ReadStaysRead ==
  \A i \in DOMAIN Content : Content[i].id \in seen => Content[i].read

(* What a caller was told stays true of the file, through crashes and       *)
(* failed writes: a delivered alert is there and a read one is read.        *)
ReportsHold == AlertsTypeOK /\ DeliveredKept /\ ReadStaysRead

(* With one caller at a time, file operations, crashes and failed writes    *)
(* included, alerts.py implements the inbox.                                *)
ImplementsInbox == I!Spec
=============================================================================
