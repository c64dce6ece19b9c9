------------------------------- MODULE Lessons -------------------------------
(***************************************************************************)
(* The human gate on what the advisor learns: drafted lessons              *)
(* (pending_lessons.json) and the lessons in effect (lessons_learned of    *)
(* user_memory.json), as tools/pending_lessons.py and tools/memory.py keep *)
(* them.                                                                   *)
(*                                                                         *)
(* Consolidation passes draft from their threads, feedback from the event  *)
(* loop; the user confirms, discards, teaches, edits and deletes, one      *)
(* handler of the event loop at a time.  Every operation loads a whole     *)
(* file and saves a whole file, and other threads run in between; a        *)
(* confirmation writes the lesson and then the queue it had loaded.  The   *)
(* process can be killed between any two steps and a save can fail; it is  *)
(* atomic (json_store.write_json_atomic).                                  *)
(***************************************************************************)
EXTENDS Integers, Sequences, FiniteSets, SequencesExt, Selections

CONSTANTS
    Texts,          \* the wordings of a rule; two alike enough are one
    Passes,         \* threads that draft (consolidate_observations)
    PendingCap,     \* MAX_PENDING
    LessonCap,      \* LESSON_CAP
    MaxDrafts,      \* bound: drafts made in a run
    MaxFaults       \* bound: kills of the process and failed saves

ASSUME LessonsAssumption ==
    /\ {PendingCap, LessonCap} \subseteq Nat \ {0}
    /\ {MaxDrafts, MaxFaults} \subseteq Nat

VARIABLES
    pending,        \* pending_lessons.json, oldest first
    lessons,        \* lessons_learned, oldest first
    loop,           \* the handler the event loop is in and what it loaded, or Idle
    pass,           \* the draft each pass is saving and what it loaded, or Idle
    other,          \* the lessons as another writer of the file loaded them, or Idle
    drafts,         \* how many drafts were made (bound); they are numbered
    faults,
    gone,           \* history: drafts confirmed, discarded, capped or overwritten
    rules,          \* history: lessons approved, not since retired, deleted or overwritten
    edits           \* history: the texts the user edited another lesson into

vars == <<pending, lessons, loop, pass, other, drafts, faults, gone, rules, edits>>

Idle == [at |-> "idle"]
Draft == [id : 1..MaxDrafts, text : Texts]
Ids(s) == {d.id : d \in ToSet(s)}

Init ==
    /\ pending = <<>> /\ lessons = <<>>
    /\ loop = Idle /\ other = Idle
    /\ pass = [p \in Passes |-> Idle]
    /\ drafts = 0 /\ faults = 0
    /\ gone = {} /\ rules = {} /\ edits = {}

-----------------------------------------------------------------------------
(* Drafting: add_pending_lesson.  A rule already pending or already a       *)
(* lesson is not drafted again.                                             *)

AlreadyThere(text) ==
    \/ \E d \in ToSet(pending) : d.text = text
    \/ text \in ToSet(lessons)

(* The queue s, made from the one loaded, replaces what is on file by now.  *)
Overwritten(loaded) == Ids(pending) \ Ids(loaded)

PutPending(loaded, s) ==
    /\ pending' = LastOf(s, PendingCap)
    /\ gone' = gone \cup Overwritten(loaded) \cup (Ids(s) \ Ids(pending'))

PutDraft(loaded, text) ==
    /\ drafts < MaxDrafts /\ drafts' = drafts + 1
    /\ PutPending(loaded, Append(loaded, [id |-> drafts', text |-> text]))

DraftLoad(p, text) ==
    /\ pass[p] = Idle
    /\ ~AlreadyThere(text)
    /\ pass' = [pass EXCEPT ![p] = [at |-> "draft", text |-> text, pending |-> pending]]
    /\ UNCHANGED <<pending, lessons, loop, other, drafts, faults, gone, rules, edits>>

DraftSave(p) ==
    /\ pass[p] # Idle
    /\ PutDraft(pass[p].pending, pass[p].text)
    /\ pass' = [pass EXCEPT ![p] = Idle]
    /\ UNCHANGED <<lessons, loop, other, faults, rules, edits>>

(* A low rating with a comment drafts the comment.                          *)
FeedbackLoad(text) ==
    /\ loop = Idle
    /\ ~AlreadyThere(text)
    /\ loop' = [at |-> "draft", text |-> text, pending |-> pending]
    /\ UNCHANGED <<pending, lessons, pass, other, drafts, faults, gone, rules, edits>>

FeedbackSave ==
    /\ loop.at = "draft"
    /\ PutDraft(loop.pending, loop.text)
    /\ loop' = Idle
    /\ UNCHANGED <<lessons, pass, other, faults, rules, edits>>

-----------------------------------------------------------------------------
(* The gate: confirm_pending_lesson and discard_pending_lesson.             *)

(* lessons_pending_eviction: what the next add_lesson retires.              *)
AtRisk == SubSeq(lessons, 1, Len(lessons) + 1 - LessonCap)

(* Mutant: the cap keeps the oldest lessons. *)
KeptOldest(s) == IF Len(s) <= LessonCap THEN s ELSE SubSeq(s, 1, LessonCap)

Kept(s) == LastOf(s, LessonCap)

(* Mutant: only the oldest lesson is compared. *)
AlreadyOldest(text) == lessons # <<>> /\ Head(lessons) = text

AlreadyLesson(text) == text \in ToSet(lessons)

AddLesson(text) ==
    IF AlreadyLesson(text)
    THEN UNCHANGED <<lessons, rules>>
    ELSE /\ lessons' = Kept(Append(lessons, text))
         /\ rules' = (rules \cup {text}) \ ToSet(AtRisk)

(* The confirming human may have edited the wording.                        *)
ConfirmLoad(id, text) ==
    /\ loop = Idle
    /\ id \in Ids(pending)
    /\ loop' = [at |-> "promote", id |-> id, text |-> text, pending |-> pending]
    /\ UNCHANGED <<pending, lessons, pass, other, drafts, faults, gone, rules, edits>>

DiscardLoad(id) ==
    /\ loop = Idle
    /\ id \in Ids(pending)
    /\ loop' = [at |-> "remove", id |-> id, pending |-> pending]
    /\ gone' = gone \cup {id}
    /\ UNCHANGED <<pending, lessons, pass, other, drafts, faults, rules, edits>>

Promote ==
    /\ loop.at = "promote"
    /\ AddLesson(loop.text)
    /\ gone' = gone \cup {loop.id}
    /\ loop' = [at |-> "remove", id |-> loop.id, pending |-> loop.pending]
    /\ UNCHANGED <<pending, pass, other, drafts, faults, edits>>

(* Mutant: the drafts up to this one are dropped with it. *)
WithoutOlder(s, id) == KeepAt(s, {i \in DOMAIN s : s[i].id > id})

(* Out of the queue as it was loaded goes this draft and no other.          *)
Without(s, id) == KeepAt(s, {i \in DOMAIN s : s[i].id # id})

RemoveDraft ==
    /\ loop.at = "remove"
    /\ PutPending(loop.pending, Without(loop.pending, loop.id))
    /\ loop' = Idle
    /\ UNCHANGED <<lessons, pass, other, drafts, faults, rules, edits>>

-----------------------------------------------------------------------------
(* Lessons by hand: add_lesson, update_lesson and delete_lesson, each one   *)
(* load and one save of user_memory.json.                                   *)

Teach(text) ==
    /\ loop = Idle
    /\ AddLesson(text)
    /\ UNCHANGED <<pending, loop, pass, other, drafts, faults, gone, edits>>

EditLesson(i, text) ==
    /\ loop = Idle
    /\ lessons' = [lessons EXCEPT ![i] = text]
    /\ rules' = (rules \cap ToSet(lessons')) \cup {text}
    /\ edits' = edits \cup {text}
    /\ UNCHANGED <<pending, loop, pass, other, drafts, faults, gone>>

DeleteLesson(i) ==
    /\ loop = Idle
    /\ lessons' = KeepAt(lessons, DOMAIN lessons \ {i})
    /\ rules' = rules \cap ToSet(lessons')
    /\ UNCHANGED <<pending, loop, pass, other, drafts, faults, gone, edits>>

(* Any thread that writes another part of user_memory.json, a scorer or the *)
(* extractor of facts for one: it saves the lessons as it loaded them.      *)
OtherLoad ==
    /\ other = Idle
    /\ other' = [at |-> "save", lessons |-> lessons]
    /\ UNCHANGED <<pending, lessons, loop, pass, drafts, faults, gone, rules, edits>>

OtherSave ==
    /\ other # Idle
    /\ lessons' = other.lessons
    /\ rules' = rules \cap ToSet(lessons')
    /\ other' = Idle
    /\ UNCHANGED <<pending, loop, pass, drafts, faults, gone, edits>>

(* A save that fails leaves its file as it is, and nobody looks at that: a  *)
(* confirmation whose lesson was not stored goes on to drop the draft.      *)
SaveFails ==
    /\ faults < MaxFaults /\ faults' = faults + 1
    /\ \/ /\ \E p \in Passes : pass[p] # Idle /\ pass' = [pass EXCEPT ![p] = Idle]
          /\ UNCHANGED <<loop, other, gone>>
       \/ /\ loop.at = "promote"
          /\ loop' = [at |-> "remove", id |-> loop.id, pending |-> loop.pending]
          /\ gone' = gone \cup {loop.id}
          /\ UNCHANGED <<pass, other>>
       \/ /\ loop.at \in {"draft", "remove"} /\ loop' = Idle
          /\ UNCHANGED <<pass, other, gone>>
       \/ other # Idle /\ other' = Idle /\ UNCHANGED <<loop, pass, gone>>
    /\ UNCHANGED <<pending, lessons, drafts, rules, edits>>

Crash ==
    /\ faults < MaxFaults /\ faults' = faults + 1
    /\ loop' = Idle /\ other' = Idle
    /\ pass' = [p \in Passes |-> Idle]
    /\ UNCHANGED <<pending, lessons, drafts, gone, rules, edits>>

Next ==
    \/ \E p \in Passes : DraftSave(p) \/ \E text \in Texts : DraftLoad(p, text)
    \/ \E text \in Texts : FeedbackLoad(text) \/ Teach(text)
    \/ \E id \in 1..MaxDrafts : DiscardLoad(id) \/ \E text \in Texts : ConfirmLoad(id, text)
    \/ FeedbackSave \/ Promote \/ RemoveDraft
    \/ \E i \in DOMAIN lessons : DeleteLesson(i) \/ \E text \in Texts : EditLesson(i, text)
    \/ OtherLoad \/ OtherSave
    \/ SaveFails \/ Crash

Spec == Init /\ [][Next]_vars

-----------------------------------------------------------------------------
(* The queue and the lessons hold what their writers put there, within      *)
(* their caps.                                                              *)
LessonsTypeOK ==
    /\ pending \in Seq(Draft) /\ Len(pending) <= PendingCap
    /\ lessons \in Seq(Texts) /\ Len(lessons) <= LessonCap

(* A draft leaves the queue only by being confirmed, discarded, pushed out  *)
(* by the cap or overwritten by a queue loaded earlier: being killed        *)
(* between the two files of a confirmation never loses it.                  *)
DraftKept == 1..drafts \subseteq Ids(pending) \cup gone

(* However often a rule is drafted and confirmed (again after a kill, or    *)
(* again from a queue another writer restored), it is a lesson once, unless *)
(* the user edited another lesson into it.                                  *)
LessonOnce ==
    \A i, j \in DOMAIN lessons :
        i < j /\ lessons[i] = lessons[j] => lessons[i] \in edits

(* The two files are well formed, and no rule is a lesson twice.            *)
LessonsInv == LessonsTypeOK /\ LessonOnce

(* A lesson is lost only to a deletion, an edit, an older file saved over   *)
(* it, or as the rule the user was told was at risk.                        *)
LessonKept == rules \subseteq ToSet(lessons)
=============================================================================
