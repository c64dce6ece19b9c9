----------------------------- MODULE ChatTurn -----------------------------
(***************************************************************************)
(* A chat request of api/routers/chat.py.  Each turn has two halves: a     *)
(* worker thread (run_agent) that invokes the agent graph and fills a      *)
(* queue, and a generator on the event loop (event_generator) that drains  *)
(* the queue into the response.  One of them persists the turn             *)
(* (_finalize_turn): the generator when the stream closes cleanly, the     *)
(* worker when it sees that the client is gone.                            *)
(*                                                                         *)
(* An answer is the pieces 1..made in the order the graph produced them; a *)
(* piece is streamed live or only found in the final state.  The stream's  *)
(* event loop is one thread: while a generator saves, no other coroutine   *)
(* runs (LoopFree); worker threads interleave with everything.             *)
(***************************************************************************)
EXTENDS Naturals, FiniteSets, Sequences, SequencesExt, Selections

CONSTANTS Turns,         \* requests; each is posted at most once
          Threads,       \* chat threads, the keys of _active_sessions
          None,          \* "no such entry"
          MaxPieces,     \* bound on the pieces of an answer
          Long,          \* turns whose answer may have more than one piece
          MaxSessions    \* sessions kept in chat_history.json (7 in the code)

VARIABLES run,       \* per turn, the locals of its two halves
          session,   \* _active_sessions
          active,    \* _active_chat_runs
          file,      \* chat_history.json: sequence of [id, log]
          feedback   \* what add_interaction has stored: [answer, query]

chatVars == <<run, session, active, file, feedback>>

Entry == [role : {"user", "assistant"}, turn : Turns]
User(t) == [role |-> "user", turn |-> t]
Answer(t) == [role |-> "assistant", turn |-> t]

ASSUME ChatAssumption ==
    /\ IsFiniteSet(Turns) /\ Long \subseteq Turns
    /\ None \notin Turns \cup Threads \cup Seq(Entry)
    /\ MaxPieces \in Nat \ {0} /\ MaxSessions \in Nat \ {0}

Eof == MaxPieces + 1
Fallback == 0                       \* the "could not be rendered cleanly" message
Pieces == 0..MaxPieces
Saved == [id : Threads, log : Seq(Entry)]

Run ==
    [thread : Threads \cup {None},
     worker : {"none", "invoking", "emitted", "saving", "ending", "done"},
     gen : {"none", "waiting", "sending", "closing", "saving", "closed", "torn", "dropped"},
     queue : Seq(Pieces \cup {Eof}), made : Pieces, streamed : Seq(Pieces),
     seen : Seq(Pieces), delivered : Seq(Pieces), pending : Seq(Pieces),
     gone : BOOLEAN, sawGone : BOOLEAN, cancelled : BOOLEAN, failed : BOOLEAN,
     fin : {"no", "joining", "joined", "loaded", "saved", "unsaved"},
     said : Seq(Pieces), loaded : Seq(Saved), disturbed : BOOLEAN]

Unposted ==
    [thread |-> None, worker |-> "none", gen |-> "none", queue |-> <<>>, made |-> 0,
     streamed |-> <<>>, seen |-> <<>>, delivered |-> <<>>, pending |-> <<>>,
     gone |-> FALSE, sawGone |-> FALSE, cancelled |-> FALSE, failed |-> FALSE,
     fin |-> "no", said |-> <<>>, loaded |-> <<>>, disturbed |-> FALSE]

Init == /\ run = [t \in Turns |-> Unposted]
        /\ session = [h \in Threads |-> None]
        /\ active = [h \in Threads |-> None]
        /\ file = <<>>
        /\ feedback = {}

-----------------------------------------------------------------------------
(* chat_history.json                                                       *)

Stored(h) == {i \in DOMAIN file : file[i].id = h}
StoredLog(h) == IF Stored(h) = {} THEN None ELSE file[CHOOSE i \in Stored(h) : TRUE].log

\* save_current_session: update in place or append, then keep the last ones.
WithSession(sessions, h, log) ==
    LET at == {i \in DOMAIN sessions : sessions[i].id = h}
        new == [id |-> h, log |-> log]
        all == IF at = {} THEN Append(sessions, new)
               ELSE [sessions EXCEPT ![CHOOSE i \in at : TRUE] = new]
    IN SubSeq(all, IF Len(all) > MaxSessions THEN Len(all) - MaxSessions + 1 ELSE 1, Len(all))

-----------------------------------------------------------------------------
(* The endpoints.  All of them run on the event loop.                      *)

LoopFree == \A t \in Turns : run[t].gen # "saving"
Settled(t) == run[t].worker = "done" /\ run[t].gen \in {"closed", "torn", "dropped"}
Underway(h) == {t \in Turns : run[t].thread = h /\ ~Settled(t)}

\* A request that changes the session of a turn under way.  `disturbed` is
\* history: the code has no such flag.
Disturb(h, r) == [t \in Turns |-> IF t \in Underway(h) THEN [r[t] EXCEPT !.disturbed = TRUE] ELSE r[t]]

\* chat_endpoint: the session is restored from the file when it is not in
\* memory, the message joins it, and an earlier run of the thread is cancelled.
Post(t, h) ==
    /\ LoopFree /\ run[t].thread = None
    /\ LET before == IF session[h] # None THEN session[h]
                     ELSE IF StoredLog(h) # None THEN StoredLog(h) ELSE <<>>
           others == [u \in Turns |-> IF u = active[h] THEN [run[u] EXCEPT !.cancelled = TRUE] ELSE run[u]]
       IN /\ session' = [session EXCEPT ![h] = Append(before, User(t))]
          /\ run' = [Disturb(h, others) EXCEPT ![t].thread = h, ![t].worker = "invoking",
                        ![t].gen = "waiting", ![t].disturbed = Underway(h) # {}]
    /\ active' = [active EXCEPT ![h] = t]
    /\ UNCHANGED <<file, feedback>>

\* chat_stop_endpoint; the graph does not poll the event.  Without a thread id it
\* does the same for every thread.
StopChat(h) ==
    /\ LoopFree /\ active[h] # None
    /\ run' = [run EXCEPT ![active[h]].cancelled = TRUE]
    /\ UNCHANGED <<session, active, file, feedback>>

\* Mutant: the saved copy is appended to the live one.
GetChatMerges(h) ==
    /\ LoopFree /\ StoredLog(h) # None /\ session[h] # None /\ Len(session[h]) <= 4
    /\ session' = [session EXCEPT ![h] = @ \o StoredLog(h)]
    /\ run' = Disturb(h, run)
    /\ UNCHANGED <<active, file, feedback>>
\* get_chat: opening a saved chat puts the saved copy in place of the live one.
GetChat(h) ==
    /\ LoopFree /\ StoredLog(h) # None
    /\ session' = [session EXCEPT ![h] = StoredLog(h)]
    /\ run' = Disturb(h, run)
    /\ UNCHANGED <<active, file, feedback>>

\* remove_chat: from the file and from memory; a run of the thread goes on.
RemoveChat(h) ==
    /\ LoopFree /\ (session[h] # None \/ StoredLog(h) # None)
    /\ session' = [session EXCEPT ![h] = None]
    /\ file' = KeepAt(file, DOMAIN file \ Stored(h))
    /\ run' = Disturb(h, run)
    /\ UNCHANGED <<active, feedback>>

-----------------------------------------------------------------------------
\* loop.call_soon_threadsafe(enqueue_stream_item, ...).  What is put into a queue
\* that nobody will read again is forgotten.
Live(r) == r.gen \notin {"closed", "torn", "dropped"}
Put(r, items) == IF Live(r) THEN [r EXCEPT !.queue = @ \o items] ELSE r
LeaveStream(r, how) == [r EXCEPT !.gen = how, !.queue = <<>>, !.seen = <<>>]

-----------------------------------------------------------------------------
(* _finalize_turn, called by the worker or by the generator.               *)

\* The two early returns: nothing to say or no session, and already done.
MayFinalize(t, text) == text # <<>> /\ session[run[t].thread] # None /\ run[t].fin = "no"

\* What the caller does after the call.
Return(r, how) ==
    LET left == [r EXCEPT !.fin = how, !.said = <<>>, !.loaded = <<>>]
    IN IF r.worker = "saving" THEN [left EXCEPT !.worker = "ending"] ELSE LeaveStream(left, "closed")

\* Mutant: the session's first message is taken for the question.
QuestionFirst(log) == Head(log).turn
\* The question is whatever the session ends with, if a user said it.
Question(log) == IF log # <<>> /\ Last(log).role = "user" THEN Last(log).turn ELSE None

\* The interaction is stored
\* for rating, then the answer joins the session.
JoinSession(t) ==
    /\ run[t].fin = "joining"
    /\ LET log == session[run[t].thread]
       IN IF log = None
          THEN /\ run' = [run EXCEPT ![t] = Return(@, "unsaved")]
               /\ UNCHANGED <<session, feedback>>
          ELSE /\ feedback' = feedback \cup
                     {[answer |-> t, query |-> Question(log)]}
               /\ session' = [session EXCEPT ![run[t].thread] = Append(log, Answer(t))]
               /\ run' = [run EXCEPT ![t].fin = "joined"]
    /\ UNCHANGED <<active, file>>

\* save_current_session loads the whole file ...
LoadFile(t) ==
    /\ run[t].fin = "joined"
    /\ run' = [run EXCEPT ![t] =
                 IF session[run[t].thread] = None THEN Return(@, "unsaved")
                 ELSE [@ EXCEPT !.fin = "loaded",
                                !.loaded = WithSession(file, run[t].thread, session[run[t].thread])]]
    /\ UNCHANGED <<session, active, file, feedback>>

\* ... and replaces it, or fails to.
StoreFile(t) ==
    /\ run[t].fin = "loaded"
    /\ \/ /\ file' = run[t].loaded
          /\ run' = [run EXCEPT ![t] = Return(@, "saved")]
       \/ /\ file' = file
          /\ run' = [run EXCEPT ![t] = Return(@, "unsaved")]
    /\ UNCHANGED <<session, active, feedback>>

Finalize(t) == /\ run[t].fin \in {"joining", "joined", "loaded"}
               /\ JoinSession(t) \/ LoadFile(t) \/ StoreFile(t)

-----------------------------------------------------------------------------
(* run_agent, the worker thread.                                           *)

\* Inside agent.invoke: a message is produced, streamed through on_token or not.
Produce(t) ==
    /\ run[t].worker = "invoking" /\ run[t].made < (IF t \in Long THEN MaxPieces ELSE 1)
    /\ LET r == run[t]
           p == r.made + 1
       IN \/ run' = [run EXCEPT ![t] = Put([r EXCEPT !.made = p, !.streamed = Append(@, p)], <<p>>)]
          \/ run' = [run EXCEPT ![t] = [r EXCEPT !.made = p]]
    /\ UNCHANGED <<session, active, file, feedback>>

\* The messages that the chosen buffer does not cover are queued.  The buffer
\* is what was delivered if the client is known to be gone, else what was
\* produced.  An answer without any visible text gets the fallback message.
Covering(r) == IF r.gone THEN r.delivered ELSE r.streamed
\* Mutant: the disconnected client's turn is compared with what was produced.
UncoveredByProduced(r) == Ascending((1..r.made) \ ToSet(r.streamed))
Uncovered(r) == Ascending((1..r.made) \ ToSet(Covering(r)))

InvokeReturns(t) ==
    /\ run[t].worker = "invoking"
    /\ LET r == run[t]
           rest == Uncovered(r)
           note == IF rest = <<>> /\ Covering(r) = <<>> /\ ~r.cancelled THEN <<Fallback>> ELSE <<>>
       IN run' = [run EXCEPT ![t] = Put([r EXCEPT !.worker = "emitted", !.sawGone = r.gone,
                                                  !.pending = rest], rest \o note)]
    /\ UNCHANGED <<session, active, file, feedback>>

\* Mutant: a crash of the graph skips the finally block.
InvokeFailsMute(t) ==
    /\ run[t].worker = "invoking"
    /\ run' = [run EXCEPT ![t].worker = "done", ![t].failed = TRUE]
    /\ UNCHANGED <<session, active, file, feedback>>
\* agent.invoke raises: the error is queued, nothing is recovered.
InvokeFails(t) ==
    /\ run[t].worker = "invoking"
    /\ run' = [run EXCEPT ![t].worker = "ending", ![t].failed = TRUE]
    /\ UNCHANGED <<session, active, file, feedback>>

\* Mutant: only what was not delivered is recovered.
RecoveredRest(r) == r.pending
\* What the worker has of a turn whose client is gone: what was delivered, and
\* what it found undelivered.
Recovered(r) == r.delivered \o r.pending

\* Second look at client_gone.
Recover(t) ==
    /\ run[t].worker = "emitted"
    /\ LET text == Recovered(run[t])
       IN run' = [run EXCEPT ![t] =
                    IF @.gone /\ MayFinalize(t, text)
                    THEN [@ EXCEPT !.worker = "saving", !.fin = "joining", !.said = text]
                    ELSE [@ EXCEPT !.worker = "ending"]]
    /\ UNCHANGED <<session, active, file, feedback>>

\* Mutant: whatever run is registered is forgotten.
WorkerEndsForgetsAny(t) ==
    /\ run[t].worker = "ending"
    /\ run' = [run EXCEPT ![t] = Put([@ EXCEPT !.worker = "done", !.streamed = <<>>, !.pending = <<>>,
                                               !.delivered = <<>>], <<Eof>>)]
    /\ active' = [active EXCEPT ![run[t].thread] = None]
    /\ UNCHANGED <<session, file, feedback>>
\* finally: the run is forgotten if it still is the thread's run, EOF is queued.
WorkerEnds(t) ==
    /\ run[t].worker = "ending"
    /\ run' = [run EXCEPT ![t] = Put([@ EXCEPT !.worker = "done", !.streamed = <<>>, !.pending = <<>>,
                                               !.delivered = <<>>], <<Eof>>)]
    /\ active' = [h \in Threads |-> IF active[h] = t THEN None ELSE active[h]]
    /\ UNCHANGED <<session, file, feedback>>

WorkerStep(t) == Produce(t) \/ InvokeReturns(t) \/ InvokeFails(t) \/ Recover(t) \/ WorkerEnds(t)

-----------------------------------------------------------------------------
(* event_generator, on the event loop.                                     *)

\* A queue item: text is accumulated and handed to the response, EOF ends the loop.
TakeItem(t) ==
    /\ LoopFree /\ run[t].gen = "waiting" /\ run[t].queue # <<>>
    /\ LET item == Head(run[t].queue)
       IN run' = [run EXCEPT ![t].queue = Tail(@),
                     ![t].gen = IF item = Eof THEN "closing" ELSE "sending",
                     ![t].seen = IF item = Eof THEN @ ELSE Append(@, item)]
    /\ UNCHANGED <<session, active, file, feedback>>

\* The yield returns: the text is on the wire (delivered is read by the worker only).
FrameSent(t) ==
    /\ LoopFree /\ run[t].gen = "sending"
    /\ run' = [run EXCEPT ![t].gen = "waiting", 
                          ![t].delivered = IF run[t].worker = "done" THEN <<>> ELSE run[t].seen]
    /\ UNCHANGED <<session, active, file, feedback>>

\* CancelledError, GeneratorExit or another exception inside the loop.
TearDown(t) ==
    /\ LoopFree /\ run[t].gen \in {"waiting", "sending"}
    /\ run' = [run EXCEPT ![t] = LeaveStream([@ EXCEPT !.gone = TRUE, !.cancelled = TRUE], "torn")]
    /\ UNCHANGED <<session, active, file, feedback>>

\* The client goes while no handler is in force: before the generator has been
\* entered, or at the reconciling frame in the else branch.
DropUnseen(t) ==
    /\ LoopFree
    /\ run[t].gen = "closing" \/ (run[t].gen = "waiting" /\ run[t].seen = <<>>)
    /\ run' = [run EXCEPT ![t] = LeaveStream(@, "dropped")]
    /\ UNCHANGED <<session, active, file, feedback>>

\* The clean close.
CloseStream(t) ==
    /\ LoopFree /\ run[t].gen = "closing"
    /\ run' = [run EXCEPT ![t] =
                 IF MayFinalize(t, @.seen)
                 THEN [@ EXCEPT !.gen = "saving", !.fin = "joining", !.said = run[t].seen]
                 ELSE LeaveStream(@, "closed")]
    /\ UNCHANGED <<session, active, file, feedback>>

ReadStep(t) == TakeItem(t) \/ FrameSent(t) \/ CloseStream(t)

-----------------------------------------------------------------------------
Request == \/ \E t \in Turns, h \in Threads : Post(t, h)
           \/ \E h \in Threads : StopChat(h) \/ GetChat(h) \/ RemoveChat(h)

AllSettled == \A t \in Turns : run[t].thread # None => Settled(t)
Idle == AllSettled /\ UNCHANGED chatVars

Next == \/ Request
        \/ \E t \in Turns : WorkerStep(t)
        \/ \E t \in Turns : Finalize(t)
        \/ \E t \in Turns : ReadStep(t)
        \/ \E t \in Turns : TearDown(t) \/ DropUnseen(t)
        \/ Idle

\* A turn's own step, other than one more message from the graph.
TurnStep(t) == InvokeReturns(t) \/ InvokeFails(t) \/ Recover(t) \/ WorkerEnds(t) \/ Finalize(t) \/ ReadStep(t)

\* The weakest assumption that is enough: as long as a thread or the event loop
\* can go on with some turn, one of them does (the graph's time-outs end every
\* invocation).  Clients owe nothing.
Fairness == WF_chatVars(\E t \in Turns : TurnStep(t))

Spec == Init /\ [][Next]_chatVars /\ Fairness
-----------------------------------------------------------------------------
\* Type invariant.
ChatTypeOK ==
    /\ run \in [Turns -> Run]
    /\ session \in [Threads -> Seq(Entry) \cup {None}]
    /\ active \in [Threads -> Turns \cup {None}]
    /\ file \in Seq(Saved) /\ Len(file) <= MaxSessions
    /\ feedback \subseteq [answer : Turns, query : Turns \cup {None}]

\* "Runs exactly once per turn, from whichever side reaches the end first":
\* whoever persists, and whatever copy of the session is in memory meanwhile, no
\* session ever holds two answers to one turn.
FinalizedOnce ==
    \A t \in Turns, h \in Threads : session[h] # None =>
        Cardinality({i \in DOMAIN session[h] : session[h][i] = Answer(t)}) <= 1

\* The state is well formed, and no answer stands twice.
ChatInv == ChatTypeOK /\ FinalizedOnce

\* What is persisted is the answer the stream renders, each message once: for a
\* stream that closed, and for a client whose loss the worker knew of when it
\* compared buffers.  (A client that goes between the two looks at client_gone
\* is the exception, see README.)
WholeAnswer ==
    \A t \in Turns :
        LET r == run[t]
        IN r.fin \in {"joining", "joined", "loaded"} /\ ~r.failed /\ r.gone = r.sawGone =>
              /\ ToSet(r.said) = IF r.made = 0 THEN {Fallback} ELSE 1..r.made
              /\ Len(r.said) = Cardinality(ToSet(r.said))

\* "persist it here so a reload recovers the answer instead of losing it": a
\* turn nobody else interfered with is persisted if its stream closed cleanly or
\* its worker knew that the client was gone.
AnswerKept ==
    \A t \in Turns :
        LET r == run[t]
        IN Settled(t) /\ ~r.failed /\ ~r.disturbed /\ r.made > 0 /\ (r.gen = "closed" \/ r.sawGone)
           => r.fin \in {"saved", "unsaved"}

\* No run can escape the stop button: as long as its worker runs it is the run
\* registered for the thread, or it has been told to stop already.
EveryRunStoppable ==
    \A t \in Turns : run[t].worker \notin {"none", "done"} =>
        active[run[t].thread] = t \/ run[t].cancelled

\* "Capture the triggering human message BEFORE appending the assistant reply":
\* the question stored for rating, judged for privacy and for its lens, is the
\* one that was answered, unless another request touched the session meanwhile.
OwnQuestion ==
    \A r \in feedback : ~run[r.answer].disturbed => r.query = r.answer

\* Every turn comes to rest, with or without its client, whatever the other
\* turns of the thread do: in the end every posted turn is settled for good.
EveryTurnSettles == <>[](\A t \in Turns : run[t].thread # None => Settled(t))
=============================================================================
