--------------------------- MODULE ChatTurnProofs ---------------------------
(***************************************************************************)
(* Proofs about ChatTurn for any number of requests, chat threads, pieces  *)
(* of an answer and saved sessions.                                        *)
(***************************************************************************)
EXTENDS ChatTurn, SelectionsProofs

(* A turn's answer is all of it: every message the graph produced, once,   *)
(* or, if there is none, at most the fallback message.                     *)
Injective(s) == \A i, j \in DOMAIN s : s[i] = s[j] => i = j
Within(s, n) == \A i \in DOMAIN s : s[i] \in 1..n
Complete(s, made) ==
  /\ Injective(s)
  /\ IF made = 0 THEN \A i \in DOMAIN s : s[i] = Fallback
     ELSE Within(s, made) /\ \A p \in 1..made : \E i \in DOMAIN s : s[i] = p

Persisting == {"joining", "joined", "loaded"}
Reading == {"waiting", "sending"}

(* How far the two halves of a turn may be apart.                          *)
HalvesInv(r) ==
  /\ r.thread = None <=> r.worker = "none"
  /\ r.thread = None <=> r.gen = "none"
  /\ r.gen \in {"closing", "saving", "closed"} => r.worker = "done"
  /\ r.gone <=> r.gen = "torn"
  /\ r.sawGone => r.gone
  /\ r.failed => r.worker \in {"ending", "done"}

(* Who persists: one half at a time, and neither before it may.            *)
FinInv(r) ==
  /\ r.fin \in Persisting <=> r.worker = "saving" \/ r.gen = "saving"
  /\ r.worker \in {"none", "invoking", "emitted"} => r.fin = "no"
  /\ r.gen \in Reading \cup {"closing"} => r.fin = "no"
  /\ r.worker = "saving" => r.gone
  /\ Len(r.loaded) <= MaxSessions

(* What has reached the response and what is still queued for it make up   *)
(* the stream: all that was produced so far, then the whole answer, and    *)
(* the end mark last.                                                      *)
StreamInv(r) ==
  /\ r.thread = None =>
       r.queue = <<>> /\ r.seen = <<>> /\ r.streamed = <<>> /\ r.delivered = <<>>
  /\ r.worker # "done" => r.queue \in Seq(Pieces)
  /\ r.worker = "invoking" /\ r.gen \in Reading => r.seen \o r.queue = r.streamed
  /\ r.worker \in {"emitted", "ending"} /\ r.gen \in Reading /\ ~r.failed
       => Complete(r.seen \o r.queue, r.made)
  /\ r.worker = "done" /\ r.gen \in Reading /\ ~r.failed
       => \E body \in Seq(Pieces) :
            r.queue = Append(body, Eof) /\ Complete(r.seen \o body, r.made)
  /\ r.gen = "closing" /\ ~r.failed => Complete(r.seen, r.made)

(* What the worker may compare its messages with, and what it recovers.    *)
BufferInv(r) ==
  /\ r.worker = "invoking" =>
       /\ Injective(r.streamed) /\ Within(r.streamed, r.made)
       /\ Injective(r.delivered) /\ Within(r.delivered, r.made)
  /\ r.worker = "emitted" /\ r.sawGone => Complete(r.delivered \o r.pending, r.made)

(* What is being persisted is the answer, and it is persisted.             *)
SaidInv(r) ==
  /\ r.fin \in Persisting /\ ~r.failed /\ r.gone = r.sawGone
       => r.said # <<>> /\ Complete(r.said, r.made)
  /\ ~r.failed /\ ~r.disturbed /\ r.made > 0 =>
       /\ r.worker \in {"ending", "done"} /\ r.sawGone => r.fin \in {"saved", "unsaved"}
       /\ r.gen = "closed" => r.fin \in {"saved", "unsaved"}

TurnInv(r) == HalvesInv(r) /\ FinInv(r) /\ StreamInv(r) /\ BufferInv(r) /\ SaidInv(r)
Turnwise == \A t \in Turns : TurnInv(run[t])

-----------------------------------------------------------------------------
(* Across turns.                                                           *)

Open(t) == run[t].thread # None /\ ~Settled(t)

(* Two turns under way on one thread have disturbed each other.            *)
Alone == \A t, u \in Turns :
           t # u /\ Open(t) /\ Open(u) /\ run[t].thread = run[u].thread => run[t].disturbed

(* Until an undisturbed turn joins its session, that ends with its question. *)
Asked ==
  \A t \in Turns : Open(t) /\ ~run[t].disturbed /\ run[t].fin \in {"no", "joining"} =>
    /\ session[run[t].thread] # None /\ session[run[t].thread] # <<>>
    /\ Last(session[run[t].thread]) = User(t)

(* A log, in memory, on file or on its way there, holds one answer to a    *)
(* turn at most, and only if that turn has joined a session.               *)
Joined(t) == run[t].fin \notin {"no", "joining"}
GoodLog(log) ==
  /\ \A i \in DOMAIN log : log[i].role = "assistant" => Joined(log[i].turn)
  /\ \A i, j \in DOMAIN log : log[i] = log[j] /\ log[i].role = "assistant" => i = j
GoodFile(saved) == \A i \in DOMAIN saved : GoodLog(saved[i].log)
Logs ==
  /\ \A h \in Threads : session[h] # None => GoodLog(session[h])
  /\ GoodFile(file)
  /\ \A t \in Turns : GoodFile(run[t].loaded)

(* Only answers that have joined a session are up for rating.              *)
Rated == \A x \in feedback : Joined(x.answer)

IInv == /\ ChatTypeOK /\ Turnwise
        /\ Alone /\ Asked /\ Logs
        /\ EveryRunStoppable /\ OwnQuestion /\ Rated

-----------------------------------------------------------------------------
(* Sequences of pieces.                                                    *)

USE ChatAssumption

LEMMA PiecesType ==
  /\ Pieces \subseteq Nat /\ Fallback \in Pieces /\ Eof \notin Pieces /\ Eof \in Nat
  /\ \A n \in Pieces : n \in Nat /\ n <= MaxPieces /\ 1..n \subseteq Pieces
  BY DEF Pieces, Fallback, Eof

(* The items of a concatenation are those of its parts.                    *)
LEMMA ConcatItems ==
  ASSUME NEW T, NEW s \in Seq(T), NEW u \in Seq(T), NEW c, c = s \o u
  PROVE  /\ c \in Seq(T) /\ Len(c) = Len(s) + Len(u)
         /\ \A i \in DOMAIN s : i \in DOMAIN c /\ c[i] = s[i]
         /\ \A i \in DOMAIN u : i + Len(s) \in DOMAIN c /\ c[i + Len(s)] = u[i]
         /\ \A i \in DOMAIN c :
              i \in DOMAIN s \/ (i - Len(s) \in DOMAIN u /\ c[i] = u[i - Len(s)])
<1>1. Len(s) \in Nat /\ Len(u) \in Nat /\ DOMAIN s = 1..Len(s) /\ DOMAIN u = 1..Len(u)
  BY LenProperties
<1>2. /\ c \in Seq(T) /\ Len(c) = Len(s) + Len(u)
      /\ \A i \in 1..(Len(s) + Len(u)) : c[i] = IF i <= Len(s) THEN s[i] ELSE u[i - Len(s)]
  BY ConcatProperties
<1>3. DOMAIN c = 1..(Len(s) + Len(u))
  BY <1>2, LenProperties
<1> QED BY <1>1, <1>2, <1>3

(* Adding to a sequence of pieces, one or several at a time.               *)
LEMMA PieceSeqs ==
  /\ \A s, u \in Seq(Pieces) : s \o u \in Seq(Pieces)
  /\ \A s, u, v \in Seq(Pieces) : s \o (u \o v) = (s \o u) \o v
  /\ \A s \in Seq(Pieces), p \in Pieces :
       Append(s, p) = s \o <<p>> /\ Append(s, p) \in Seq(Pieces) /\ <<p>> \in Seq(Pieces)
  /\ \A s \in Seq(Pieces) : s \in Seq(Pieces \cup {Eof})
<1>1. ASSUME NEW s \in Seq(Pieces), NEW u \in Seq(Pieces) PROVE s \o u \in Seq(Pieces)
  BY ConcatProperties
<1>2. ASSUME NEW s \in Seq(Pieces), NEW u \in Seq(Pieces), NEW v \in Seq(Pieces)
      PROVE  s \o (u \o v) = (s \o u) \o v
  BY ConcatAssociative
<1>3. ASSUME NEW s \in Seq(Pieces), NEW p \in Pieces
      PROVE  Append(s, p) = s \o <<p>> /\ Append(s, p) \in Seq(Pieces) /\ <<p>> \in Seq(Pieces)
  BY AppendIsConcat, AppendProperties
<1>4. ASSUME NEW s \in Seq(Pieces) PROVE s \in Seq(Pieces \cup {Eof})
  BY SeqMonotonic
<1> QED BY <1>1, <1>2, <1>3, <1>4

LEMMA StreamGrows ==
  ASSUME NEW r, r.seen \in Seq(Pieces), r.queue \in Seq(Pieces), NEW items \in Seq(Pieces)
  PROVE  /\ r.queue \o items \in Seq(Pieces)
         /\ r.seen \o (r.queue \o items) = (r.seen \o r.queue) \o items
<1> DEFINE seen == r.seen
           queue == r.queue
<1>1. seen \in Seq(Pieces) /\ queue \in Seq(Pieces)
  OBVIOUS
<1> HIDE DEF seen, queue
<1>2. queue \o items \in Seq(Pieces) /\ seen \o (queue \o items) = (seen \o queue) \o items
  BY <1>1, PieceSeqs
<1> QED BY <1>2 DEF seen, queue

(* What a buffer lacks completes it, and a buffer that lacks nothing and   *)
(* holds nothing leaves room for the fallback message.                     *)
LEMMA RestCompletes ==
  ASSUME NEW made \in Pieces, NEW s \in Seq(Pieces), Injective(s), Within(s, made),
         NEW note \in {<<>>, <<Fallback>>}
  PROVE  LET rest == Ascending((1..made) \ ToSet(s))
         IN /\ rest \in Seq(Pieces) /\ rest \o note \in Seq(Pieces)
            /\ rest = <<>> /\ s = <<>> => made = 0
            /\ Complete(s \o rest, made)
            /\ (note # <<>> => rest = <<>> /\ s = <<>>) => Complete(s \o (rest \o note), made)
<1> DEFINE M == (1..made) \ ToSet(s)
           rest == Ascending(M)
<1>1. made \in Nat /\ M \in SUBSET Int /\ M \subseteq Pieces /\ M \subseteq 1..made
  BY PiecesType
<1>2. IsFiniteSet(M)
  BY <1>1, FS_Interval, FS_Subset
<1>3. /\ rest \in Seq(M) /\ Cardinality(M) \in Nat /\ DOMAIN rest = 1..Cardinality(M)
      /\ \A i, j \in DOMAIN rest : i < j => rest[i] < rest[j]
      /\ \A p \in M : \E i \in DOMAIN rest : rest[i] = p
  BY <1>1, <1>2, AscendingLemma
<1>4. \A p : p \in M <=> p \in 1..made /\ ~\E i \in DOMAIN s : s[i] = p
  BY DEF ToSet
<1> HIDE DEF M, rest
<1>5. rest \in Seq(Pieces) /\ \A i \in DOMAIN rest : rest[i] \in M
  <2>1. rest \in Seq(Pieces)
    BY <1>1, <1>3, SeqMonotonic
  <2> QED BY <1>3, <2>1, ElementOfSeq, LenProperties
<1>6. \A i, j \in DOMAIN rest : rest[i] = rest[j] => i = j
  <2> SUFFICES ASSUME NEW i \in DOMAIN rest, NEW j \in DOMAIN rest, i < j PROVE rest[i] # rest[j]
    BY <1>3
  <2>1. rest[i] < rest[j] /\ rest[i] \in Int
    BY <1>1, <1>3, <1>5
  <2> QED BY <2>1
<1>7. Complete(s \o rest, made)
  <2> DEFINE c == s \o rest
  <2>1. /\ c \in Seq(Pieces)
        /\ \A i \in DOMAIN s : i \in DOMAIN c /\ c[i] = s[i]
        /\ \A i \in DOMAIN rest : i + Len(s) \in DOMAIN c /\ c[i + Len(s)] = rest[i]
        /\ \A i \in DOMAIN c :
             i \in DOMAIN s \/ (i - Len(s) \in DOMAIN rest /\ c[i] = rest[i - Len(s)])
    <3>1. c = s \o rest
      OBVIOUS
    <3> HIDE DEF c
    <3> QED BY <1>5, <3>1, ConcatItems
  <2>2. DOMAIN c \subseteq Nat /\ Len(s) \in Nat
    BY <2>1, LenProperties
  <2> HIDE DEF c
  <2>3. Within(c, made)
    <3> SUFFICES ASSUME NEW i \in DOMAIN c PROVE c[i] \in 1..made
      BY DEF Within
    <3> QED BY <2>1, <1>1, <1>5 DEF Within
  <2>4. \A p \in 1..made : \E i \in DOMAIN c : c[i] = p
    BY <2>1, <1>3, <1>4
  <2>5. Injective(c)
    <3> SUFFICES ASSUME NEW i \in DOMAIN c, NEW j \in DOMAIN c, c[i] = c[j] PROVE i = j
      BY DEF Injective
    <3>1. CASE i \in DOMAIN s /\ j \in DOMAIN s
      BY <3>1, <2>1 DEF Injective
    <3>2. CASE i \in DOMAIN s /\ j \notin DOMAIN s
      BY <3>2, <2>1, <1>4, <1>5
    <3>3. CASE i \notin DOMAIN s /\ j \in DOMAIN s
      BY <3>3, <2>1, <1>4, <1>5
    <3>4. CASE i \notin DOMAIN s /\ j \notin DOMAIN s
      BY <3>4, <2>1, <2>2, <1>6
    <3> QED BY <3>1, <3>2, <3>3, <3>4
  <2>6. made = 0 => c = <<>>
    <3> SUFFICES ASSUME made = 0 PROVE c = <<>>
      OBVIOUS
    <3>1. DOMAIN c = {}
      BY <2>3, <1>1 DEF Within
    <3> QED BY <3>1, <2>1, LenProperties
  <2> QED BY <2>3, <2>4, <2>5, <2>6 DEF Complete, c
<1>8. rest = <<>> /\ s = <<>> => made = 0
  BY <1>1, <1>3, <1>4
<1>9. rest \o note \in Seq(Pieces)
  <2>1. note \in Seq(Pieces)
    <3>1. <<Fallback>> \in Seq(Pieces) /\ <<>> \in Seq(Pieces)
      BY PiecesType
    <3> QED BY <3>1
  <2> QED BY <1>5, <2>1, ConcatProperties
<1>10. ASSUME note # <<>> => rest = <<>> /\ s = <<>>
       PROVE  Complete(s \o (rest \o note), made)
  <2>1. CASE note = <<>>
    BY <2>1, <1>5, <1>7, ConcatEmptySeq
  <2>2. CASE note = <<Fallback>> /\ rest = <<>> /\ s = <<>>
    <3>1. s \o (rest \o note) = <<Fallback>>
      BY <2>2, PiecesType, ConcatEmptySeq
    <3> QED BY <2>2, <3>1, <1>8 DEF Complete, Injective
  <2> QED BY <2>1, <2>2, <1>10
<1> QED BY <1>5, <1>7, <1>8, <1>9, <1>10 DEF rest, M

-----------------------------------------------------------------------------
(* One turn: each step on its record keeps TurnInv.                        *)

Control(r) == <<r.thread, r.worker, r.gen, r.gone, r.sawGone, r.failed, r.fin>>
Text(r) == <<r.queue, r.made, r.streamed, r.seen, r.delivered, r.pending, r.said, r.loaded>>

(* Requests only raise flags of the turns that are there.                  *)
Flagged(r, q) == /\ Control(q) = Control(r) /\ Text(q) = Text(r)
                 /\ r.cancelled => q.cancelled
                 /\ r.disturbed => q.disturbed

LEMMA FlaggedKeeps ==
  ASSUME NEW r \in Run, NEW q \in Run, TurnInv(r), Flagged(r, q)
  PROVE  TurnInv(q)
<1> USE DEF Flagged, Control, Text
<1>1. HalvesInv(q) /\ FinInv(q)
  BY DEF TurnInv, HalvesInv, FinInv
<1>2. StreamInv(q)
  BY DEF TurnInv, StreamInv
<1>3. BufferInv(q)
  BY DEF TurnInv, BufferInv
<1>4. SaidInv(q)
  BY DEF TurnInv, SaidInv, Run
<1> QED BY <1>1, <1>2, <1>3, <1>4 DEF TurnInv

LEMMA EmptyBuffers ==
  /\ <<>> \in Seq(Pieces) /\ <<>> \in Seq(Pieces \cup {Eof}) /\ Injective(<<>>) /\ <<>> \o <<>> = <<>>
  /\ \A n : Within(<<>>, n)
  BY DEF Injective, Within

LEMMA StartKeeps ==
  ASSUME NEW r \in Run, TurnInv(r), r.thread = None, NEW h \in Threads, NEW d \in BOOLEAN,
         NEW q, q = [r EXCEPT !.thread = h, !.worker = "invoking", !.gen = "waiting", !.disturbed = d]
  PROVE  q \in Run /\ TurnInv(q)
<1>1. q \in Run
  BY DEF Run
<1>2. /\ q.thread = h /\ q.worker = "invoking" /\ q.gen = "waiting"
      /\ q.gone = r.gone /\ q.sawGone = r.sawGone /\ q.failed = r.failed /\ q.fin = r.fin
      /\ Text(q) = Text(r)
  BY DEF Run, Text
<1>3. h # None
  OBVIOUS
<1>4. /\ r.worker = "none" /\ r.gen = "none" /\ ~r.gone /\ ~r.sawGone /\ ~r.failed /\ r.fin = "no"
      /\ r.queue = <<>> /\ r.seen = <<>> /\ r.streamed = <<>> /\ r.delivered = <<>>
  BY DEF TurnInv, HalvesInv, FinInv, StreamInv
<1>5. HalvesInv(q)
  BY <1>2, <1>3, <1>4 DEF HalvesInv
<1>6. FinInv(q)
  BY <1>2, <1>4 DEF FinInv, TurnInv, Persisting, Reading, Text
<1>7. StreamInv(q)
  BY <1>2, <1>3, <1>4, EmptyBuffers DEF StreamInv, Text
<1>8. BufferInv(q)
  BY <1>2, <1>4, EmptyBuffers DEF BufferInv, Text
<1>9. SaidInv(q)
  BY <1>2, <1>4 DEF SaidInv, Persisting
<1> QED BY <1>1, <1>5, <1>6, <1>7, <1>8, <1>9 DEF TurnInv

(* Put only adds to the queue of a stream that is read.                    *)
LEMMA PutLemma ==
  ASSUME NEW r \in Run, NEW items \in Seq(Pieces \cup {Eof}), NEW q, q = Put(r, items)
  PROVE  /\ q \in Run
         /\ Control(q) = Control(r) /\ q.disturbed = r.disturbed /\ q.cancelled = r.cancelled
         /\ q.made = r.made /\ q.streamed = r.streamed /\ q.seen = r.seen
         /\ q.delivered = r.delivered /\ q.pending = r.pending /\ q.said = r.said
         /\ q.loaded = r.loaded
         /\ q.queue = IF r.gen \in {"closed", "torn", "dropped"} THEN r.queue ELSE r.queue \o items
<1>1. r.queue \o items \in Seq(Pieces \cup {Eof})
  BY ConcatProperties DEF Run
<1> QED BY <1>1 DEF Put, Live, Run, Control

LEMMA AppendPiece ==
  ASSUME NEW n \in Nat, NEW s \in Seq(Pieces), Injective(s), Within(s, n), n + 1 \in Pieces
  PROVE  /\ Append(s, n + 1) \in Seq(Pieces)
         /\ Injective(Append(s, n + 1)) /\ Within(Append(s, n + 1), n + 1)
         /\ Injective(s) /\ Within(s, n + 1)
<1> DEFINE c == Append(s, n + 1)
<1>1. /\ c \in Seq(Pieces) /\ Len(c) = Len(s) + 1 /\ Len(s) \in Nat
      /\ \A i \in 1..Len(s) : c[i] = s[i]
      /\ c[Len(s) + 1] = n + 1
  BY AppendProperties
<1>2. DOMAIN c = 1..(Len(s) + 1) /\ DOMAIN s = 1..Len(s)
  BY <1>1, LenProperties
<1> HIDE DEF c
<1>3. \A i \in 1..Len(s) : s[i] \in 1..n
  BY <1>2 DEF Within
<1>4. Within(c, n + 1) /\ Within(s, n + 1)
  <2>1. 1..n \subseteq 1..(n + 1) /\ n + 1 \in 1..(n + 1)
    OBVIOUS
  <2>2. \A i \in DOMAIN c : i \in 1..Len(s) \/ i = Len(s) + 1
    BY <1>1, <1>2
  <2> QED BY <1>1, <1>2, <1>3, <2>1, <2>2 DEF Within
<1>5. Injective(c)
  BY <1>1, <1>2, <1>3 DEF Injective
<1> QED BY <1>1, <1>4, <1>5 DEF c

(* What a step of the worker makes of its turn.                            *)
Produced(r, p, q) ==
  \/ q = Put([r EXCEPT !.made = p, !.streamed = Append(@, p)], <<p>>)
  \/ q = [r EXCEPT !.made = p]
Returned(r, rest, note, q) ==
  q = Put([r EXCEPT !.worker = "emitted", !.sawGone = r.gone, !.pending = rest], rest \o note)

(* A message more in what is seen or queued, and in what was streamed.     *)
LEMMA ProduceKeeps ==
  ASSUME NEW r \in Run, TurnInv(r), r.worker = "invoking", NEW p \in Pieces, p = r.made + 1,
         NEW q, Produced(r, p, q)
  PROVE  /\ q \in Run /\ TurnInv(q) /\ Control(q) = Control(r) /\ q.disturbed = r.disturbed
         /\ q.cancelled = r.cancelled /\ q.loaded = r.loaded
<1>1. /\ r.made \in Nat /\ r.streamed \in Seq(Pieces) /\ r.delivered \in Seq(Pieces)
      /\ p \in Pieces
      /\ Injective(r.streamed) /\ Within(r.streamed, r.made)
      /\ Injective(r.delivered) /\ Within(r.delivered, r.made)
  BY PiecesType DEF Run, TurnInv, BufferInv
<1>2. /\ Append(r.streamed, p) \in Seq(Pieces)
      /\ Injective(Append(r.streamed, p)) /\ Within(Append(r.streamed, p), p)
      /\ Within(r.streamed, p) /\ Within(r.delivered, p)
  BY <1>1, AppendPiece
<1>3. r.thread # None /\ r.fin = "no" /\ ~r.failed /\ r.gen \notin {"closing", "saving", "closed"}
  BY DEF TurnInv, HalvesInv, FinInv
<1>6. r.queue \in Seq(Pieces) /\ r.seen \in Seq(Pieces)
  BY DEF TurnInv, StreamInv, Run
<1>4. CASE q = [r EXCEPT !.made = p]
  <2>1. /\ q \in Run /\ Control(q) = Control(r) /\ q.disturbed = r.disturbed
        /\ q.made = p /\ q.queue = r.queue /\ q.streamed = r.streamed /\ q.seen = r.seen
        /\ q.delivered = r.delivered /\ q.loaded = r.loaded /\ q.cancelled = r.cancelled
    BY <1>1, <1>4 DEF Run, Control
  <2>2. HalvesInv(q) /\ FinInv(q)
    BY <2>1 DEF Control, TurnInv, HalvesInv, FinInv
  <2>3. StreamInv(q)
    BY <1>3, <1>6, <2>1 DEF Control, TurnInv, StreamInv
  <2>4. BufferInv(q) /\ SaidInv(q)
    BY <1>1, <1>2, <1>3, <2>1 DEF Control, BufferInv, SaidInv, Persisting
  <2> QED BY <2>1, <2>2, <2>3, <2>4 DEF TurnInv
<1>5. CASE q = Put([r EXCEPT !.made = p, !.streamed = Append(@, p)], <<p>>)
  <2> DEFINE r1 == [r EXCEPT !.made = p, !.streamed = Append(@, p)]
  <2>1. /\ r1 \in Run /\ Control(r1) = Control(r) /\ r1.disturbed = r.disturbed
        /\ r1.made = p /\ r1.queue = r.queue /\ r1.streamed = Append(r.streamed, p)
        /\ r1.seen = r.seen /\ r1.delivered = r.delivered /\ r1.loaded = r.loaded /\ r1.gen = r.gen
        /\ r1.cancelled = r.cancelled
    BY <1>1, <1>2 DEF Run, Control
  <2>2. q = Put(r1, <<p>>)
    BY <1>5
  <2>9. <<p>> \in Seq(Pieces \cup {Eof}) /\ <<p>> \in Seq(Pieces)
    BY <1>1, PieceSeqs
  <2>3. /\ q \in Run /\ Control(q) = Control(r) /\ q.disturbed = r.disturbed
        /\ q.made = p /\ q.streamed = Append(r.streamed, p)
        /\ q.seen = r.seen /\ q.delivered = r.delivered /\ q.loaded = r.loaded /\ q.cancelled = r.cancelled
        /\ q.queue = IF r.gen \in {"closed", "torn", "dropped"} THEN r.queue ELSE r.queue \o <<p>>
    <3>1. /\ q \in Run /\ Control(q) = Control(r1) /\ q.disturbed = r1.disturbed
          /\ q.made = r1.made /\ q.streamed = r1.streamed
          /\ q.seen = r1.seen /\ q.delivered = r1.delivered /\ q.loaded = r1.loaded /\ q.cancelled = r1.cancelled
          /\ q.queue = IF r1.gen \in {"closed", "torn", "dropped"} THEN r1.queue ELSE r1.queue \o <<p>>
      <4> DEFINE one == <<p>>
      <4>1. one \in Seq(Pieces \cup {Eof}) /\ q = Put(r1, one)
        BY <2>2, <2>9
      <4> HIDE DEF one, r1
      <4>2. q.queue = IF r1.gen \in {"closed", "torn", "dropped"} THEN r1.queue ELSE r1.queue \o one
        BY <2>1, <4>1, PutLemma
      <4>3. /\ q \in Run /\ Control(q) = Control(r1) /\ q.disturbed = r1.disturbed
            /\ q.made = r1.made /\ q.streamed = r1.streamed
            /\ q.seen = r1.seen /\ q.delivered = r1.delivered /\ q.loaded = r1.loaded /\ q.cancelled = r1.cancelled
        BY <2>1, <4>1, PutLemma
      <4> QED BY <4>2, <4>3 DEF one
    <3> QED BY <2>1, <3>1
  <2>4. HalvesInv(q) /\ FinInv(q)
    BY <2>3 DEF Control, TurnInv, HalvesInv, FinInv
  <2>5. StreamInv(q)
    <3>1. q.queue \in Seq(Pieces)
      BY <1>6, <2>9, <2>3, PieceSeqs
    <3>2. r.gen \in Reading => q.seen \o q.queue = q.streamed
      <4> SUFFICES ASSUME r.gen \in Reading PROVE q.seen \o q.queue = q.streamed
        OBVIOUS
      <4>1. q.queue = r.queue \o <<p>> /\ r.seen \o r.queue = r.streamed
        BY <2>3 DEF Reading, TurnInv, StreamInv
      <4>2. r.seen \o (r.queue \o <<p>>) = (r.seen \o r.queue) \o <<p>>
        BY <1>6, <2>9, StreamGrows
      <4>3. Append(r.streamed, p) = r.streamed \o <<p>>
        BY <1>1, PieceSeqs
      <4> QED BY <2>3, <4>1, <4>2, <4>3
    <3> QED BY <1>3, <2>3, <3>1, <3>2 DEF Control, StreamInv
  <2>6. BufferInv(q) /\ SaidInv(q)
    BY <1>1, <1>2, <1>3, <2>3 DEF Control, BufferInv, SaidInv, Persisting
  <2> QED BY <2>3, <2>4, <2>5, <2>6 DEF TurnInv
<1> QED BY <1>4, <1>5 DEF Produced

(* The graph returns: what the chosen buffer lacks is queued.              *)
LEMMA ReturnsKeeps ==
  ASSUME NEW r \in Run, TurnInv(r), r.worker = "invoking", NEW q, NEW note,
         note \in {<<>>, <<Fallback>>},
         note # <<>> => Uncovered(r) = <<>> /\ Covering(r) = <<>>,
         Returned(r, Uncovered(r), note, q)
  PROVE  /\ q \in Run /\ TurnInv(q)
         /\ q.thread = r.thread /\ q.fin = r.fin /\ q.worker = "emitted" /\ q.gen = r.gen
         /\ q.disturbed = r.disturbed /\ q.loaded = r.loaded /\ q.cancelled = r.cancelled
<1> DEFINE rest == Uncovered(r)
           r1 == [r EXCEPT !.worker = "emitted", !.sawGone = r.gone, !.pending = rest]
<1>1. /\ r.made \in Pieces /\ Covering(r) \in Seq(Pieces)
      /\ Injective(Covering(r)) /\ Within(Covering(r), r.made)
  BY DEF Run, TurnInv, BufferInv, Covering
<1>2. note \in {<<>>, <<Fallback>>} /\ (note # <<>> => rest = <<>> /\ Covering(r) = <<>>)
  OBVIOUS
<1>3. /\ rest \in Seq(Pieces) /\ rest \o note \in Seq(Pieces)
      /\ Complete(Covering(r) \o rest, r.made)
      /\ Complete(Covering(r) \o (rest \o note), r.made)
  BY <1>1, <1>2, RestCompletes DEF Uncovered
<1>4. r.thread # None /\ r.fin = "no" /\ ~r.failed /\ r.gen \notin {"closing", "saving", "closed"}
      /\ (r.gone <=> r.gen = "torn")
  BY DEF TurnInv, HalvesInv, FinInv
<1>12. r.queue \in Seq(Pieces) /\ r.seen \in Seq(Pieces)
  BY DEF TurnInv, StreamInv, Run
<1>13. rest \o note \in Seq(Pieces)
  BY <1>3
<1>5. /\ r1 \in Run /\ r1.thread = r.thread /\ r1.worker = "emitted" /\ r1.gen = r.gen
      /\ r1.gone = r.gone /\ r1.sawGone = r.gone /\ r1.failed = r.failed /\ r1.fin = r.fin
      /\ r1.disturbed = r.disturbed /\ r1.cancelled = r.cancelled /\ r1.loaded = r.loaded
      /\ r1.made = r.made /\ r1.queue = r.queue /\ r1.seen = r.seen
      /\ r1.delivered = r.delivered /\ r1.pending = rest
  <2>1. rest \in Seq(Pieces)
    BY <1>3
  <2> HIDE DEF rest
  <2> QED BY <2>1 DEF Run
<1>6. q = Put(r1, rest \o note)
  BY DEF Returned
<1> HIDE DEF rest, r1
<1>7. /\ q \in Run /\ q.thread = r.thread /\ q.worker = "emitted" /\ q.gen = r.gen
      /\ q.gone = r.gone /\ q.sawGone = r.gone /\ q.failed = r.failed /\ q.fin = r.fin
      /\ q.disturbed = r.disturbed /\ q.cancelled = r.cancelled /\ q.loaded = r.loaded
      /\ q.made = r.made /\ q.seen = r.seen
      /\ q.delivered = r.delivered /\ q.pending = rest
      /\ q.queue = IF r.gen \in {"closed", "torn", "dropped"} THEN r.queue
                   ELSE r.queue \o (rest \o note)
  <2>1. rest \o note \in Seq(Pieces \cup {Eof})
    BY <1>13, PieceSeqs, Zenon
  <2>2. /\ q \in Run /\ Control(q) = Control(r1) /\ q.disturbed = r1.disturbed
        /\ q.cancelled = r1.cancelled /\ q.loaded = r1.loaded
        /\ q.made = r1.made /\ q.seen = r1.seen
        /\ q.delivered = r1.delivered /\ q.pending = r1.pending
        /\ q.queue = IF r1.gen \in {"closed", "torn", "dropped"} THEN r1.queue
                     ELSE r1.queue \o (rest \o note)
    <3> DEFINE items == rest \o note
    <3>1. items \in Seq(Pieces \cup {Eof}) /\ q = Put(r1, items)
      BY <1>6, <2>1
    <3> HIDE DEF items
    <3>2. q.queue = IF r1.gen \in {"closed", "torn", "dropped"} THEN r1.queue ELSE r1.queue \o items
      BY <1>5, <3>1, PutLemma
    <3>3. /\ q \in Run /\ Control(q) = Control(r1) /\ q.disturbed = r1.disturbed
          /\ q.cancelled = r1.cancelled /\ q.loaded = r1.loaded
          /\ q.made = r1.made /\ q.seen = r1.seen
          /\ q.delivered = r1.delivered /\ q.pending = r1.pending
      BY <1>5, <3>1, PutLemma
    <3> QED BY <3>2, <3>3 DEF items
  <2> QED BY <1>5, <2>2 DEF Control
<1>8. HalvesInv(q) /\ FinInv(q)
  BY <1>4, <1>7 DEF TurnInv, HalvesInv, FinInv, Persisting
<1>9. StreamInv(q)
  <2>1. q.queue \in Seq(Pieces)
    <3>1. r.queue \o (rest \o note) \in Seq(Pieces)
      BY <1>12, <1>13, StreamGrows
    <3> QED BY <1>12, <1>7, <3>1
  <2>2. r.gen \in Reading => Complete(q.seen \o q.queue, q.made)
    <3> SUFFICES ASSUME r.gen \in Reading PROVE Complete(q.seen \o q.queue, q.made)
      OBVIOUS
    <3>1. Covering(r) = r.streamed /\ r.seen \o r.queue = r.streamed
          /\ q.queue = r.queue \o (rest \o note)
      BY <1>4, <1>7 DEF Reading, Covering, TurnInv, StreamInv
    <3>2. r.seen \o (r.queue \o (rest \o note)) = (r.seen \o r.queue) \o (rest \o note)
      BY <1>12, <1>13, StreamGrows
    <3> QED BY <1>3, <1>7, <3>1, <3>2
  <2> QED BY <1>4, <1>7, <2>1, <2>2 DEF StreamInv
<1>10. BufferInv(q)
  BY <1>3, <1>7 DEF BufferInv, Covering
<1>11. SaidInv(q)
  BY <1>4, <1>7 DEF SaidInv, Persisting
<1> QED BY <1>7, <1>8, <1>9, <1>10, <1>11 DEF TurnInv

(* A crash of the graph: nothing of the answer is promised any more.       *)
LEMMA FailsKeeps ==
  ASSUME NEW r \in Run, TurnInv(r), r.worker = "invoking", NEW q,
         q = [r EXCEPT !.worker = "ending", !.failed = TRUE]
  PROVE  q \in Run /\ TurnInv(q)
<1>1. /\ q \in Run /\ q.worker = "ending" /\ q.failed /\ q.thread = r.thread /\ q.gen = r.gen
      /\ q.gone = r.gone /\ q.sawGone = r.sawGone /\ q.fin = r.fin /\ q.loaded = r.loaded
      /\ q.queue = r.queue
  BY DEF Run
<1>2. HalvesInv(q)
  BY <1>1 DEF TurnInv, HalvesInv
<1>3. FinInv(q)
  BY <1>1 DEF TurnInv, HalvesInv, FinInv, Persisting
<1>4. r.thread # None /\ r.queue \in Seq(Pieces) /\ r.gen # "closing"
  BY DEF TurnInv, HalvesInv, StreamInv
<1>5. StreamInv(q) /\ BufferInv(q) /\ SaidInv(q)
  BY <1>1, <1>4 DEF StreamInv, BufferInv, SaidInv
<1> QED BY <1>1, <1>2, <1>3, <1>5 DEF TurnInv

(* A whole answer that consists of at least one message is not empty.      *)
LEMMA CompleteIsSome ==
  ASSUME NEW made \in Pieces, made > 0, NEW s, Complete(s, made)
  PROVE  s # <<>>
<1>1. made \in Nat /\ 1 \in 1..made
  BY PiecesType
<1>2. PICK i \in DOMAIN s : s[i] = 1
  BY <1>1 DEF Complete
<1>3. DOMAIN <<>> = {}
  OBVIOUS
<1> QED BY <1>2, <1>3

(* The second look at client_gone.  `there` says that the session exists.  *)
LEMMA RecoverKeeps ==
  ASSUME NEW r \in Run, TurnInv(r), r.worker = "emitted",
         NEW there \in BOOLEAN, ~r.disturbed => there, NEW q,
         q = IF r.gone /\ Recovered(r) # <<>> /\ there /\ r.fin = "no"
             THEN [r EXCEPT !.worker = "saving", !.fin = "joining", !.said = Recovered(r)]
             ELSE [r EXCEPT !.worker = "ending"]
  PROVE  q \in Run /\ TurnInv(q)
<1>1. /\ r.thread # None /\ r.fin = "no" /\ ~r.failed /\ r.gen \notin {"closing", "saving", "closed"}
      /\ (r.gone <=> r.gen = "torn") /\ (r.sawGone => r.gone) /\ Len(r.loaded) <= MaxSessions
      /\ r.made \in Pieces /\ r.queue \in Seq(Pieces)
  BY DEF TurnInv, HalvesInv, FinInv, StreamInv, Run
<1>2. r.delivered \in Seq(Pieces) /\ r.pending \in Seq(Pieces)
  BY DEF Run
<1>3. Recovered(r) \in Seq(Pieces)
  <2> DEFINE d == r.delivered
             u == r.pending
  <2>1. d \in Seq(Pieces) /\ u \in Seq(Pieces)
    BY <1>2
  <2> HIDE DEF d, u
  <2>2. d \o u \in Seq(Pieces)
    BY <2>1, PieceSeqs
  <2> QED BY <2>2 DEF d, u, Recovered
<1>4. r.sawGone => Complete(Recovered(r), r.made)
  BY DEF TurnInv, BufferInv, Recovered
<1>5. CASE r.gone /\ Recovered(r) # <<>> /\ there /\ r.fin = "no"
  <2>1. /\ q \in Run /\ q.worker = "saving" /\ q.fin = "joining" /\ q.said = Recovered(r)
        /\ q.failed = r.failed /\ q.thread = r.thread /\ q.gen = r.gen /\ q.made = r.made
        /\ q.gone = r.gone /\ q.sawGone = r.sawGone /\ q.loaded = r.loaded /\ q.queue = r.queue
    BY <1>3, <1>5 DEF Run
  <2>2. HalvesInv(q) /\ FinInv(q)
    <3>1. q.gen = "torn" /\ q.gone /\ q.thread # None /\ ~q.failed /\ q.worker = "saving"
      BY <1>1, <1>5, <2>1
    <3>2. HalvesInv(q)
      <4> QED BY <3>1 DEF HalvesInv
    <3>3. FinInv(q)
      BY <1>1, <2>1, <3>1 DEF FinInv, Persisting, Reading
    <3> QED BY <3>2, <3>3
  <2>3. StreamInv(q) /\ BufferInv(q)
    BY <1>1, <1>5, <2>1 DEF StreamInv, BufferInv, Reading
  <2>4. SaidInv(q)
    BY <1>1, <1>4, <1>5, <2>1 DEF SaidInv
  <2> QED BY <2>1, <2>2, <2>3, <2>4 DEF TurnInv
<1>6. CASE ~(r.gone /\ Recovered(r) # <<>> /\ there /\ r.fin = "no")
  <2>1. /\ q \in Run /\ q.worker = "ending" /\ q.fin = r.fin /\ q.said = r.said
        /\ q.failed = r.failed /\ q.thread = r.thread /\ q.gen = r.gen /\ q.made = r.made
        /\ q.gone = r.gone /\ q.sawGone = r.sawGone /\ q.loaded = r.loaded /\ q.queue = r.queue
        /\ q.seen = r.seen /\ q.disturbed = r.disturbed
    BY <1>6 DEF Run
  <2>2. HalvesInv(q) /\ FinInv(q)
    BY <1>1, <2>1 DEF TurnInv, HalvesInv, FinInv, Persisting
  <2>3. StreamInv(q) /\ BufferInv(q)
    BY <1>1, <2>1 DEF TurnInv, StreamInv, BufferInv
  <2>4. ~r.disturbed /\ r.made > 0 => ~r.sawGone
    BY <1>1, <1>4, <1>6, CompleteIsSome
  <2>5. SaidInv(q)
    BY <1>1, <2>1, <2>4 DEF SaidInv, Persisting
  <2> QED BY <2>1, <2>2, <2>3, <2>5 DEF TurnInv
<1> QED BY <1>5, <1>6

(* The worker ends: its buffers go, and the end mark comes last.           *)
Ended(r, q) ==
  q = Put([r EXCEPT !.worker = "done", !.streamed = <<>>, !.pending = <<>>, !.delivered = <<>>],
          <<Eof>>)

LEMMA EndsKeeps ==
  ASSUME NEW r \in Run, TurnInv(r), r.worker = "ending", NEW q, Ended(r, q)
  PROVE  q \in Run /\ TurnInv(q) /\ q.thread = r.thread /\ q.fin = r.fin /\ q.loaded = r.loaded
         /\ q.disturbed = r.disturbed /\ q.cancelled = r.cancelled /\ q.worker = "done" /\ q.gen = r.gen
<1> DEFINE r1 == [r EXCEPT !.worker = "done", !.streamed = <<>>, !.pending = <<>>, !.delivered = <<>>]
           mark == <<Eof>>
<1>1. /\ r1 \in Run /\ r1.worker = "done" /\ r1.thread = r.thread /\ r1.gen = r.gen
      /\ r1.gone = r.gone /\ r1.sawGone = r.sawGone /\ r1.failed = r.failed /\ r1.fin = r.fin
      /\ r1.disturbed = r.disturbed /\ r1.cancelled = r.cancelled /\ r1.loaded = r.loaded
      /\ r1.made = r.made /\ r1.queue = r.queue /\ r1.seen = r.seen /\ r1.said = r.said
  BY EmptyBuffers DEF Run
<1>2. mark \in Seq(Pieces \cup {Eof}) /\ q = Put(r1, mark)
  BY DEF Ended
<1> HIDE DEF r1, mark
<1>3. /\ q \in Run /\ Control(q) = Control(r1) /\ q.disturbed = r1.disturbed
      /\ q.cancelled = r1.cancelled /\ q.loaded = r1.loaded
      /\ q.made = r1.made /\ q.seen = r1.seen /\ q.said = r1.said
  BY <1>1, <1>2, PutLemma
<1>4. q.queue = IF r1.gen \in {"closed", "torn", "dropped"} THEN r1.queue ELSE r1.queue \o mark
  BY <1>1, <1>2, PutLemma
<1>5. /\ q \in Run /\ q.worker = "done" /\ q.thread = r.thread /\ q.gen = r.gen
      /\ q.gone = r.gone /\ q.sawGone = r.sawGone /\ q.failed = r.failed /\ q.fin = r.fin
      /\ q.disturbed = r.disturbed /\ q.cancelled = r.cancelled /\ q.loaded = r.loaded
      /\ q.made = r.made /\ q.seen = r.seen /\ q.said = r.said
  BY <1>1, <1>3 DEF Control
<1>6. /\ r.thread # None /\ r.queue \in Seq(Pieces) /\ r.gen \notin {"closing", "saving", "closed"}
      /\ (r.gen \in Reading /\ ~r.failed => Complete(r.seen \o r.queue, r.made))
  BY DEF TurnInv, HalvesInv, StreamInv
<1>7. HalvesInv(q)
  BY <1>5, <1>6 DEF TurnInv, HalvesInv
<1>8. FinInv(q)
  BY <1>5, <1>6 DEF TurnInv, FinInv, Persisting
<1>9. r.gen \in Reading => q.queue = Append(r.queue, Eof)
  <2> SUFFICES ASSUME r.gen \in Reading PROVE q.queue = Append(r.queue, Eof)
    OBVIOUS
  <2> DEFINE queue == r.queue
  <2>1. q.queue = queue \o mark
    BY <1>1, <1>4 DEF Reading
  <2>2. queue \in Seq(Pieces \cup {Eof}) /\ Eof \in Pieces \cup {Eof}
    BY <1>6, PieceSeqs
  <2> HIDE DEF queue
  <2>3. Append(queue, Eof) = queue \o <<Eof>>
    BY <2>2, AppendIsConcat
  <2> QED BY <2>1, <2>3 DEF queue, mark
<1>10. StreamInv(q)
  BY <1>5, <1>6, <1>9 DEF StreamInv
<1>11. BufferInv(q)
  BY <1>5 DEF BufferInv
<1>12. SaidInv(q)
  BY <1>5, <1>6 DEF TurnInv, SaidInv
<1> QED BY <1>5, <1>7, <1>8, <1>10, <1>11, <1>12 DEF TurnInv

(* The client goes, while a handler is in force or not.                    *)
LEMMA TearKeeps ==
  ASSUME NEW r \in Run, TurnInv(r), r.gen \in Reading, NEW q,
         q = LeaveStream([r EXCEPT !.gone = TRUE, !.cancelled = TRUE], "torn")
  PROVE  q \in Run /\ TurnInv(q)
<1>1. /\ q \in Run /\ q.worker = r.worker /\ q.thread = r.thread /\ q.gen = "torn"
      /\ q.gone /\ q.sawGone = r.sawGone /\ q.failed = r.failed /\ q.fin = r.fin
      /\ q.disturbed = r.disturbed /\ q.loaded = r.loaded
      /\ q.made = r.made /\ q.queue = <<>> /\ q.seen = <<>> /\ q.streamed = r.streamed
      /\ q.delivered = r.delivered /\ q.pending = r.pending
  BY EmptyBuffers DEF Run, LeaveStream
<1>2. r.thread # None /\ r.fin = "no" /\ ~r.sawGone
  BY DEF TurnInv, HalvesInv, FinInv, Reading
<1>3. HalvesInv(q)
  BY <1>1, <1>2 DEF TurnInv, HalvesInv
<1>4. FinInv(q)
  BY <1>1, <1>2 DEF TurnInv, HalvesInv, FinInv, Persisting, Reading
<1>5. StreamInv(q)
  BY <1>1, <1>2, EmptyBuffers DEF StreamInv, Reading
<1>6. BufferInv(q)
  BY <1>1, <1>2 DEF TurnInv, BufferInv
<1>7. SaidInv(q)
  BY <1>1, <1>2 DEF SaidInv, Persisting
<1> QED BY <1>1, <1>3, <1>4, <1>5, <1>6, <1>7 DEF TurnInv

LEMMA DropKeeps ==
  ASSUME NEW r \in Run, TurnInv(r), r.gen \in {"waiting", "closing"}, NEW q,
         q = LeaveStream(r, "dropped")
  PROVE  q \in Run /\ TurnInv(q)
<1>1. /\ q \in Run /\ q.worker = r.worker /\ q.thread = r.thread /\ q.gen = "dropped"
      /\ q.gone = r.gone /\ q.sawGone = r.sawGone /\ q.failed = r.failed /\ q.fin = r.fin
      /\ q.disturbed = r.disturbed /\ q.loaded = r.loaded
      /\ q.made = r.made /\ q.queue = <<>> /\ q.seen = <<>> /\ q.streamed = r.streamed
      /\ q.delivered = r.delivered /\ q.pending = r.pending
  BY EmptyBuffers DEF Run, LeaveStream
<1>2. r.thread # None /\ r.fin = "no" /\ ~r.sawGone /\ ~r.gone
  BY DEF TurnInv, HalvesInv, FinInv, Reading
<1>3. HalvesInv(q)
  BY <1>1, <1>2 DEF TurnInv, HalvesInv
<1>4. FinInv(q)
  BY <1>1, <1>2 DEF TurnInv, HalvesInv, FinInv, Persisting, Reading
<1>5. StreamInv(q)
  BY <1>1, <1>2, EmptyBuffers DEF StreamInv, Reading
<1>6. BufferInv(q)
  BY <1>1, <1>2 DEF TurnInv, BufferInv
<1>7. SaidInv(q)
  BY <1>1, <1>2 DEF SaidInv, Persisting
<1> QED BY <1>1, <1>3, <1>4, <1>5, <1>6, <1>7 DEF TurnInv

(* A piece or the end mark is taken from the queue.                        *)
Taken(r, q) ==
  q = [r EXCEPT !.queue = Tail(@),
                !.gen = IF Head(r.queue) = Eof THEN "closing" ELSE "sending",
                !.seen = IF Head(r.queue) = Eof THEN @ ELSE Append(@, Head(r.queue))]

(* Moving the first item of a queue behind what was seen.                  *)
LEMMA MoveItem ==
  ASSUME NEW seen \in Seq(Pieces), NEW queue \in Seq(Pieces), queue # <<>>
  PROVE  /\ Head(queue) \in Pieces /\ Tail(queue) \in Seq(Pieces)
         /\ Append(seen, Head(queue)) \in Seq(Pieces)
         /\ Append(seen, Head(queue)) \o Tail(queue) = seen \o queue
<1> DEFINE p == Head(queue)
           u == Tail(queue)
           c == Append(seen, p)
<1>1. p \in Pieces /\ u \in Seq(Pieces)
  BY HeadTailProperties
<1>2. queue = <<p>> \o u
  BY HeadTailProperties
<1> HIDE DEF p, u
<1>3. c = seen \o <<p>> /\ c \in Seq(Pieces) /\ <<p>> \in Seq(Pieces)
  BY <1>1, PieceSeqs
<1>4. seen \o (<<p>> \o u) = (seen \o <<p>>) \o u
  <2> DEFINE one == <<p>>
  <2>1. one \in Seq(Pieces)
    BY <1>3
  <2> HIDE DEF one
  <2>2. seen \o (one \o u) = (seen \o one) \o u
    BY <1>1, <2>1, PieceSeqs
  <2> QED BY <2>2 DEF one
<1> QED BY <1>1, <1>2, <1>3, <1>4 DEF p, u

(* ... when the end mark is behind it.                                     *)
LEMMA BeforeMark ==
  ASSUME NEW body \in Seq(Pieces)
  PROVE  /\ Head(Append(body, Eof)) = Eof <=> body = <<>>
         /\ body # <<>> => Head(Append(body, Eof)) = Head(body)
                            /\ Tail(Append(body, Eof)) = Append(Tail(body), Eof)
         /\ Append(body, Eof) \in Seq(Pieces \cup {Eof})
<1>1. Head(Append(body, Eof)) = IF body = <<>> THEN Eof ELSE Head(body)
  BY HeadTailAppend
<1>2. Tail(Append(body, Eof)) = IF body = <<>> THEN <<>> ELSE Append(Tail(body), Eof)
  BY HeadTailAppend
<1>3. body # <<>> => Head(body) \in Pieces
  BY HeadTailProperties
<1>4. Append(body, Eof) \in Seq(Pieces \cup {Eof})
  BY PieceSeqs, AppendProperties
<1> QED BY <1>1, <1>2, <1>3, <1>4, PiecesType

LEMMA TakesKeeps ==
  ASSUME NEW r \in Run, TurnInv(r), r.gen = "waiting", r.queue # <<>>, NEW q, Taken(r, q)
  PROVE  q \in Run /\ TurnInv(q)
<1> DEFINE item == Head(r.queue)
<1>1. /\ item \in Pieces \cup {Eof} /\ Tail(r.queue) \in Seq(Pieces \cup {Eof})
      /\ r.seen \in Seq(Pieces) /\ r.made \in Pieces
  <2> DEFINE queue == r.queue
  <2>1. queue \in Seq(Pieces \cup {Eof}) /\ queue # <<>>
    BY DEF Run
  <2> HIDE DEF queue
  <2>2. Head(queue) \in Pieces \cup {Eof} /\ Tail(queue) \in Seq(Pieces \cup {Eof})
    BY <2>1, HeadTailProperties
  <2> QED BY <2>2 DEF queue, Run
<1>2. /\ r.thread # None /\ r.worker # "none" /\ r.fin = "no" /\ ~r.gone /\ ~r.sawGone
      /\ (r.worker # "done" => r.queue \in Seq(Pieces)) /\ Len(r.loaded) <= MaxSessions
      /\ r.worker # "saving"
  BY DEF TurnInv, HalvesInv, FinInv, StreamInv, Reading
<1>3. r.worker = "invoking" => r.seen \o r.queue = r.streamed
  BY DEF TurnInv, StreamInv, Reading
<1>4. r.worker \in {"emitted", "ending"} /\ ~r.failed => Complete(r.seen \o r.queue, r.made)
  BY DEF TurnInv, StreamInv, Reading
<1>5. r.worker = "done" /\ ~r.failed =>
        \E body \in Seq(Pieces) : r.queue = Append(body, Eof) /\ Complete(r.seen \o body, r.made)
  BY DEF TurnInv, StreamInv, Reading
<1>6. BufferInv(r)
  BY DEF TurnInv
<1>7. CASE item = Eof
  <2>1. /\ q \in Run /\ q.gen = "closing" /\ q.seen = r.seen /\ q.worker = r.worker
        /\ q.thread = r.thread /\ q.gone = r.gone /\ q.sawGone = r.sawGone /\ q.failed = r.failed
        /\ q.fin = r.fin /\ q.loaded = r.loaded /\ q.made = r.made
        /\ q.streamed = r.streamed /\ q.delivered = r.delivered /\ q.pending = r.pending
    BY <1>1, <1>7 DEF Taken, Run
  <2>2. r.worker = "done"
    <3> DEFINE queue == r.queue
    <3>1. queue # <<>> /\ Head(queue) = Eof
      BY <1>7
    <3> HIDE DEF queue
    <3>2. queue \notin Seq(Pieces)
      BY <3>1, MoveItem, PiecesType
    <3> QED BY <1>2, <3>2 DEF queue
  <2>3. ~r.failed => Complete(r.seen, r.made)
    <3> SUFFICES ASSUME ~r.failed PROVE Complete(r.seen, r.made)
      OBVIOUS
    <3>1. PICK body \in Seq(Pieces) : r.queue = Append(body, Eof) /\ Complete(r.seen \o body, r.made)
      BY <1>5, <2>2
    <3>2. body = <<>>
      BY <1>7, <3>1, BeforeMark
    <3>3. r.seen \o <<>> = r.seen
      BY <1>1, ConcatEmptySeq
    <3> QED BY <3>1, <3>2, <3>3
  <2>4. HalvesInv(q)
    BY <1>2, <2>1, <2>2 DEF HalvesInv
  <2>5. FinInv(q)
    BY <1>2, <2>1, <2>2 DEF FinInv, Persisting
  <2>6. StreamInv(q)
    BY <1>2, <2>1, <2>2, <2>3 DEF StreamInv, Reading
  <2>7. BufferInv(q) /\ SaidInv(q)
    BY <1>2, <2>1, <2>2 DEF BufferInv, SaidInv, Persisting
  <2> QED BY <2>1, <2>4, <2>5, <2>6, <2>7 DEF TurnInv
<1>8. CASE item # Eof
  <2>1. /\ q \in Run /\ q.gen = "sending" /\ q.seen = Append(r.seen, item) /\ q.worker = r.worker
        /\ q.queue = Tail(r.queue)
        /\ q.thread = r.thread /\ q.gone = r.gone /\ q.sawGone = r.sawGone /\ q.failed = r.failed
        /\ q.fin = r.fin /\ q.loaded = r.loaded /\ q.made = r.made
        /\ q.streamed = r.streamed /\ q.delivered = r.delivered /\ q.pending = r.pending
    <3>1. Append(r.seen, item) \in Seq(Pieces)
      BY <1>1, <1>8, PieceSeqs
    <3> QED BY <1>1, <1>8, <3>1 DEF Taken, Run
  <2>2. r.queue \in Seq(Pieces) => /\ q.queue \in Seq(Pieces)
                                   /\ q.seen \o q.queue = r.seen \o r.queue
    <3> DEFINE queue == r.queue
               seen == r.seen
    <3>1. seen \in Seq(Pieces) /\ queue # <<>>
      BY <1>1
    <3>2. q.queue = Tail(queue) /\ q.seen = Append(seen, Head(queue))
      BY <2>1
    <3> HIDE DEF queue, seen
    <3> QED BY <3>1, <3>2, MoveItem DEF queue, seen
  <2>3. r.worker = "done" /\ ~r.failed =>
          \E body \in Seq(Pieces) : q.queue = Append(body, Eof) /\ Complete(q.seen \o body, q.made)
    <3> SUFFICES ASSUME r.worker = "done", ~r.failed
                 PROVE  \E body \in Seq(Pieces) :
                          q.queue = Append(body, Eof) /\ Complete(q.seen \o body, q.made)
      OBVIOUS
    <3>1. PICK body \in Seq(Pieces) : r.queue = Append(body, Eof) /\ Complete(r.seen \o body, r.made)
      BY <1>5
    <3>2. body # <<>> /\ item = Head(body) /\ Tail(r.queue) = Append(Tail(body), Eof)
      BY <1>8, <3>1, BeforeMark
    <3>3. Tail(body) \in Seq(Pieces) /\ Append(r.seen, Head(body)) \o Tail(body) = r.seen \o body
      BY <1>1, <3>2, MoveItem
    <3>4. q.queue = Append(Tail(body), Eof) /\ Complete(q.seen \o Tail(body), q.made)
      BY <2>1, <3>1, <3>2, <3>3
    <3> QED BY <3>3, <3>4
  <2>4. HalvesInv(q)
    BY <1>2, <2>1 DEF TurnInv, HalvesInv
  <2>5. FinInv(q)
    BY <1>2, <2>1 DEF FinInv, Persisting
  <2>6. StreamInv(q)
    BY <1>2, <1>3, <1>4, <2>1, <2>2, <2>3 DEF StreamInv, Reading
  <2>7. BufferInv(q) /\ SaidInv(q)
    BY <1>2, <1>6, <2>1 DEF BufferInv, SaidInv, Persisting
  <2> QED BY <2>1, <2>4, <2>5, <2>6, <2>7 DEF TurnInv
<1> QED BY <1>7, <1>8

(* What was seen of a stream tells no more than what was produced.         *)
LEMMA SeenIsPart ==
  ASSUME NEW seen \in Seq(Pieces), NEW queue \in Seq(Pieces), NEW made,
         Injective(seen \o queue), Within(seen \o queue, made)
  PROVE  Injective(seen) /\ Within(seen, made)
<1> DEFINE c == seen \o queue
<1>1. Injective(c) /\ Within(c, made) /\ c = seen \o queue
  OBVIOUS
<1> HIDE DEF c
<1>2. \A i \in DOMAIN seen : i \in DOMAIN c /\ c[i] = seen[i]
  BY <1>1, ConcatItems
<1> QED BY <1>1, <1>2 DEF Injective, Within

LEMMA SentKeeps ==
  ASSUME NEW r \in Run, TurnInv(r), r.gen = "sending", NEW q,
         q = [r EXCEPT !.gen = "waiting", !.delivered = IF r.worker = "done" THEN <<>> ELSE r.seen]
  PROVE  q \in Run /\ TurnInv(q)
<1>1. /\ r.thread # None /\ r.worker # "none" /\ r.fin = "no" /\ ~r.gone /\ ~r.sawGone
      /\ Len(r.loaded) <= MaxSessions /\ r.worker # "saving"
  BY DEF TurnInv, HalvesInv, FinInv, Reading
<1>2. /\ q \in Run /\ q.gen = "waiting" /\ q.seen = r.seen /\ q.worker = r.worker
      /\ q.queue = r.queue
      /\ q.thread = r.thread /\ q.gone = r.gone /\ q.sawGone = r.sawGone /\ q.failed = r.failed
      /\ q.fin = r.fin /\ q.loaded = r.loaded /\ q.made = r.made
      /\ q.streamed = r.streamed /\ q.pending = r.pending
      /\ (r.worker = "invoking" => q.delivered = r.seen)
  BY EmptyBuffers DEF Run
<1>3. r.worker = "invoking" => Injective(r.seen) /\ Within(r.seen, r.made)
  <2> SUFFICES ASSUME r.worker = "invoking" PROVE Injective(r.seen) /\ Within(r.seen, r.made)
    OBVIOUS
  <2>1. /\ r.seen \in Seq(Pieces) /\ r.queue \in Seq(Pieces) /\ r.seen \o r.queue = r.streamed
        /\ Injective(r.streamed) /\ Within(r.streamed, r.made)
    BY DEF TurnInv, StreamInv, BufferInv, Reading, Run
  <2> DEFINE seen == r.seen
             queue == r.queue
  <2>2. /\ seen \in Seq(Pieces) /\ queue \in Seq(Pieces)
        /\ Injective(seen \o queue) /\ Within(seen \o queue, r.made)
    BY <2>1
  <2> HIDE DEF seen, queue
  <2>3. Injective(seen) /\ Within(seen, r.made)
    BY <2>2, SeenIsPart
  <2> QED BY <2>3 DEF seen
<1>4. HalvesInv(q)
  BY <1>1, <1>2 DEF TurnInv, HalvesInv
<1>5. FinInv(q)
  BY <1>1, <1>2 DEF FinInv, Persisting
<1>6. StreamInv(q)
  BY <1>1, <1>2 DEF TurnInv, StreamInv, Reading
<1>7. BufferInv(q)
  BY <1>1, <1>2, <1>3 DEF TurnInv, BufferInv
<1>8. SaidInv(q)
  BY <1>1, <1>2 DEF SaidInv, Persisting
<1> QED BY <1>2, <1>4, <1>5, <1>6, <1>7, <1>8 DEF TurnInv

(* The clean close.                                                        *)
LEMMA CloseKeeps ==
  ASSUME NEW r \in Run, TurnInv(r), r.gen = "closing",
         NEW there \in BOOLEAN, ~r.disturbed => there, NEW q,
         q = IF r.seen # <<>> /\ there /\ r.fin = "no"
             THEN [r EXCEPT !.gen = "saving", !.fin = "joining", !.said = r.seen]
             ELSE LeaveStream(r, "closed")
  PROVE  q \in Run /\ TurnInv(q)
<1>1. /\ r.thread # None /\ r.fin = "no" /\ r.worker = "done" /\ ~r.gone /\ ~r.sawGone
      /\ Len(r.loaded) <= MaxSessions
  BY DEF TurnInv, HalvesInv, FinInv, Reading
<1>2. ~r.failed => Complete(r.seen, r.made)
  BY DEF TurnInv, StreamInv
<1>3. CASE r.seen # <<>> /\ there
  <2>1. /\ q \in Run /\ q.gen = "saving" /\ q.worker = "done" /\ q.fin = "joining" /\ q.said = r.seen
        /\ q.thread = r.thread /\ q.gone = r.gone /\ q.sawGone = r.sawGone /\ q.failed = r.failed
        /\ q.loaded = r.loaded /\ q.made = r.made
    BY <1>1, <1>3 DEF Run
  <2>2. HalvesInv(q) /\ FinInv(q)
    BY <1>1, <2>1 DEF HalvesInv, FinInv, Persisting, Reading
  <2>3. StreamInv(q) /\ BufferInv(q)
    BY <1>1, <2>1 DEF StreamInv, BufferInv, Reading
  <2>4. SaidInv(q)
    BY <1>1, <1>2, <1>3, <2>1 DEF SaidInv
  <2> QED BY <2>1, <2>2, <2>3, <2>4 DEF TurnInv
<1>4. CASE ~(r.seen # <<>> /\ there)
  <2>1. /\ q \in Run /\ q.gen = "closed" /\ q.worker = "done" /\ q.fin = "no"
        /\ q.thread = r.thread /\ q.gone = r.gone /\ q.sawGone = r.sawGone /\ q.failed = r.failed
        /\ q.loaded = r.loaded /\ q.made = r.made /\ q.disturbed = r.disturbed
    BY <1>1, <1>4, EmptyBuffers DEF Run, LeaveStream
  <2>2. HalvesInv(q) /\ FinInv(q)
    BY <1>1, <2>1 DEF HalvesInv, FinInv, Persisting, Reading
  <2>3. StreamInv(q) /\ BufferInv(q)
    BY <1>1, <2>1 DEF StreamInv, BufferInv, Reading
  <2>4. r.made \in Pieces
    BY DEF Run
  <2>5. r.failed \/ r.disturbed \/ ~(r.made > 0)
    BY <1>2, <1>4, <2>4, CompleteIsSome
  <2>6. SaidInv(q)
    BY <1>1, <2>1, <2>5 DEF SaidInv, Persisting
  <2> QED BY <2>1, <2>2, <2>3, <2>6 DEF TurnInv
<1> QED BY <1>3, <1>4

(* Between the steps of _finalize_turn.                                    *)
LEMMA SavingKeeps ==
  ASSUME NEW r \in Run, TurnInv(r), r.fin \in Persisting, NEW q,
         \/ q = [r EXCEPT !.fin = "joined"]
         \/ \E x \in Seq(Saved) : Len(x) <= MaxSessions /\ q = [r EXCEPT !.fin = "loaded", !.loaded = x]
  PROVE  q \in Run /\ TurnInv(q)
<1>1. /\ q \in Run /\ q.fin \in Persisting /\ Len(q.loaded) <= MaxSessions
      /\ q.thread = r.thread /\ q.worker = r.worker /\ q.gen = r.gen /\ q.queue = r.queue
      /\ q.seen = r.seen /\ q.streamed = r.streamed /\ q.delivered = r.delivered
      /\ q.pending = r.pending /\ q.said = r.said /\ q.made = r.made
      /\ q.gone = r.gone /\ q.sawGone = r.sawGone /\ q.failed = r.failed /\ q.disturbed = r.disturbed
  <2>1. CASE q = [r EXCEPT !.fin = "joined"]
    BY <2>1 DEF Run, Persisting, TurnInv, FinInv
  <2>2. CASE \E x \in Seq(Saved) : Len(x) <= MaxSessions /\ q = [r EXCEPT !.fin = "loaded", !.loaded = x]
    <3>1. PICK x \in Seq(Saved) : Len(x) <= MaxSessions /\ q = [r EXCEPT !.fin = "loaded", !.loaded = x]
      BY <2>2
    <3> QED BY <3>1 DEF Run, Persisting
  <2> QED BY <2>1, <2>2
<1>2. HalvesInv(q)
  BY <1>1 DEF TurnInv, HalvesInv
<1>3. FinInv(q)
  BY <1>1 DEF TurnInv, FinInv, Persisting
<1>4. StreamInv(q)
  BY <1>1 DEF TurnInv, StreamInv
<1>5. BufferInv(q)
  BY <1>1 DEF TurnInv, BufferInv
<1>6. SaidInv(q)
  BY <1>1 DEF TurnInv, HalvesInv, FinInv, SaidInv, Persisting
<1> QED BY <1>1, <1>2, <1>3, <1>4, <1>5, <1>6 DEF TurnInv

(* ... and after it.                                                       *)
LEMMA ReturnKeeps ==
  ASSUME NEW r \in Run, TurnInv(r), r.fin \in Persisting, NEW how \in {"saved", "unsaved"},
         NEW q, q = Return(r, how)
  PROVE  /\ q \in Run /\ TurnInv(q) /\ q.thread = r.thread /\ q.fin = how /\ q.loaded = <<>>
         /\ q.disturbed = r.disturbed /\ q.cancelled = r.cancelled
         /\ q.worker = IF r.worker = "saving" THEN "ending" ELSE r.worker
         /\ r.gen \notin {"closed", "dropped"} /\ (r.gen = "torn" => q.gen = "torn")
<1>1. /\ r.thread # None /\ (r.gone <=> r.gen = "torn") /\ (r.sawGone => r.gone)
      /\ r.worker = "saving" \/ r.gen = "saving"
      /\ (r.worker = "saving" => r.gone) /\ (r.gen = "saving" => r.worker = "done")
      /\ r.gen \in {"torn", "saving"}
      /\ (r.failed => r.worker \in {"ending", "done"})
      /\ (r.worker # "done" => r.queue \in Seq(Pieces))
  BY DEF TurnInv, HalvesInv, FinInv, StreamInv
<1>2. <<>> \in Seq(Saved) /\ Len(<<>>) <= MaxSessions
  OBVIOUS
<1>3. CASE r.worker = "saving"
  <2>1. /\ q \in Run /\ q.worker = "ending" /\ q.gen = "torn" /\ q.fin = how /\ q.loaded = <<>>
        /\ q.thread = r.thread /\ q.gone /\ q.sawGone = r.sawGone /\ ~q.failed /\ q.queue = r.queue
        /\ q.disturbed = r.disturbed /\ q.cancelled = r.cancelled
    BY <1>1, <1>2, <1>3, EmptyBuffers DEF Run, Return
  <2>2. HalvesInv(q) /\ FinInv(q)
    BY <1>1, <1>2, <2>1 DEF HalvesInv, FinInv, Persisting, Reading
  <2>3. StreamInv(q) /\ BufferInv(q) /\ SaidInv(q)
    BY <1>1, <1>3, <2>1 DEF StreamInv, BufferInv, SaidInv, Reading, Persisting
  <2> QED BY <1>1, <1>3, <2>1, <2>2, <2>3 DEF TurnInv
<1>4. CASE r.worker # "saving"
  <2>1. /\ q \in Run /\ q.worker = "done" /\ q.gen = "closed" /\ q.fin = how /\ q.loaded = <<>>
        /\ q.thread = r.thread /\ ~q.gone /\ ~q.sawGone
        /\ q.disturbed = r.disturbed /\ q.cancelled = r.cancelled
    BY <1>1, <1>2, <1>4, EmptyBuffers DEF Run, Return, LeaveStream
  <2>2. HalvesInv(q) /\ FinInv(q)
    BY <1>1, <1>2, <2>1 DEF HalvesInv, FinInv, Persisting, Reading
  <2>3. StreamInv(q) /\ BufferInv(q) /\ SaidInv(q)
    BY <1>1, <2>1 DEF StreamInv, BufferInv, SaidInv, Reading, Persisting
  <2> QED BY <1>1, <1>4, <2>1, <2>2, <2>3 DEF TurnInv
<1> QED BY <1>3, <1>4

-----------------------------------------------------------------------------
(* All turns: what a step that moves one turn leaves as it was.            *)

(* No step takes these back.                                               *)
Moves(r, q) ==
  /\ q.thread = r.thread /\ q.disturbed = r.disturbed
  /\ r.cancelled => q.cancelled
  /\ r.worker \in {"none", "done"} => q.worker = r.worker
  /\ r.gen \in {"closed", "torn", "dropped"} => q.gen = r.gen
  /\ r.fin \notin {"no", "joining"} => q.fin \notin {"no", "joining"}

TurnChange(t, q) ==
  q \in Run /\ TurnInv(q) /\ Moves(run[t], q) /\ run' = [run EXCEPT ![t] = q]

LEMMA ChangeKeeps ==
  ASSUME IInv, NEW t \in Turns, NEW q, TurnChange(t, q)
  PROVE  /\ run' \in [Turns -> Run] /\ Turnwise'
         /\ run'[t] = q /\ \A u \in Turns \ {t} : run'[u] = run[u]
         /\ \A u \in Turns : Joined(u) => Joined(u)'
         /\ Alone'
         /\ session' = session => Asked'
         /\ active' = active => EveryRunStoppable'
         /\ feedback' = feedback => OwnQuestion' /\ Rated'
<1>1. run \in [Turns -> Run] /\ feedback \subseteq [answer : Turns, query : Turns \cup {None}]
  BY DEF IInv, ChatTypeOK
<1>2. run' = [run EXCEPT ![t] = q] /\ q \in Run /\ TurnInv(q) /\ Moves(run[t], q)
  BY DEF TurnChange
<1>3. /\ run' \in [Turns -> Run] /\ run'[t] = q
      /\ \A u \in Turns \ {t} : run'[u] = run[u]
  BY <1>1, <1>2
<1>4. \A u \in Turns : Moves(run[u], run'[u])
  BY <1>2, <1>3 DEF Moves
<1>5. \A u \in Turns : TurnInv(run'[u])
  BY <1>2, <1>3 DEF IInv, Turnwise
<1>6. \A u \in Turns : Open(u)' => Open(u)
  BY <1>4 DEF Moves, Open, Settled
<1>7. Alone'
  BY <1>4, <1>6 DEF Moves, Alone, IInv
<1>8. \A u \in Turns : Joined(u) => Joined(u)'
  BY <1>4 DEF Moves, Joined
<1>9. session' = session => Asked'
  <2> SUFFICES ASSUME session' = session, NEW u \in Turns, Open(u)', ~run'[u].disturbed,
                      run'[u].fin \in {"no", "joining"}
               PROVE  /\ session[run'[u].thread] # None /\ session[run'[u].thread] # <<>>
                      /\ Last(session[run'[u].thread]) = User(u)
    BY DEF Asked
  <2>1. Open(u) /\ ~run[u].disturbed /\ run[u].fin \in {"no", "joining"} /\ run'[u].thread = run[u].thread
    BY <1>4, <1>6, <1>1 DEF Moves
  <2> QED BY <2>1 DEF IInv, Asked
<1>10. active' = active => EveryRunStoppable'
  BY <1>4 DEF Moves, EveryRunStoppable, IInv
<1>11. feedback' = feedback => OwnQuestion' /\ Rated'
  BY <1>1, <1>4, <1>8 DEF Moves, OwnQuestion, Rated, IInv
<1> QED BY <1>3, <1>5, <1>7, <1>8, <1>9, <1>10, <1>11 DEF Turnwise

(* A log that is good stays so.                                            *)
LEMMA GoodStays ==
  ASSUME \A u \in Turns : Joined(u) => Joined(u)'
  PROVE  /\ \A log \in Seq(Entry) : GoodLog(log) => GoodLog(log)'
         /\ \A saved \in Seq(Saved) : GoodFile(saved) => GoodFile(saved)'
<1>1. ASSUME NEW log \in Seq(Entry), GoodLog(log) PROVE GoodLog(log)'
  <2>1. \A i \in DOMAIN log : log[i].turn \in Turns
    <3>1. \A i \in DOMAIN log : log[i] \in Entry
      BY LenProperties, ElementOfSeq
    <3> QED BY <3>1 DEF Entry
  <2> QED BY <1>1, <2>1 DEF GoodLog
<1>2. ASSUME NEW saved \in Seq(Saved), GoodFile(saved) PROVE GoodFile(saved)'
  <2>1. \A i \in DOMAIN saved : saved[i].log \in Seq(Entry)
    <3>1. \A i \in DOMAIN saved : saved[i] \in Saved
      BY LenProperties, ElementOfSeq
    <3> QED BY <3>1 DEF Saved
  <2> QED BY <1>1, <1>2, <2>1 DEF GoodFile
<1> QED BY <1>1, <1>2

LEMMA LogsStay ==
  ASSUME IInv, \A u \in Turns : Joined(u) => Joined(u)',
         \A u \in Turns : run'[u].loaded \in Seq(Saved) /\ GoodFile(run'[u].loaded),
         session' = session, file' = file
  PROVE  Logs'
<1>1. \A log \in Seq(Entry) : GoodLog(log) => GoodLog(log)'
  BY GoodStays
<1>2. \A saved \in Seq(Saved) : GoodFile(saved) => GoodFile(saved)'
  BY GoodStays
<1>3. \A h \in Threads : session[h] # None => session[h] \in Seq(Entry) /\ GoodLog(session[h])
  BY DEF IInv, ChatTypeOK, Logs
<1>4. file \in Seq(Saved) /\ GoodFile(file)
  BY DEF IInv, ChatTypeOK, Logs
<1>5. \A h \in Threads : session'[h] # None => GoodLog(session[h])'
  BY <1>1, <1>3
<1> QED BY <1>1, <1>2, <1>3, <1>4, <1>5 DEF Logs

(* A step that moves one turn and touches nothing else.                    *)
LEMMA OneTurn ==
  ASSUME IInv, NEW t \in Turns, NEW q, TurnChange(t, q),
         q.loaded = run[t].loaded \/ GoodFile(q.loaded),
         UNCHANGED <<session, active, file, feedback>>
  PROVE  IInv'
<1>1. /\ run' \in [Turns -> Run] /\ Turnwise' /\ Alone' /\ Asked' /\ EveryRunStoppable' /\ OwnQuestion' /\ Rated'
      /\ run'[t] = q /\ (\A u \in Turns \ {t} : run'[u] = run[u])
      /\ \A u \in Turns : Joined(u) => Joined(u)'
  BY ChangeKeeps
<1>2. ChatTypeOK'
  BY <1>1 DEF IInv, ChatTypeOK
<1>3. \A u \in Turns : run'[u].loaded \in Seq(Saved) /\ GoodFile(run'[u].loaded)
  <2>1. \A u \in Turns : run'[u] \in Run /\ run[u] \in Run /\ GoodFile(run[u].loaded)
    BY <1>1 DEF IInv, Logs, ChatTypeOK
  <2>2. \A r \in Run : r.loaded \in Seq(Saved)
    BY DEF Run
  <2>3. \A u \in Turns : run'[u] = run[u] \/ (u = t /\ run'[u] = q)
    BY <1>1
  <2>4. \A u \in Turns : GoodFile(run'[u].loaded)
    BY <2>1, <2>3
  <2> QED BY <2>1, <2>2, <2>4
<1>4. Logs'
  BY <1>1, <1>3, LogsStay
<1> QED BY <1>1, <1>2, <1>4 DEF IInv

-----------------------------------------------------------------------------
(* Each action keeps the invariant.                                        *)

LEMMA TurnOf ==
  ASSUME IInv, NEW t \in Turns
  PROVE  run[t] \in Run /\ TurnInv(run[t])
  BY DEF IInv, ChatTypeOK, Turnwise

LEMMA ProduceStep ==
  ASSUME IInv, NEW t \in Turns, Produce(t)
  PROVE  IInv'
<1> DEFINE r == run[t]
           p == r.made + 1
<1>1. r \in Run /\ TurnInv(r)
  BY TurnOf
<1>2. r.worker = "invoking" /\ p \in Pieces
  <2>1. r.made \in Nat /\ r.made < MaxPieces
    BY <1>1, PiecesType DEF Produce, Run
  <2> QED BY <2>1 DEF Produce, Pieces
<1>3. PICK q : Produced(r, p, q) /\ run' = [run EXCEPT ![t] = q]
  BY DEF Produce, Produced
<1>4. UNCHANGED <<session, active, file, feedback>>
  BY DEF Produce
<1>5. /\ q \in Run /\ TurnInv(q) /\ Control(q) = Control(r) /\ q.disturbed = r.disturbed
      /\ q.cancelled = r.cancelled /\ q.loaded = r.loaded
  <2> HIDE DEF r, p
  <2>1. p = r.made + 1
    BY DEF p
  <2> QED BY <1>1, <1>2, <1>3, <2>1, ProduceKeeps
<1>6. TurnChange(t, q)
  BY <1>3, <1>5 DEF TurnChange, Moves, Control
<1> QED BY <1>4, <1>5, <1>6, OneTurn

LEMMA ReturnsStep ==
  ASSUME IInv, NEW t \in Turns, InvokeReturns(t)
  PROVE  IInv'
<1> DEFINE r == run[t]
           note == IF Uncovered(r) = <<>> /\ Covering(r) = <<>> /\ ~r.cancelled
                   THEN <<Fallback>> ELSE <<>>
<1>1. r \in Run /\ TurnInv(r)
  BY TurnOf
<1>2. r.worker = "invoking" /\ UNCHANGED <<session, active, file, feedback>>
  BY DEF InvokeReturns
<1>3. PICK q : Returned(r, Uncovered(r), note, q) /\ run' = [run EXCEPT ![t] = q]
  BY DEF InvokeReturns, Returned
<1>4. note \in {<<>>, <<Fallback>>} /\ (note # <<>> => Uncovered(r) = <<>> /\ Covering(r) = <<>>)
  OBVIOUS
<1>5. /\ q \in Run /\ TurnInv(q)
      /\ q.thread = r.thread /\ q.fin = r.fin /\ q.worker = "emitted" /\ q.gen = r.gen
      /\ q.disturbed = r.disturbed /\ q.loaded = r.loaded /\ q.cancelled = r.cancelled
  <2> HIDE DEF r, note
  <2> QED BY <1>1, <1>2, <1>3, <1>4, ReturnsKeeps
<1>6. TurnChange(t, q)
  BY <1>2, <1>3, <1>5 DEF TurnChange, Moves
<1> QED BY <1>2, <1>5, <1>6, OneTurn

LEMMA FailsStep ==
  ASSUME IInv, NEW t \in Turns, InvokeFails(t)
  PROVE  IInv'
<1> DEFINE r == run[t]
           q == [r EXCEPT !.worker = "ending", !.failed = TRUE]
<1>1. r \in Run /\ TurnInv(r)
  BY TurnOf
<1>2. r.worker = "invoking" /\ run' = [run EXCEPT ![t] = q] /\ UNCHANGED <<session, active, file, feedback>>
  BY DEF InvokeFails
<1>3. q \in Run /\ TurnInv(q)
  BY <1>1, <1>2, FailsKeeps
<1>4. Moves(r, q) /\ q.loaded = r.loaded
  BY <1>1, <1>2 DEF Run, Moves
<1>5. TurnChange(t, q)
  BY <1>2, <1>3, <1>4 DEF TurnChange
<1> QED BY <1>2, <1>4, <1>5, OneTurn

(* An undisturbed turn that has not saved its answer has its session.      *)
LEMMA SessionThere ==
  ASSUME IInv, NEW t \in Turns, Open(t), ~run[t].disturbed, run[t].fin \in {"no", "joining"}
  PROVE  session[run[t].thread] # None
  BY DEF IInv, Asked

LEMMA RecoverStep ==
  ASSUME IInv, NEW t \in Turns, Recover(t)
  PROVE  IInv'
<1> DEFINE r == run[t]
           there == session[r.thread] # None
           q == IF r.gone /\ Recovered(r) # <<>> /\ there /\ r.fin = "no"
                THEN [r EXCEPT !.worker = "saving", !.fin = "joining", !.said = Recovered(r)]
                ELSE [r EXCEPT !.worker = "ending"]
<1>1. r \in Run /\ TurnInv(r)
  BY TurnOf
<1>2. /\ r.worker = "emitted" /\ run' = [run EXCEPT ![t] = q]
      /\ UNCHANGED <<session, active, file, feedback>>
  BY DEF Recover, MayFinalize
<1>3. ~r.disturbed => there
  <2>1. Open(t) /\ r.fin = "no"
    BY <1>1, <1>2 DEF TurnInv, HalvesInv, FinInv, Open, Settled
  <2> QED BY <2>1, SessionThere
<1>4. q \in Run /\ TurnInv(q)
  <2> HIDE DEF r
  <2>1. there \in BOOLEAN
    OBVIOUS
  <2> HIDE DEF there
  <2> QED BY <1>1, <1>2, <1>3, <2>1, RecoverKeeps
<1>5. Moves(r, q) /\ q.loaded = r.loaded
  BY <1>1, <1>2 DEF Run, Moves
<1> HIDE DEF q
<1>6. TurnChange(t, q)
  BY <1>2, <1>4, <1>5 DEF TurnChange
<1> QED BY <1>2, <1>5, <1>6, OneTurn

LEMMA TakeStep ==
  ASSUME IInv, NEW t \in Turns, TakeItem(t)
  PROVE  IInv'
<1> DEFINE r == run[t]
<1>1. r \in Run /\ TurnInv(r)
  BY TurnOf
<1>2. r.gen = "waiting" /\ r.queue # <<>> /\ UNCHANGED <<session, active, file, feedback>>
  BY DEF TakeItem
<1>3. PICK q : Taken(r, q) /\ run' = [run EXCEPT ![t] = q]
  BY <1>1 DEF TakeItem, Taken
<1>4. q \in Run /\ TurnInv(q)
  <2> HIDE DEF r
  <2> QED BY <1>1, <1>2, <1>3, TakesKeeps
<1>5. Moves(r, q) /\ q.loaded = r.loaded
  BY <1>1, <1>2, <1>3 DEF Run, Moves, Taken
<1>6. TurnChange(t, q)
  BY <1>3, <1>4, <1>5 DEF TurnChange
<1> QED BY <1>2, <1>5, <1>6, OneTurn

LEMMA SentStep ==
  ASSUME IInv, NEW t \in Turns, FrameSent(t)
  PROVE  IInv'
<1> DEFINE r == run[t]
           q == [r EXCEPT !.gen = "waiting", !.delivered = IF r.worker = "done" THEN <<>> ELSE r.seen]
<1>1. r \in Run /\ TurnInv(r)
  BY TurnOf
<1>2. r.gen = "sending" /\ run' = [run EXCEPT ![t] = q] /\ UNCHANGED <<session, active, file, feedback>>
  BY <1>1 DEF FrameSent
<1>3. q \in Run /\ TurnInv(q)
  BY <1>1, <1>2, SentKeeps
<1>4. Moves(r, q) /\ q.loaded = r.loaded
  BY <1>1, <1>2 DEF Run, Moves
<1> HIDE DEF q
<1>5. TurnChange(t, q)
  BY <1>2, <1>3, <1>4 DEF TurnChange
<1> QED BY <1>2, <1>4, <1>5, OneTurn

LEMMA TearStep ==
  ASSUME IInv, NEW t \in Turns, TearDown(t)
  PROVE  IInv'
<1> DEFINE r == run[t]
           q == LeaveStream([r EXCEPT !.gone = TRUE, !.cancelled = TRUE], "torn")
<1>1. r \in Run /\ TurnInv(r)
  BY TurnOf
<1>2. r.gen \in Reading /\ run' = [run EXCEPT ![t] = q] /\ UNCHANGED <<session, active, file, feedback>>
  BY DEF TearDown, Reading
<1>3. q \in Run /\ TurnInv(q)
  BY <1>1, <1>2, TearKeeps
<1>4. Moves(r, q) /\ q.loaded = r.loaded
  BY <1>1, <1>2 DEF Run, Moves, LeaveStream, Reading
<1> HIDE DEF q
<1>5. TurnChange(t, q)
  BY <1>2, <1>3, <1>4 DEF TurnChange
<1> QED BY <1>2, <1>4, <1>5, OneTurn

LEMMA DropStep ==
  ASSUME IInv, NEW t \in Turns, DropUnseen(t)
  PROVE  IInv'
<1> DEFINE r == run[t]
           q == LeaveStream(r, "dropped")
<1>1. r \in Run /\ TurnInv(r)
  BY TurnOf
<1>2. /\ r.gen \in {"waiting", "closing"} /\ run' = [run EXCEPT ![t] = q]
      /\ UNCHANGED <<session, active, file, feedback>>
  BY DEF DropUnseen
<1>3. q \in Run /\ TurnInv(q)
  BY <1>1, <1>2, DropKeeps
<1>4. Moves(r, q) /\ q.loaded = r.loaded
  BY <1>1, <1>2 DEF Run, Moves, LeaveStream
<1> HIDE DEF q
<1>5. TurnChange(t, q)
  BY <1>2, <1>3, <1>4 DEF TurnChange
<1> QED BY <1>2, <1>4, <1>5, OneTurn

LEMMA CloseStep ==
  ASSUME IInv, NEW t \in Turns, CloseStream(t)
  PROVE  IInv'
<1> DEFINE r == run[t]
           there == session[r.thread] # None
           q == IF r.seen # <<>> /\ there /\ r.fin = "no"
                THEN [r EXCEPT !.gen = "saving", !.fin = "joining", !.said = r.seen]
                ELSE LeaveStream(r, "closed")
<1>1. r \in Run /\ TurnInv(r)
  BY TurnOf
<1>2. /\ r.gen = "closing" /\ run' = [run EXCEPT ![t] = q]
      /\ UNCHANGED <<session, active, file, feedback>>
  BY DEF CloseStream, MayFinalize
<1>3. ~r.disturbed => there
  <2>1. Open(t) /\ r.fin = "no"
    BY <1>1, <1>2 DEF TurnInv, HalvesInv, FinInv, Open, Settled
  <2> QED BY <2>1, SessionThere
<1>4. q \in Run /\ TurnInv(q)
  <2> HIDE DEF r
  <2>1. there \in BOOLEAN
    OBVIOUS
  <2> HIDE DEF there
  <2> QED BY <1>1, <1>2, <1>3, <2>1, CloseKeeps
<1>5. Moves(r, q) /\ q.loaded = r.loaded
  BY <1>1, <1>2 DEF Run, Moves, LeaveStream
<1> HIDE DEF q
<1>6. TurnChange(t, q)
  BY <1>2, <1>4, <1>5 DEF TurnChange
<1> QED BY <1>2, <1>5, <1>6, OneTurn

LEMMA EndsStep ==
  ASSUME IInv, NEW t \in Turns, WorkerEnds(t)
  PROVE  IInv'
<1> DEFINE r == run[t]
<1>1. r \in Run /\ TurnInv(r)
  BY TurnOf
<1>2. /\ r.worker = "ending" /\ UNCHANGED <<session, file, feedback>>
      /\ active' = [h \in Threads |-> IF active[h] = t THEN None ELSE active[h]]
  BY DEF WorkerEnds
<1>3. PICK q : Ended(r, q) /\ run' = [run EXCEPT ![t] = q]
  BY DEF WorkerEnds, Ended
<1>4. /\ q \in Run /\ TurnInv(q) /\ q.thread = r.thread /\ q.fin = r.fin /\ q.loaded = r.loaded
      /\ q.disturbed = r.disturbed /\ q.cancelled = r.cancelled /\ q.worker = "done" /\ q.gen = r.gen
  <2> HIDE DEF r
  <2> QED BY <1>1, <1>2, <1>3, EndsKeeps
<1>5. TurnChange(t, q)
  BY <1>2, <1>3, <1>4 DEF TurnChange, Moves
<1>6. /\ run' \in [Turns -> Run] /\ Turnwise' /\ Alone' /\ Asked' /\ OwnQuestion' /\ Rated'
      /\ run'[t] = q /\ (\A u \in Turns \ {t} : run'[u] = run[u])
      /\ \A u \in Turns : Joined(u) => Joined(u)'
  BY <1>2, <1>5, ChangeKeeps
<1>7. ChatTypeOK'
  BY <1>2, <1>6 DEF IInv, ChatTypeOK
<1>8. EveryRunStoppable'
  <2> SUFFICES ASSUME NEW u \in Turns, run'[u].worker \notin {"none", "done"}
               PROVE  active'[run'[u].thread] = u \/ run'[u].cancelled
    BY DEF EveryRunStoppable
  <2>1. u # t /\ run'[u] = run[u]
    BY <1>4, <1>6
  <2>2. active[run[u].thread] = u \/ run[u].cancelled
    BY <2>1 DEF IInv, EveryRunStoppable
  <2>3. run[u].thread \in Threads
    BY <2>1, TurnOf DEF Run, TurnInv, HalvesInv
  <2> QED BY <1>2, <2>1, <2>2, <2>3
<1>9. \A u \in Turns : run'[u].loaded \in Seq(Saved) /\ GoodFile(run'[u].loaded)
  <2>1. \A u \in Turns : run'[u] \in Run /\ run[u] \in Run /\ GoodFile(run[u].loaded)
    BY <1>6 DEF IInv, Logs, ChatTypeOK
  <2>2. q.loaded = run[t].loaded
    BY <1>4
  <2>3. \A u \in Turns : run'[u].loaded = run[u].loaded
    BY <1>6, <2>2
  <2> QED BY <2>1, <2>3 DEF Run
<1>10. Logs'
  BY <1>2, <1>6, <1>9, LogsStay
<1> QED BY <1>6, <1>7, <1>8, <1>10 DEF IInv

(* A turn that is being saved returns.                                     *)
LEMMA Returning ==
  ASSUME IInv, NEW t \in Turns, run[t].fin \in Persisting, NEW how \in {"saved", "unsaved"},
         run' = [run EXCEPT ![t] = Return(run[t], how)]
  PROVE  /\ \E q : TurnChange(t, q) /\ q.loaded = <<>>
         /\ GoodFile(<<>>) /\ GoodFile(<<>>)'
<1> DEFINE r == run[t]
           q == Return(r, how)
<1>1. r \in Run /\ TurnInv(r)
  BY TurnOf
<1>2. /\ q \in Run /\ TurnInv(q) /\ q.thread = r.thread /\ q.fin = how /\ q.loaded = <<>>
      /\ q.disturbed = r.disturbed /\ q.cancelled = r.cancelled
      /\ q.worker = IF r.worker = "saving" THEN "ending" ELSE r.worker
      /\ r.gen \notin {"closed", "dropped"} /\ (r.gen = "torn" => q.gen = "torn")
  <2> HIDE DEF r
  <2> QED BY <1>1, ReturnKeeps DEF r
<1>3. Moves(r, q)
  <2>1. r.worker \notin {"none"} /\ (r.worker = "done" => q.worker = "done")
    BY <1>1, <1>2 DEF TurnInv, FinInv, Persisting
  <2> HIDE DEF q, r
  <2> QED BY <1>2, <2>1 DEF Moves
<1>4. run' = [run EXCEPT ![t] = q]
  OBVIOUS
<1>5. TurnChange(t, q)
  <2> HIDE DEF q
  <2> QED BY <1>2, <1>3, <1>4 DEF TurnChange
<1> QED BY <1>2, <1>5 DEF GoodFile

(* What a save makes of a list of sessions.                                *)
LEMMA WithSessionLemma ==
  ASSUME NEW sessions \in Seq(Saved), NEW h \in Threads, NEW log \in Seq(Entry)
  PROVE  LET new == WithSession(sessions, h, log)
         IN /\ new \in Seq(Saved) /\ Len(new) <= MaxSessions
            /\ \A i \in DOMAIN new : new[i].log = log \/ \E j \in DOMAIN sessions : new[i] = sessions[j]
<1> DEFINE at == {i \in DOMAIN sessions : sessions[i].id = h}
           item == [id |-> h, log |-> log]
           all == IF at = {} THEN Append(sessions, item)
                  ELSE [sessions EXCEPT ![CHOOSE i \in at : TRUE] = item]
           m == IF Len(all) > MaxSessions THEN Len(all) - MaxSessions + 1 ELSE 1
           new == SubSeq(all, m, Len(all))
<1>1. item \in Saved /\ Len(sessions) \in Nat /\ DOMAIN sessions = 1..Len(sessions)
  BY LenProperties DEF Saved
<1>2. /\ all \in Seq(Saved)
      /\ \A i \in 1..Len(all) : all[i] = item \/ \E j \in DOMAIN sessions : all[i] = sessions[j]
  <2>1. CASE at = {}
    <3> HIDE DEF item
    <3>1. /\ Append(sessions, item) \in Seq(Saved)
          /\ Len(Append(sessions, item)) = Len(sessions) + 1
          /\ \A i \in 1..Len(sessions) : Append(sessions, item)[i] = sessions[i]
          /\ Append(sessions, item)[Len(sessions) + 1] = item
      BY <1>1, AppendProperties
    <3> QED BY <1>1, <2>1, <3>1
  <2>2. CASE at # {}
    <3> DEFINE k == CHOOSE i \in at : TRUE
    <3>1. k \in 1..Len(sessions)
      BY <1>1, <2>2
    <3> HIDE DEF k, item, at
    <3>2. /\ [sessions EXCEPT ![k] = item] \in Seq(Saved)
          /\ Len([sessions EXCEPT ![k] = item]) = Len(sessions)
          /\ \A i \in 1..Len(sessions) : [sessions EXCEPT ![k] = item][i] = IF i = k THEN item ELSE sessions[i]
      BY <1>1, <3>1, ExceptSeq
    <3> QED BY <1>1, <2>2, <3>2 DEF k
  <2> QED BY <2>1, <2>2
<1> HIDE DEF all
<1>3. /\ Len(all) \in Nat /\ m \in 1..(Len(all) + 1) /\ Len(all) - m + 1 <= MaxSessions
      /\ \A i \in m..Len(all) : all[i] \in Saved
  <2>1. Len(all) \in Nat
    BY <1>2, LenProperties
  <2>2. \A i \in 1..Len(all) : all[i] \in Saved
    BY <1>2, ElementOfSeq
  <2> QED BY <2>1, <2>2
<1> HIDE DEF m
<1>4. /\ new \in Seq(Saved)
      /\ Len(new) = IF m <= Len(all) THEN Len(all) - m + 1 ELSE 0
      /\ \A i \in 1..(Len(all) - m + 1) : new[i] = all[m + i - 1]
  BY <1>3, SubSeqProperties
<1>5. Len(new) <= MaxSessions /\ DOMAIN new = 1..(Len(all) - m + 1)
  BY <1>3, <1>4, LenProperties
<1>6. new = WithSession(sessions, h, log)
  BY DEF WithSession, all, m
<1> HIDE DEF new
<1>7. \A i \in DOMAIN new : new[i].log = log \/ \E j \in DOMAIN sessions : new[i] = sessions[j]
  <2> SUFFICES ASSUME NEW i \in DOMAIN new
               PROVE  new[i].log = log \/ \E j \in DOMAIN sessions : new[i] = sessions[j]
    OBVIOUS
  <2>1. m + i - 1 \in 1..Len(all) /\ new[i] = all[m + i - 1]
    BY <1>3, <1>4, <1>5
  <2>2. new[i] = item \/ \E j \in DOMAIN sessions : new[i] = sessions[j]
    BY <1>2, <2>1
  <2> QED BY <2>2
<1> QED BY <1>4, <1>5, <1>6, <1>7

LEMMA LoadStep ==
  ASSUME IInv, NEW t \in Turns, LoadFile(t)
  PROVE  IInv'
<1> DEFINE r == run[t]
           h == r.thread
<1>1. r \in Run /\ TurnInv(r)
  BY TurnOf
<1>2. r.fin = "joined" /\ r.fin \in Persisting /\ UNCHANGED <<session, active, file, feedback>>
  BY DEF LoadFile, Persisting
<1>3. h \in Threads
  BY <1>1, <1>2 DEF Run, TurnInv, HalvesInv, FinInv
<1>4. CASE session[h] = None
  <2>1. run' = [run EXCEPT ![t] = Return(run[t], "unsaved")]
    BY <1>4 DEF LoadFile
  <2>2. PICK q : TurnChange(t, q) /\ q.loaded = <<>>
    BY <1>2, <2>1, Returning
  <2>3. GoodFile(q.loaded)
    BY <2>2 DEF GoodFile
  <2> QED BY <1>2, <2>2, <2>3, OneTurn
<1>5. CASE session[h] # None
  <2> DEFINE x == WithSession(file, h, session[h])
             q == [r EXCEPT !.fin = "loaded", !.loaded = x]
  <2>1. run' = [run EXCEPT ![t] = q]
    BY <1>5 DEF LoadFile
  <2>2. /\ file \in Seq(Saved) /\ session[h] \in Seq(Entry) /\ GoodLog(session[h]) /\ GoodFile(file)
    BY <1>3, <1>5 DEF IInv, ChatTypeOK, Logs
  <2>3. /\ x \in Seq(Saved) /\ Len(x) <= MaxSessions
        /\ \A i \in DOMAIN x : x[i].log = session[h] \/ \E j \in DOMAIN file : x[i] = file[j]
    <3> HIDE DEF h
    <3> QED BY <1>3, <2>2, WithSessionLemma
  <2> HIDE DEF x
  <2>4. GoodFile(x)
    BY <2>2, <2>3 DEF GoodFile
  <2>5. q \in Run /\ TurnInv(q)
    BY <1>1, <1>2, <2>3, SavingKeeps
  <2>6. Moves(r, q) /\ q.loaded = x
    BY <1>1, <2>3 DEF Moves, Run
  <2> HIDE DEF q
  <2>7. TurnChange(t, q)
    BY <2>1, <2>5, <2>6 DEF TurnChange
  <2> QED BY <1>2, <2>4, <2>6, <2>7, OneTurn
<1> QED BY <1>4, <1>5

LEMMA StoreStep ==
  ASSUME IInv, NEW t \in Turns, StoreFile(t)
  PROVE  IInv'
<1>1. /\ run[t].fin \in Persisting /\ UNCHANGED <<session, active, feedback>>
      /\ file' \in {file, run[t].loaded}
  BY DEF StoreFile, Persisting
<1>2. PICK how \in {"saved", "unsaved"} : run' = [run EXCEPT ![t] = Return(run[t], how)]
  BY DEF StoreFile
<1>3. PICK q : TurnChange(t, q) /\ q.loaded = <<>>
  BY <1>1, <1>2, Returning
<1>13. GoodFile(<<>>)'
  BY <1>1, <1>2, Returning
<1>4. /\ run' \in [Turns -> Run] /\ Turnwise' /\ Alone' /\ Asked' /\ EveryRunStoppable' /\ OwnQuestion' /\ Rated'
      /\ run'[t] = q /\ (\A u \in Turns \ {t} : run'[u] = run[u])
      /\ \A u \in Turns : Joined(u) => Joined(u)'
  BY <1>1, <1>3, ChangeKeeps
<1>5. /\ run[t].loaded \in Seq(Saved) /\ Len(run[t].loaded) <= MaxSessions /\ GoodFile(run[t].loaded)
      /\ file \in Seq(Saved) /\ Len(file) <= MaxSessions /\ GoodFile(file)
  <2>1. run[t] \in Run /\ TurnInv(run[t])
    BY TurnOf
  <2> QED BY <2>1 DEF Run, TurnInv, FinInv, IInv, ChatTypeOK, Logs
<1>6. ChatTypeOK'
  BY <1>1, <1>4, <1>5 DEF IInv, ChatTypeOK
<1>7. \A saved \in Seq(Saved) : GoodFile(saved) => GoodFile(saved)'
  BY <1>4, GoodStays
<1>8. \A log \in Seq(Entry) : GoodLog(log) => GoodLog(log)'
  BY <1>4, GoodStays
<1>9. GoodFile(file)'
  <2>2. CASE file' = file
    BY <1>5, <1>7, <2>2
  <2>3. CASE file' = run[t].loaded
    <3>1. PICK x \in Seq(Saved) : x = run[t].loaded /\ GoodFile(x)
      BY <1>5
    <3>2. GoodFile(x)' /\ file' = x
      BY <1>7, <2>3, <3>1
    <3> QED BY <3>2 DEF GoodFile
  <2> QED BY <1>1, <2>2, <2>3
<1>10. ASSUME NEW u \in Turns PROVE GoodFile(run[u].loaded)'
  <2>1. CASE u = t
    BY <1>3, <1>4, <1>13, <2>1 DEF GoodFile
  <2>2. CASE u # t
    <3>1. PICK x \in Seq(Saved) : x = run[u].loaded /\ GoodFile(x)
      BY TurnOf DEF Run, IInv, Logs
    <3>2. GoodFile(x)' /\ run'[u].loaded = x
      BY <1>4, <1>7, <2>2, <3>1
    <3> QED BY <3>2 DEF GoodFile
  <2> QED BY <2>1, <2>2
<1>11. ASSUME NEW h \in Threads, session'[h] # None PROVE GoodLog(session[h])'
  <2>1. session[h] \in Seq(Entry) /\ GoodLog(session[h]) /\ session'[h] = session[h]
    BY <1>1, <1>11 DEF IInv, ChatTypeOK, Logs
  <2> QED BY <1>8, <2>1
<1>12. Logs'
  BY <1>9, <1>10, <1>11 DEF Logs
<1> QED BY <1>4, <1>6, <1>12 DEF IInv

LEMMA LastOfAppend ==
  ASSUME NEW log \in Seq(Entry), NEW e \in Entry
  PROVE  /\ Append(log, e) \in Seq(Entry) /\ Append(log, e) # <<>> /\ Last(Append(log, e)) = e
         /\ DOMAIN Append(log, e) = 1..(Len(log) + 1) /\ DOMAIN log = 1..Len(log) /\ Len(log) \in Nat
         /\ \A i \in DOMAIN log : Append(log, e)[i] = log[i]
         /\ Append(log, e)[Len(log) + 1] = e
<1> DEFINE c == Append(log, e)
<1>1. /\ c \in Seq(Entry) /\ c # <<>> /\ Len(c) = Len(log) + 1 /\ Len(log) \in Nat
      /\ \A i \in 1..Len(log) : c[i] = log[i]
      /\ c[Len(log) + 1] = e
  BY AppendProperties
<1>2. DOMAIN c = 1..(Len(log) + 1) /\ DOMAIN log = 1..Len(log)
  BY <1>1, LenProperties
<1>3. Last(c) = e
  BY <1>1 DEF Last
<1> QED BY <1>1, <1>2, <1>3

LEMMA JoinStep ==
  ASSUME IInv, NEW t \in Turns, JoinSession(t)
  PROVE  IInv'
<1> DEFINE h == run[t].thread
<1>1. run[t] \in Run /\ TurnInv(run[t])
  BY TurnOf
<1>2. run[t].fin = "joining" /\ run[t].fin \in Persisting /\ UNCHANGED <<active, file>>
  BY DEF JoinSession, Persisting
<1>3. h \in Threads /\ Open(t)
  BY <1>1, <1>2 DEF Run, TurnInv, HalvesInv, FinInv, Open, Settled
<1>4. CASE session[h] = None
  <2>1. run' = [run EXCEPT ![t] = Return(run[t], "unsaved")] /\ UNCHANGED <<session, feedback>>
    BY <1>4 DEF JoinSession
  <2>2. PICK q : TurnChange(t, q) /\ q.loaded = <<>>
    BY <1>2, <2>1, Returning
  <2>3. GoodFile(q.loaded)
    BY <2>2 DEF GoodFile
  <2> QED BY <1>2, <2>1, <2>2, <2>3, OneTurn
<1>5. CASE session[h] # None
  <2>1. /\ feedback' = feedback \cup {[answer |-> t, query |-> Question(session[h])]}
        /\ session' = [session EXCEPT ![h] = Append(session[h], Answer(t))]
    BY <1>5 DEF JoinSession
  <2>2. PICK q : q = [run[t] EXCEPT !.fin = "joined"] /\ run' = [run EXCEPT ![t] = q]
    BY <1>5 DEF JoinSession
  <2>3. q \in Run /\ TurnInv(q)
    BY <1>1, <1>2, <2>2, SavingKeeps
  <2>4. TurnChange(t, q) /\ q.fin = "joined" /\ q.loaded = run[t].loaded /\ q.thread = h
    BY <1>1, <2>2, <2>3 DEF TurnChange, Moves, Run
  <2>5. /\ run' \in [Turns -> Run] /\ Turnwise' /\ Alone' /\ EveryRunStoppable'
        /\ run'[t] = q /\ (\A u \in Turns \ {t} : run'[u] = run[u])
        /\ \A u \in Turns : Joined(u) => Joined(u)'
    BY <1>2, <2>4, ChangeKeeps
  <2> DEFINE log == session[h]
             e == Answer(t)
  <2>6. log \in Seq(Entry) /\ GoodLog(log) /\ e \in Entry
    BY <1>3, <1>5 DEF IInv, ChatTypeOK, Logs, Answer, Entry
  <2>7. /\ session' \in [Threads -> Seq(Entry) \cup {None}]
        /\ session'[h] = Append(log, e) /\ \A g \in Threads \ {h} : session'[g] = session[g]
    <3> HIDE DEF e
    <3>1. Append(log, e) \in Seq(Entry)
      BY <2>6, LastOfAppend
    <3>2. session' = [session EXCEPT ![h] = Append(log, e)]
      BY <2>1 DEF e
    <3>3. session \in [Threads -> Seq(Entry) \cup {None}]
      BY DEF IInv, ChatTypeOK
    <3> HIDE DEF log, h
    <3> QED BY <1>3, <3>1, <3>2, <3>3
  <2>8. Question(log) \in Turns \cup {None} /\ (~run[t].disturbed => Question(log) = t)
    <3>1. log # <<>> => Last(log) \in Entry
      <4>1. log # <<>> => Len(log) \in 1..Len(log)
        BY <2>6, EmptySeq, LenProperties
      <4> QED BY <2>6, <4>1, ElementOfSeq DEF Last
    <3>2. ~run[t].disturbed => log # <<>> /\ Last(log) = User(t)
      BY <1>2, <1>3 DEF IInv, Asked
    <3> QED BY <3>1, <3>2 DEF Question, Entry, User
  <2>9. ChatTypeOK'
    BY <1>2, <2>1, <2>5, <2>7, <2>8 DEF IInv, ChatTypeOK
  <2>10. Asked'
    <3> SUFFICES ASSUME NEW u \in Turns, Open(u)', ~run'[u].disturbed,
                        run'[u].fin \in {"no", "joining"}
                 PROVE  /\ session'[run'[u].thread] # None /\ session'[run'[u].thread] # <<>>
                        /\ Last(session'[run'[u].thread]) = User(u)
      BY DEF Asked
    <3>1. u # t /\ run'[u] = run[u]
      BY <2>4, <2>5
    <3>2. Open(u)
      BY <3>1 DEF Open, Settled
    <3>3. run[u].thread # h
      BY <1>3, <3>1, <3>2 DEF IInv, Alone
    <3>4. run[u].thread \in Threads
      BY <3>2, TurnOf DEF Run, Open
    <3>5. /\ session[run[u].thread] # None /\ session[run[u].thread] # <<>>
          /\ Last(session[run[u].thread]) = User(u)
      BY <3>1, <3>2 DEF IInv, Asked
    <3> QED BY <2>7, <3>1, <3>3, <3>4, <3>5
  <2>11. OwnQuestion'
    <3> SUFFICES ASSUME NEW x \in feedback', ~run'[x.answer].disturbed PROVE x.query = x.answer
      BY DEF OwnQuestion
    <3>1. CASE x \in feedback
      <4>1. x.answer \in Turns
        BY <3>1 DEF IInv, ChatTypeOK
      <4>2. ~run[x.answer].disturbed
        BY <1>1, <2>2, <2>5, <4>1 DEF Run
      <4> QED BY <3>1, <4>2 DEF IInv, OwnQuestion
    <3>2. CASE x = [answer |-> t, query |-> Question(log)]
      BY <1>1, <2>2, <2>5, <2>8, <3>2 DEF Run
    <3> QED BY <2>1, <3>1, <3>2
  <2>13. Rated'
    <3>1. \A x \in feedback : x.answer \in Turns /\ Joined(x.answer)
      BY DEF IInv, ChatTypeOK, Rated
    <3>2. Joined(t)'
      BY <2>4, <2>5 DEF Joined
    <3> QED BY <2>1, <2>5, <3>1, <3>2 DEF Rated
  <2>12. Logs'
    <3>1. \A x \in Seq(Entry) : GoodLog(x) => GoodLog(x)'
      BY <2>5, GoodStays
    <3>2. \A x \in Seq(Saved) : GoodFile(x) => GoodFile(x)'
      BY <2>5, GoodStays
    <3>3. PICK c \in Seq(Entry) : c = Append(log, e)
      BY <2>6, LastOfAppend
    <3>4. GoodLog(c)'
      <4>1. PICK n \in Nat :
              /\ DOMAIN c = 1..(n + 1) /\ DOMAIN log = 1..n
              /\ (\A i \in 1..n : c[i] = log[i]) /\ c[n + 1] = e
        BY <2>6, <3>3, LastOfAppend
      <4>2. \A i \in 1..n : c[i].role = "assistant" => Joined(c[i].turn) /\ c[i].turn \in Turns
        <5>1. \A i \in 1..n : log[i] \in Entry
          BY <2>6, <4>1, ElementOfSeq, LenProperties
        <5> QED BY <2>6, <4>1, <5>1 DEF GoodLog, Entry
      <4>3. ~Joined(t) /\ Joined(t)' /\ e.role = "assistant" /\ e.turn = t
        BY <1>2, <2>4, <2>5 DEF Joined, Answer
      <4>4. \A i \in 1..n : c[i] # e
        BY <4>2, <4>3
      <4>5. ASSUME NEW i \in DOMAIN c, c[i].role = "assistant" PROVE Joined(c[i].turn)'
        <5>1. CASE i \in 1..n
          BY <2>5, <4>2, <4>5, <5>1
        <5>2. CASE i = n + 1
          BY <4>1, <4>3, <5>2
        <5> QED BY <4>1, <5>1, <5>2
      <4>6. ASSUME NEW i \in DOMAIN c, NEW j \in DOMAIN c, c[i] = c[j], c[i].role = "assistant"
            PROVE  i = j
        <5>1. CASE i \in 1..n /\ j \in 1..n
          BY <2>6, <4>1, <4>6, <5>1 DEF GoodLog
        <5>2. CASE i = n + 1 \/ j = n + 1
          BY <4>1, <4>4, <4>6, <5>2
        <5> QED BY <4>1, <5>1, <5>2
      <4> QED BY <4>5, <4>6 DEF GoodLog
    <3>5. ASSUME NEW g \in Threads, session'[g] # None PROVE GoodLog(session[g])'
      <4>1. CASE g = h
        <5>1. session'[g] = c
          BY <2>7, <3>3, <4>1
        <5> QED BY <3>4, <5>1 DEF GoodLog
      <4>2. CASE g # h
        <5>1. session[g] \in Seq(Entry) /\ GoodLog(session[g]) /\ session'[g] = session[g]
          BY <2>7, <3>5, <4>2 DEF IInv, ChatTypeOK, Logs
        <5> QED BY <3>1, <5>1
      <4> QED BY <4>1, <4>2
    <3>6. GoodFile(file)'
      BY <1>2, <3>2 DEF IInv, ChatTypeOK, Logs
    <3>7. ASSUME NEW u \in Turns PROVE GoodFile(run[u].loaded)'
      <4>1. PICK x \in Seq(Saved) : x = run[u].loaded /\ GoodFile(x)
        BY TurnOf DEF Run, IInv, Logs
      <4>2. GoodFile(x)' /\ run'[u].loaded = x
        BY <2>4, <2>5, <3>2, <4>1
      <4> QED BY <4>2 DEF GoodFile
    <3> QED BY <3>5, <3>6, <3>7 DEF Logs
  <2> QED BY <2>5, <2>9, <2>10, <2>11, <2>12, <2>13 DEF IInv
<1> QED BY <1>4, <1>5

(* Requests only raise flags of the turns that are there.                  *)
FlagChange == run' \in [Turns -> Run] /\ \A u \in Turns : Flagged(run[u], run'[u])

LEMMA FlagsKeep ==
  ASSUME IInv, FlagChange
  PROVE  /\ Turnwise' /\ Alone'
         /\ \A u \in Turns : /\ Joined(u) => Joined(u)'
                             /\ Open(u)' <=> Open(u)
                             /\ run'[u].loaded = run[u].loaded
         /\ active' = active => EveryRunStoppable'
         /\ feedback' = feedback => OwnQuestion' /\ Rated'
<1>1. /\ run \in [Turns -> Run] /\ run' \in [Turns -> Run]
      /\ feedback \subseteq [answer : Turns, query : Turns \cup {None}]
  BY DEF IInv, ChatTypeOK, FlagChange
<1>2. \A u \in Turns : /\ Flagged(run[u], run'[u]) /\ TurnInv(run'[u])
                       /\ run'[u].thread = run[u].thread /\ run'[u].worker = run[u].worker
                       /\ run'[u].gen = run[u].gen /\ run'[u].fin = run[u].fin
                       /\ run'[u].loaded = run[u].loaded
                       /\ (run[u].cancelled => run'[u].cancelled)
                       /\ (run[u].disturbed => run'[u].disturbed)
  <2> SUFFICES ASSUME NEW u \in Turns
               PROVE  /\ Flagged(run[u], run'[u]) /\ TurnInv(run'[u])
                      /\ run'[u].thread = run[u].thread /\ run'[u].worker = run[u].worker
                      /\ run'[u].gen = run[u].gen /\ run'[u].fin = run[u].fin
                      /\ run'[u].loaded = run[u].loaded
                      /\ (run[u].cancelled => run'[u].cancelled)
                      /\ (run[u].disturbed => run'[u].disturbed)
    OBVIOUS
  <2>1. Flagged(run[u], run'[u]) /\ run[u] \in Run /\ run'[u] \in Run /\ TurnInv(run[u])
    BY <1>1, TurnOf DEF FlagChange
  <2>2. TurnInv(run'[u])
    BY <2>1, FlaggedKeeps
  <2> QED BY <2>1, <2>2 DEF Flagged, Control, Text
<1>3. \A u \in Turns : Open(u)' <=> Open(u)
  BY <1>2 DEF Open, Settled
<1>4. Alone'
  BY <1>2, <1>3 DEF Alone, IInv
<1>5. \A u \in Turns : Joined(u) => Joined(u)'
  BY <1>2 DEF Joined
<1>6. active' = active => EveryRunStoppable'
  BY <1>2 DEF EveryRunStoppable, IInv
<1>7. feedback' = feedback => OwnQuestion' /\ Rated'
  BY <1>1, <1>2, <1>5 DEF OwnQuestion, Rated, IInv
<1>8. Turnwise'
  BY <1>2 DEF Turnwise
<1> QED BY <1>2, <1>3, <1>4, <1>5, <1>6, <1>7, <1>8

(* The saved copy of a session.                                            *)
LEMMA StoredLemma ==
  ASSUME IInv, NEW h \in Threads, StoredLog(h) # None
  PROVE  StoredLog(h) \in Seq(Entry) /\ GoodLog(StoredLog(h))
<1>1. PICK i \in DOMAIN file : StoredLog(h) = file[i].log
  BY DEF StoredLog, Stored
<1>2. file \in Seq(Saved) /\ GoodLog(file[i].log)
  BY DEF IInv, ChatTypeOK, Logs, GoodFile
<1>3. file[i] \in Saved
  BY <1>2, ElementOfSeq, LenProperties
<1> QED BY <1>1, <1>2, <1>3 DEF Saved

LEMMA StopStep ==
  ASSUME IInv, NEW h \in Threads, StopChat(h)
  PROVE  IInv'
<1> DEFINE u == active[h]
           q == [run[u] EXCEPT !.cancelled = TRUE]
<1>1. u \in Turns /\ run' = [run EXCEPT ![u] = q] /\ UNCHANGED <<session, active, file, feedback>>
  BY DEF StopChat, IInv, ChatTypeOK
<1>2. run[u] \in Run /\ TurnInv(run[u])
  BY <1>1, TurnOf
<1>3. q \in Run /\ Flagged(run[u], q) /\ Moves(run[u], q) /\ q.loaded = run[u].loaded
  BY <1>2 DEF Run, Flagged, Control, Text, Moves
<1> HIDE DEF q, u
<1>4. TurnInv(q)
  BY <1>2, <1>3, FlaggedKeeps
<1>5. TurnChange(u, q)
  BY <1>1, <1>3, <1>4 DEF TurnChange
<1> QED BY <1>1, <1>3, <1>5, OneTurn

(* A request that touches the session of a thread disturbs its turns.      *)
LEMMA DisturbLemma ==
  ASSUME IInv, NEW h \in Threads, run' = Disturb(h, run)
  PROVE  FlagChange /\ \A u \in Turns : Open(u) /\ run[u].thread = h => run'[u].disturbed
<1>1. run \in [Turns -> Run]
  BY DEF IInv, ChatTypeOK
<1>2. \A u \in Turns : run'[u] = IF u \in Underway(h) THEN [run[u] EXCEPT !.disturbed = TRUE] ELSE run[u]
  BY DEF Disturb
<1>3. ASSUME NEW u \in Turns PROVE run'[u] \in Run /\ Flagged(run[u], run'[u])
  <2> DEFINE r == run[u]
             q == [r EXCEPT !.disturbed = TRUE]
  <2>1. r \in Run /\ (run'[u] = q \/ run'[u] = r)
    BY <1>1, <1>2
  <2>2. q \in Run /\ Flagged(r, q) /\ Flagged(r, r)
    <3> HIDE DEF r
    <3> QED BY <2>1 DEF Flagged, Control, Text, Run
  <2> QED BY <2>1, <2>2
<1>4. run' \in [Turns -> Run]
  BY <1>3 DEF Disturb
<1>5. \A u \in Turns : Open(u) /\ run[u].thread = h => run'[u].disturbed
  BY <1>1, <1>2 DEF Open, Underway, Run
<1> QED BY <1>3, <1>4, <1>5 DEF FlagChange

LEMMA TouchKeeps ==
  ASSUME IInv, NEW h \in Threads, NEW x, run' = Disturb(h, run),
         session' = [session EXCEPT ![h] = x], UNCHANGED <<active, feedback>>,
         x = None \/ (x \in Seq(Entry) /\ GoodLog(x)),
         file' \in Seq(Saved), Len(file') <= MaxSessions,
         GoodFile(file')
  PROVE  IInv'
<1>1. FlagChange /\ \A u \in Turns : Open(u) /\ run[u].thread = h => run'[u].disturbed
  BY DisturbLemma
<1>2. /\ Turnwise' /\ Alone'
      /\ \A u \in Turns : /\ Joined(u) => Joined(u)'
                          /\ Open(u)' <=> Open(u)
                          /\ run'[u].loaded = run[u].loaded
      /\ active' = active => EveryRunStoppable'
      /\ feedback' = feedback => OwnQuestion' /\ Rated'
  BY <1>1, FlagsKeep
<1>7. EveryRunStoppable'
  BY <1>2
<1>8. OwnQuestion' /\ Rated'
  BY <1>2
<1>9. \A u \in Turns : Joined(u) => Joined(u)'
  BY <1>2
<1>3. /\ session \in [Threads -> Seq(Entry) \cup {None}]
      /\ session' \in [Threads -> Seq(Entry) \cup {None}]
      /\ session'[h] = x /\ \A g \in Threads \ {h} : session'[g] = session[g]
  BY DEF IInv, ChatTypeOK
<1>4. ChatTypeOK'
  BY <1>1, <1>3 DEF IInv, ChatTypeOK, FlagChange
<1>5. Asked'
  <2> SUFFICES ASSUME NEW u \in Turns, Open(u)', ~run'[u].disturbed,
                      run'[u].fin \in {"no", "joining"}
               PROVE  /\ session'[run'[u].thread] # None /\ session'[run'[u].thread] # <<>>
                      /\ Last(session'[run'[u].thread]) = User(u)
    BY DEF Asked
  <2>1. /\ Open(u) /\ run'[u].thread = run[u].thread /\ run'[u].fin = run[u].fin
        /\ (run[u].disturbed => run'[u].disturbed)
    BY <1>1, <1>2 DEF FlagChange, Flagged, Control
  <2>2. run[u].thread \in Threads \ {h}
    BY <1>1, <2>1, TurnOf DEF Run, Open
  <2> QED BY <1>3, <2>1, <2>2 DEF IInv, Asked
<1>6. Logs'
  <2>1. \A y \in Seq(Entry) : GoodLog(y) => GoodLog(y)'
    BY <1>9, GoodStays
  <2>2. \A y \in Seq(Saved) : GoodFile(y) => GoodFile(y)'
    BY <1>9, GoodStays
  <2>3. ASSUME NEW g \in Threads, session'[g] # None PROVE GoodLog(session[g])'
    <3>1. PICK y \in Seq(Entry) : session'[g] = y /\ GoodLog(y)
      BY <1>3, <2>3 DEF IInv, Logs
    <3>2. GoodLog(y)'
      BY <2>1, <3>1
    <3> QED BY <3>1, <3>2 DEF GoodLog
  <2>4. GoodFile(file)'
    <3>1. PICK y \in Seq(Saved) : file' = y /\ GoodFile(y)
      OBVIOUS
    <3>2. GoodFile(y)'
      BY <2>2, <3>1
    <3> QED BY <3>1, <3>2 DEF GoodFile
  <2>5. ASSUME NEW u \in Turns PROVE GoodFile(run[u].loaded)'
    <3>1. PICK y \in Seq(Saved) : y = run[u].loaded /\ GoodFile(y)
      BY TurnOf DEF Run, IInv, Logs
    <3>2. GoodFile(y)' /\ run'[u].loaded = y
      BY <1>2, <2>2, <3>1
    <3> QED BY <3>2 DEF GoodFile
  <2> QED BY <2>3, <2>4, <2>5 DEF Logs
<1> QED BY <1>2, <1>4, <1>5, <1>6, <1>7, <1>8 DEF IInv

LEMMA GetStep ==
  ASSUME IInv, NEW h \in Threads, GetChat(h)
  PROVE  IInv'
<1>1. StoredLog(h) \in Seq(Entry) /\ GoodLog(StoredLog(h))
  BY StoredLemma DEF GetChat
<1>2. PICK x : x = StoredLog(h)
  OBVIOUS
<1>3. file' = file /\ file \in Seq(Saved) /\ Len(file) <= MaxSessions /\ GoodFile(file)
  BY DEF GetChat, IInv, ChatTypeOK, Logs
<1> QED BY <1>1, <1>2, <1>3, TouchKeeps DEF GetChat

LEMMA RemoveStep ==
  ASSUME IInv, NEW h \in Threads, RemoveChat(h)
  PROVE  IInv'
<1> DEFINE left == DOMAIN file \ Stored(h)
           f == KeepAt(file, left)
<1>1. file \in Seq(Saved) /\ Len(file) <= MaxSessions /\ GoodFile(file) /\ Len(file) \in Nat
  BY LenProperties DEF IInv, ChatTypeOK, Logs
<1>2. left \in SUBSET DOMAIN file
  OBVIOUS
<1> HIDE DEF left
<1>3. /\ f \in Seq(Saved) /\ Len(f) <= Len(file) /\ Len(f) \in Nat
      /\ \A i \in DOMAIN f : \E j \in DOMAIN file : f[i] = file[j]
  <2>1. /\ f \in Seq(Saved) /\ Len(f) <= Len(file)
        /\ \E at \in [DOMAIN f -> left] : \A i \in DOMAIN f : f[i] = file[at[i]]
    BY <1>1, <1>2, KeepAtLemma
  <2> HIDE DEF f
  <2> QED BY <1>2, <2>1, LenProperties
<1>4. file' = f
  BY DEF RemoveChat, left
<1> HIDE DEF f
<1>5. f \in Seq(Saved) /\ Len(f) <= MaxSessions /\ GoodFile(f)
  BY <1>1, <1>3 DEF GoodFile
<1> QED BY <1>4, <1>5, TouchKeeps DEF RemoveChat

LEMMA PostStep ==
  ASSUME IInv, NEW t \in Turns, NEW h \in Threads, Post(t, h)
  PROVE  IInv'
<1> DEFINE before == IF session[h] # None THEN session[h]
                     ELSE IF StoredLog(h) # None THEN StoredLog(h) ELSE <<>>
           others == [u \in Turns |-> IF u = active[h] THEN [run[u] EXCEPT !.cancelled = TRUE] ELSE run[u]]
           w == Disturb(h, others)
           d == Underway(h) # {}
           q == [w[t] EXCEPT !.thread = h, !.worker = "invoking", !.gen = "waiting", !.disturbed = d]
<1>1. /\ run[t].thread = None /\ session' = [session EXCEPT ![h] = Append(before, User(t))]
      /\ active' = [active EXCEPT ![h] = t] /\ UNCHANGED <<file, feedback>>
  BY DEF Post
<1>2. ASSUME NEW u \in Turns
      PROVE  /\ w[u] \in Run /\ Flagged(run[u], w[u])
             /\ u \in Underway(h) => w[u].disturbed
             /\ u = active[h] => w[u].cancelled
  <2> DEFINE r == run[u]
             r1 == [r EXCEPT !.cancelled = TRUE]
  <2>1. r \in Run
    BY TurnOf
  <2>2. /\ others[u] = IF u = active[h] THEN r1 ELSE r
        /\ w[u] = IF u \in Underway(h) THEN [others[u] EXCEPT !.disturbed = TRUE] ELSE others[u]
    BY DEF Disturb
  <2> HIDE DEF r
  <2>3. r1 \in Run /\ Flagged(r, r1) /\ r1.cancelled
    BY <2>1 DEF Run, Flagged, Control, Text
  <2> HIDE DEF r1, others, w
  <2>4. others[u] \in Run /\ Flagged(r, others[u]) /\ (u = active[h] => others[u].cancelled)
    BY <2>1, <2>2, <2>3 DEF Flagged
  <2> DEFINE o == others[u]
             o1 == [o EXCEPT !.disturbed = TRUE]
  <2> HIDE DEF o
  <2>5. o \in Run /\ Flagged(r, o) /\ (u = active[h] => o.cancelled)
    BY <2>4 DEF o
  <2>6. o1 \in Run /\ Flagged(r, o1) /\ o1.disturbed /\ (u = active[h] => o1.cancelled)
    BY <2>5 DEF Run, Flagged, Control, Text
  <2>7. w[u] = IF u \in Underway(h) THEN o1 ELSE o
    BY <2>2 DEF o
  <2> HIDE DEF o1
  <2> QED BY <2>5, <2>6, <2>7 DEF r
<1>3. run' = [w EXCEPT ![t] = q]
  BY DEF Post, Disturb
<1>4. w \in [Turns -> Run]
  <2>1. w = [u \in Turns |-> w[u]]
    BY DEF Disturb
  <2> HIDE DEF w
  <2> QED BY <1>2, <2>1
<1>5. /\ w[t].thread = None /\ TurnInv(w[t])
  <2>1. run[t] \in Run /\ TurnInv(run[t])
    BY TurnOf
  <2> HIDE DEF w
  <2> QED BY <1>1, <1>2, <2>1, FlaggedKeeps DEF Flagged, Control
<1>6. q \in Run /\ TurnInv(q)
  <2> HIDE DEF w, d
  <2>1. d \in BOOLEAN
    BY DEF d
  <2> QED BY <1>2, <1>5, <2>1, StartKeeps
<1>7. q.thread = h /\ q.worker = "invoking" /\ q.gen = "waiting" /\ q.disturbed = d /\ q.fin = w[t].fin
      /\ q.loaded = w[t].loaded
  <2> HIDE DEF w, d
  <2> QED BY <1>2 DEF Run
<1> HIDE DEF w, q, d, before
<1>8. /\ run' \in [Turns -> Run] /\ run'[t] = q
      /\ \A u \in Turns \ {t} : run'[u] = w[u]
  BY <1>3, <1>4, <1>6
<1>9. ASSUME NEW u \in Turns
      PROVE  /\ u # t => /\ Open(u)' <=> Open(u)
                         /\ run'[u].thread = run[u].thread /\ run'[u].worker = run[u].worker
                         /\ run[u].cancelled => run'[u].cancelled
             /\ run'[u].fin = run[u].fin
             /\ run'[u].loaded = run[u].loaded
             /\ u # t /\ run[u].disturbed => run'[u].disturbed
             /\ TurnInv(run'[u])
  <2>1. Flagged(run[u], w[u])
    BY <1>2
  <2>2. CASE u = t
    <3>1. w[t].fin = run[t].fin /\ w[t].loaded = run[t].loaded
      BY <2>1, <2>2 DEF Flagged, Control, Text
    <3> QED BY <1>6, <1>7, <1>8, <2>2, <3>1
  <2>3. CASE u # t
    <3>1. run'[u] = w[u]
      BY <1>8, <2>3
    <3>2. TurnInv(w[u])
      BY <1>2, <2>1, TurnOf, FlaggedKeeps
    <3>3. Open(u)' <=> Open(u)
      BY <2>1, <3>1 DEF Flagged, Control, Open, Settled
    <3> QED BY <2>1, <2>3, <3>1, <3>2, <3>3 DEF Flagged, Control, Text
  <2> QED BY <2>2, <2>3
<1>10. Turnwise'
  BY <1>9 DEF Turnwise
<1>11. \A u \in Turns : Open(u) /\ run[u].thread = h => u \in Underway(h)
  BY DEF Open, Underway
<1>12. ASSUME NEW u \in Turns \ {t}, Open(u)', run'[u].thread = h
       PROVE  d /\ run'[u].disturbed
  <2>1. u \in Underway(h)
    BY <1>9, <1>11, <1>12
  <2> QED BY <1>2, <1>8, <2>1 DEF d
<1>13. Alone'
  <2> SUFFICES ASSUME NEW u \in Turns, NEW v \in Turns, u # v, Open(u)', Open(v)',
                      run'[u].thread = run'[v].thread
               PROVE  run'[u].disturbed
    BY DEF Alone
  <2>1. CASE u = t
    BY <1>7, <1>8, <1>12, <2>1
  <2>2. CASE v = t
    BY <1>7, <1>8, <1>12, <2>2
  <2>3. CASE u # t /\ v # t
    BY <1>9, <2>3 DEF IInv, Alone
  <2> QED BY <2>1, <2>2, <2>3
<1>14. before \in Seq(Entry) /\ GoodLog(before) /\ User(t) \in Entry
  <2>1. <<>> \in Seq(Entry) /\ GoodLog(<<>>)
    BY DEF GoodLog
  <2>2. session[h] # None => session[h] \in Seq(Entry) /\ GoodLog(session[h])
    BY DEF IInv, ChatTypeOK, Logs
  <2>3. StoredLog(h) # None => StoredLog(h) \in Seq(Entry) /\ GoodLog(StoredLog(h))
    BY StoredLemma
  <2> QED BY <2>1, <2>2, <2>3 DEF before, User, Entry
<1>15. PICK c \in Seq(Entry) : c = Append(before, User(t))
  BY <1>14, LastOfAppend
<1>16. /\ session' \in [Threads -> Seq(Entry) \cup {None}] /\ session'[h] = c
       /\ \A g \in Threads \ {h} : session'[g] = session[g]
  BY <1>1, <1>15 DEF IInv, ChatTypeOK
<1>17. ChatTypeOK'
  <2>1. active' \in [Threads -> Turns \cup {None}]
    BY <1>1 DEF IInv, ChatTypeOK
  <2> QED BY <1>1, <1>8, <1>16, <2>1 DEF IInv, ChatTypeOK
<1>18. c # <<>> /\ Last(c) = User(t) /\ c # None
  BY <1>14, <1>15, LastOfAppend
<1>19. Asked'
  <2> SUFFICES ASSUME NEW u \in Turns, Open(u)', ~run'[u].disturbed,
                      run'[u].fin \in {"no", "joining"}
               PROVE  /\ session'[run'[u].thread] # None /\ session'[run'[u].thread] # <<>>
                      /\ Last(session'[run'[u].thread]) = User(u)
    BY DEF Asked
  <2>1. CASE u = t
    BY <1>7, <1>8, <1>16, <1>18, <2>1
  <2>2. CASE u # t
    <3>1. run'[u].thread # h
      BY <1>12, <2>2
    <3>2. run'[u].thread \in Threads
      BY <1>8, <1>9, <2>2, TurnOf DEF Run, Open
    <3> QED BY <1>9, <1>16, <2>2, <3>1, <3>2 DEF IInv, Asked
  <2> QED BY <2>1, <2>2
<1>20. \A u \in Turns : Joined(u) => Joined(u)'
  BY <1>9 DEF Joined
<1>21. EveryRunStoppable'
  <2> SUFFICES ASSUME NEW u \in Turns, run'[u].worker \notin {"none", "done"}
               PROVE  active'[run'[u].thread] = u \/ run'[u].cancelled
    BY DEF EveryRunStoppable
  <2>1. active \in [Threads -> Turns \cup {None}]
    BY DEF IInv, ChatTypeOK
  <2>2. CASE u = t
    BY <1>1, <1>7, <1>8, <2>1, <2>2
  <2>3. CASE u # t
    <3>1. /\ run'[u].thread = run[u].thread /\ (run[u].cancelled => run'[u].cancelled)
          /\ active[run[u].thread] = u \/ run[u].cancelled
      BY <1>9, <2>3 DEF IInv, EveryRunStoppable
    <3>2. run[u].thread \in Threads
      <4>1. run[u].thread # None
        BY <1>9, <2>3, TurnOf DEF TurnInv, HalvesInv
      <4> QED BY <4>1, TurnOf DEF Run
    <3>3. CASE run[u].thread = h /\ active[h] = u
      BY <1>2, <1>8, <2>3, <3>3
    <3> QED BY <1>1, <2>1, <3>1, <3>2, <3>3
  <2> QED BY <2>2, <2>3
<1>22. Rated'
  BY <1>1, <1>20 DEF IInv, ChatTypeOK, Rated
<1>23. OwnQuestion'
  <2> SUFFICES ASSUME NEW x \in feedback, ~run'[x.answer].disturbed PROVE x.query = x.answer
    BY <1>1 DEF OwnQuestion
  <2>1. x.answer \in Turns /\ Joined(x.answer)
    BY DEF IInv, ChatTypeOK, Rated
  <2>2. ~Joined(t)
    BY <1>1, TurnOf DEF TurnInv, HalvesInv, FinInv, Joined
  <2>3. ~run[x.answer].disturbed
    BY <1>9, <2>1, <2>2
  <2> QED BY <2>3 DEF IInv, OwnQuestion
<1>24. Logs'
  <2>1. \A y \in Seq(Entry) : GoodLog(y) => GoodLog(y)'
    BY <1>20, GoodStays
  <2>2. \A y \in Seq(Saved) : GoodFile(y) => GoodFile(y)'
    BY <1>20, GoodStays
  <2>3. GoodLog(c)
    <3>1. PICK n \in Nat :
            /\ DOMAIN c = 1..(n + 1) /\ DOMAIN before = 1..n
            /\ (\A i \in 1..n : c[i] = before[i]) /\ c[n + 1] = User(t)
      BY <1>14, <1>15, LastOfAppend
    <3>2. User(t).role = "user"
      BY DEF User
    <3> QED BY <1>14, <3>1, <3>2 DEF GoodLog
  <2>4. ASSUME NEW g \in Threads, session'[g] # None PROVE GoodLog(session[g])'
    <3>1. PICK y \in Seq(Entry) : session'[g] = y /\ GoodLog(y)
      BY <1>16, <2>3, <2>4 DEF IInv, ChatTypeOK, Logs
    <3>2. GoodLog(y)'
      BY <2>1, <3>1
    <3> QED BY <3>1, <3>2 DEF GoodLog
  <2>5. GoodFile(file)'
    BY <1>1, <2>2 DEF IInv, ChatTypeOK, Logs
  <2>6. ASSUME NEW u \in Turns PROVE GoodFile(run[u].loaded)'
    <3>1. PICK y \in Seq(Saved) : y = run[u].loaded /\ GoodFile(y)
      BY TurnOf DEF Run, IInv, Logs
    <3>2. GoodFile(y)' /\ run'[u].loaded = y
      BY <1>9, <2>2, <3>1
    <3> QED BY <3>2 DEF GoodFile
  <2> QED BY <2>4, <2>5, <2>6 DEF Logs
<1> QED BY <1>10, <1>13, <1>17, <1>19, <1>21, <1>22, <1>23, <1>24 DEF IInv

-----------------------------------------------------------------------------
(* The invariant and what follows from it.                                 *)

LEMMA InitHolds == Init => IInv
<1> SUFFICES ASSUME Init PROVE IInv
  OBVIOUS
<1> USE DEF Init
<1>1. Unposted \in Run /\ Unposted.thread = None /\ Unposted.fin = "no" /\ Unposted.loaded = <<>>
      /\ Unposted.worker = "none"
  BY PiecesType, EmptyBuffers DEF Unposted, Run, Pieces
<1>2. TurnInv(Unposted)
  <2>1. HalvesInv(Unposted) /\ FinInv(Unposted)
    BY DEF Unposted, HalvesInv, FinInv, Persisting, Reading
  <2>2. StreamInv(Unposted) /\ BufferInv(Unposted) /\ SaidInv(Unposted)
    BY EmptyBuffers DEF Unposted, StreamInv, BufferInv, SaidInv, Persisting, Reading
  <2> QED BY <2>1, <2>2 DEF TurnInv
<1>3. ChatTypeOK
  BY <1>1 DEF ChatTypeOK
<1>4. Turnwise /\ Alone /\ Asked /\ EveryRunStoppable /\ OwnQuestion /\ Rated
  BY <1>1, <1>2 DEF Turnwise, Alone, Asked, Open, EveryRunStoppable, OwnQuestion, Rated
<1>5. Logs
  BY <1>1 DEF Logs, GoodFile
<1> QED BY <1>3, <1>4, <1>5 DEF IInv

LEMMA StutterKeeps == IInv /\ UNCHANGED chatVars => IInv'
<1> SUFFICES ASSUME IInv, UNCHANGED chatVars PROVE IInv'
  OBVIOUS
<1> USE DEF chatVars
<1>1. ChatTypeOK' /\ Turnwise'
  BY DEF IInv, ChatTypeOK, Turnwise
<1>2. Alone' /\ Asked'
  BY DEF IInv, Alone, Asked, Open, Settled
<1>3. EveryRunStoppable' /\ OwnQuestion' /\ Rated'
  BY DEF IInv, EveryRunStoppable, OwnQuestion, Rated, Joined
<1>4. Logs'
  BY ZenonT(60) DEF IInv, Logs, GoodFile, GoodLog, Joined
<1> QED BY <1>1, <1>2, <1>3, <1>4 DEF IInv

LEMMA NextKeeps == IInv /\ [Next]_chatVars => IInv'
<1> SUFFICES ASSUME IInv, Next PROVE IInv'
  BY StutterKeeps
<1>1. CASE Request
  BY <1>1, PostStep, StopStep, GetStep, RemoveStep DEF Request
<1>2. ASSUME NEW t \in Turns, WorkerStep(t) PROVE IInv'
  BY <1>2, ProduceStep, ReturnsStep, FailsStep, RecoverStep, EndsStep DEF WorkerStep
<1>3. ASSUME NEW t \in Turns, Finalize(t) PROVE IInv'
  BY <1>3, JoinStep, LoadStep, StoreStep DEF Finalize
<1>4. ASSUME NEW t \in Turns, ReadStep(t) PROVE IInv'
  BY <1>4, TakeStep, SentStep, CloseStep DEF ReadStep
<1>5. ASSUME NEW t \in Turns, TearDown(t) \/ DropUnseen(t) PROVE IInv'
  BY <1>5, TearStep, DropStep
<1>6. CASE Idle
  BY <1>6, StutterKeeps DEF Idle
<1> QED BY <1>1, <1>2, <1>3, <1>4, <1>5, <1>6 DEF Next

(* Every reachable state satisfies the invariant: how the buffers of the   *)
(* two halves of a turn relate, who may persist it, what the sessions hold. *)
THEOREM Invariant == Spec => []IInv
<1>1. Init => IInv
  BY InitHolds
<1>2. IInv /\ [Next]_chatVars => IInv'
  BY NextKeeps
<1> QED BY <1>1, <1>2, PTL DEF Spec

(* However requests, worker threads and streams interleave, the state is   *)
(* well formed and no session ever holds two answers to one turn           *)
(* (_finalize_turn's guard).                                               *)
THEOREM ChatIsSafe == Spec => []ChatInv
<1>1. IInv => ChatInv
  <2> SUFFICES ASSUME IInv, NEW t \in Turns, NEW h \in Threads, session[h] # None
               PROVE  Cardinality({i \in DOMAIN session[h] : session[h][i] = Answer(t)}) <= 1
    BY DEF IInv, ChatInv, FinalizedOnce
  <2> DEFINE log == session[h]
             at == {i \in DOMAIN log : log[i] = Answer(t)}
  <2>1. \A i, j \in at : i = j
    BY DEF IInv, Logs, GoodLog, Answer
  <2>2. CASE at = {}
    BY <2>2, FS_EmptySet
  <2>3. CASE at # {}
    <3>1. \E i : at = {i}
      BY <2>1, <2>3
    <3> HIDE DEF at
    <3>2. PICK i : at = {i}
      BY <3>1
    <3>3. Cardinality({i}) = 1
      BY FS_Singleton
    <3>4. Cardinality(at) <= 1
      BY <3>2, <3>3
    <3> QED BY <3>4 DEF at, log
  <2> QED BY <2>2, <2>3
<1> QED BY <1>1, Invariant, PTL

(* How many different pieces an answer has.                                *)
LEMMA OfInjective ==
  ASSUME NEW s \in Seq(Pieces), Injective(s)
  PROVE  Len(s) = Cardinality(ToSet(s))
<1>1. Len(s) \in Nat /\ DOMAIN s = 1..Len(s) /\ s \in [1..Len(s) -> Pieces]
  BY LenProperties
<1>2. IsFiniteSet(1..Len(s)) /\ Cardinality(1..Len(s)) = Len(s)
  BY <1>1, FS_Interval
<1> DEFINE D == 1..Len(s)
<1>3. s \in [D -> ToSet(s)] /\ \A p \in ToSet(s) : \E i \in D : s[i] = p
  BY <1>1 DEF ToSet
<1>4. s \in Bijection(D, ToSet(s))
  BY <1>1, <1>3 DEF Injective, Bijection, Injection, Surjection, IsInjective
<1>5. IsFiniteSet(D) /\ ExistsBijection(D, ToSet(s))
  BY <1>2, <1>4 DEF ExistsBijection
<1> HIDE DEF D
<1>6. Cardinality(ToSet(s)) = Cardinality(D)
  BY <1>5, FS_Bijection
<1> QED BY <1>2, <1>6 DEF D

(* What _finalize_turn persists is the answer the graph produced, each     *)
(* message once, whatever was streamed, delivered or queued when.          *)
THEOREM WholeAnswerIsSaved == Spec => []WholeAnswer
<1>1. IInv => WholeAnswer
  <2> SUFFICES ASSUME IInv, NEW t \in Turns,
                      run[t].fin \in Persisting, ~run[t].failed, run[t].gone = run[t].sawGone
               PROVE  /\ ToSet(run[t].said) = IF run[t].made = 0 THEN {Fallback} ELSE 1..run[t].made
                      /\ Len(run[t].said) = Cardinality(ToSet(run[t].said))
    BY DEF WholeAnswer, Persisting
  <2> DEFINE s == run[t].said
             made == run[t].made
  <2>1. s \in Seq(Pieces) /\ s # <<>> /\ Complete(s, made)
    BY TurnOf DEF Run, TurnInv, SaidInv
  <2> HIDE DEF s, made
  <2>2. Len(s) = Cardinality(ToSet(s))
    BY <2>1, OfInjective DEF Complete
  <2>3. CASE made = 0
    <3>1. \A i \in DOMAIN s : s[i] = Fallback
      BY <2>1, <2>3 DEF Complete
    <3>2. 1 \in DOMAIN s
      <4>1. Len(s) \in Nat /\ Len(s) # 0 /\ DOMAIN s = 1..Len(s)
        BY <2>1, EmptySeq, LenProperties
      <4> QED BY <4>1
    <3> QED BY <2>2, <2>3, <3>1, <3>2 DEF ToSet, s, made
  <2>4. CASE made # 0
    <3>1. \A p : p \in ToSet(s) <=> p \in 1..made
      BY <2>1, <2>4 DEF Complete, Within, ToSet
    <3>2. ToSet(s) = 1..made
      BY <3>1
    <3> QED BY <2>2, <2>4, <3>2 DEF s, made
  <2> QED BY <2>3, <2>4
<1> QED BY <1>1, Invariant, PTL

(* A turn nobody else interfered with is persisted, or its save failed,    *)
(* when its stream closed or its worker knew that the client was gone.     *)
THEOREM AnswersAreKept == Spec => []AnswerKept
<1>1. IInv => AnswerKept
  <2> SUFFICES ASSUME IInv, NEW t \in Turns, Settled(t), ~run[t].failed, ~run[t].disturbed,
                      run[t].made > 0, run[t].gen = "closed" \/ run[t].sawGone
               PROVE  run[t].fin \in {"saved", "unsaved"}
    BY DEF AnswerKept
  <2> QED BY TurnOf DEF TurnInv, SaidInv, Settled
<1> QED BY <1>1, Invariant, PTL

(* No run can escape the stop button (_active_chat_runs).                  *)
THEOREM RunsAreStoppable == Spec => []EveryRunStoppable
<1>1. IInv => EveryRunStoppable
  BY DEF IInv
<1> QED BY <1>1, Invariant, PTL

(* The question filed with an undisturbed answer is the one it answers.    *)
THEOREM QuestionsAreOwn == Spec => []OwnQuestion
<1>1. IInv => OwnQuestion
  BY DEF IInv
<1> QED BY <1>1, Invariant, PTL
=============================================================================
