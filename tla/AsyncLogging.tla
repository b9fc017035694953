----------------------------- MODULE AsyncLogging -----------------------------
(***************************************************************************)
(* The double-buffered log of muduo_log: threads append lines to the current  *)
(* buffer under mutex_, and a backend thread (threadFunc) swaps the filled    *)
(* buffers out under the same mutex and writes them to the file without it.    *)
(* A buffer is the sequence of its lines and lines are numbered in the order   *)
(* in which append took them; NULL is a buffer that was moved from.  What the  *)
(* mutex protects is one action.  running_ is written and read without it.     *)
(***************************************************************************)
EXTENDS Naturals, Sequences, SequencesExt

CONSTANTS
  Capacity,     \* lines in a buffer
  MaxQueued,    \* buffers the backend accepts at a time (25 in the code)
  MaxLines      \* lines that are appended

NULL == <<0>>   \* no line has number 0
Empty == <<>>

VARIABLES
  currentBuffer_, nextBuffer_, buffers_,       \* under mutex_
  newBuffer1, newBuffer2, buffersToWrite,      \* the backend's
  running_,
  backend,    \* "check", "lock", "wait", "take", "write" or "ended"
  stopper,    \* the thread that calls stop: "running", "notify", "join" or "stopped"
  file,       \* the lines written
  lines,      \* lines appended so far
  dropped     \* history: lines of the buffers that were dropped

front == <<currentBuffer_, nextBuffer_, buffers_, lines>>
back == <<newBuffer1, newBuffer2, buffersToWrite, file, dropped>>
vars == <<front, back, running_, backend, stopper>>

\* start has returned: the backend has counted the latch down.
Init == /\ currentBuffer_ = Empty /\ nextBuffer_ = Empty /\ buffers_ = <<>>
        /\ newBuffer1 = Empty /\ newBuffer2 = Empty /\ buffersToWrite = <<>>
        /\ running_ = TRUE /\ backend = "check" /\ stopper = "running"
        /\ file = <<>> /\ lines = 0 /\ dropped = {}

\* cond_.notify: the backend, if it waits, goes on.
Notify == backend' = IF backend = "wait" THEN "take" ELSE backend

\* append
append ==
  /\ lines < MaxLines
  /\ lines' = lines + 1
  /\ IF Len(currentBuffer_) < Capacity
     THEN /\ currentBuffer_' = Append(currentBuffer_, lines')
          /\ UNCHANGED <<buffers_, nextBuffer_, backend>>
     ELSE /\ buffers_' = Append(buffers_, currentBuffer_)
          /\ currentBuffer_' = IF nextBuffer_ # NULL THEN Append(nextBuffer_, lines')
                                                    ELSE <<lines'>>
          /\ nextBuffer_' = NULL
          /\ Notify
  /\ UNCHANGED <<back, running_, stopper>>

\* stop: running_ is cleared and the backend notified without the mutex, so the
\* notification may come before the wait.
Stop == \/ /\ stopper = "running"
           /\ running_' = FALSE /\ stopper' = "notify"
           /\ UNCHANGED <<front, back, backend>>
        \/ /\ stopper = "notify" /\ stopper' = "join"
           /\ Notify
           /\ UNCHANGED <<front, back, running_>>
        \/ /\ stopper = "join" /\ backend = "ended" /\ stopper' = "stopped"
           /\ UNCHANGED <<front, back, running_, backend>>

-----------------------------------------------------------------------------
Check == /\ backend = "check"
         /\ backend' = IF running_ THEN "lock" ELSE "ended"
         /\ UNCHANGED <<front, back, running_, stopper>>

Lock == /\ backend = "lock"
        /\ backend' = IF buffers_ = <<>> THEN "wait" ELSE "take"
        /\ UNCHANGED <<front, back, running_, stopper>>

\* Mutant: woken with nothing queued, the backend waits again.
TimeoutAgain == /\ backend = "wait" /\ backend' = "lock"
                /\ UNCHANGED <<front, back, running_, stopper>>

\* flushInterval_ is over, or a spurious wakeup.
Timeout == /\ backend = "wait" /\ backend' = "take"
           /\ UNCHANGED <<front, back, running_, stopper>>

\* Mutant: the buffers are swapped before the current one is queued.
TakeQueued == /\ backend = "take" /\ backend' = "write"
              /\ buffersToWrite' = buffers_ /\ buffers_' = <<currentBuffer_>>
              /\ currentBuffer_' = newBuffer1 /\ newBuffer1' = NULL
              /\ IF nextBuffer_ = NULL
                 THEN nextBuffer_' = newBuffer2 /\ newBuffer2' = NULL
                 ELSE UNCHANGED <<nextBuffer_, newBuffer2>>
              /\ UNCHANGED <<lines, file, dropped, running_, stopper>>

\* The end of the critical section: the current buffer is taken with the queued
\* ones, and the spare buffers replace what was used up.
Take == /\ backend = "take" /\ backend' = "write"
        /\ buffersToWrite' = Append(buffers_, currentBuffer_) /\ buffers_' = <<>>
        /\ currentBuffer_' = newBuffer1 /\ newBuffer1' = NULL
        /\ IF nextBuffer_ = NULL
           THEN nextBuffer_' = newBuffer2 /\ newBuffer2' = NULL
           ELSE UNCHANGED <<nextBuffer_, newBuffer2>>
        /\ UNCHANGED <<lines, file, dropped, running_, stopper>>

Lines(bufs) == FlattenSeq(bufs)

\* Mutant: a buffer that is used again is not reset.
ReusedDirty(bufs) == bufs[Len(bufs)]

\* A buffer of those just written becomes a spare one (moved out and reset).
Reused(bufs) == IF bufs = <<>> THEN NULL ELSE Empty

\* Without the mutex: too many buffers are dropped except for two, the rest is
\* written, and the spare buffers are won back.
Write ==
  /\ backend = "write" /\ backend' = "check"
  /\ LET kept == IF Len(buffersToWrite) > MaxQueued THEN SubSeq(buffersToWrite, 1, 2)
                                                    ELSE buffersToWrite
         reuse == IF Len(kept) > 2 THEN SubSeq(kept, 1, 2) ELSE kept
     IN /\ file' = file \o Lines(kept)
        /\ dropped' = dropped \union
             (ToSet(Lines(buffersToWrite)) \ ToSet(Lines(kept)))
        /\ newBuffer1' = IF newBuffer1 = NULL THEN Reused(reuse) ELSE newBuffer1
        /\ newBuffer2' = IF newBuffer2 = NULL
                         THEN Reused(IF newBuffer1 = NULL THEN SubSeq(reuse, 1, Len(reuse) - 1)
                                                          ELSE reuse)
                         ELSE newBuffer2
  /\ buffersToWrite' = <<>>
  /\ UNCHANGED <<front, running_, stopper>>

Backend == Check \/ Lock \/ Timeout \/ Take \/ Write

Next == append \/ Stop \/ Backend

Spec == Init /\ [][Next]_vars
FairSpec == Spec /\ WF_vars(Backend) /\ WF_vars(Stop /\ stopper # "running")

-----------------------------------------------------------------------------
Buffer == Seq(1..MaxLines) \union {NULL}

TypeOK ==
  /\ {currentBuffer_, nextBuffer_, newBuffer1, newBuffer2} \subseteq Buffer
  /\ buffers_ \in Seq(Buffer) /\ buffersToWrite \in Seq(Buffer)
  /\ running_ \in BOOLEAN /\ lines \in 0..MaxLines
  /\ backend \in {"check", "lock", "wait", "take", "write", "ended"}
  /\ stopper \in {"running", "notify", "join", "stopped"}
  /\ file \in Seq(1..MaxLines) /\ dropped \subseteq 1..MaxLines

\* Every line appended is in exactly one place, in the order of the calls: in the
\* file, in a buffer on its way there, or in a buffer that was dropped because
\* more than MaxQueued had piled up (append, threadFunc).
Log == file \o Lines(buffersToWrite) \o Lines(buffers_) \o currentBuffer_
EveryLineOnce == /\ ToSet(Log) = 1..lines \ dropped
                 /\ \A i, j \in DOMAIN Log : i < j => Log[i] < Log[j]

\* The backend begins each round with two empty spare buffers and none left to
\* write, and the appenders never find their current buffer moved away (the
\* assertions of threadFunc), however many buffers were filled, dropped or
\* allocated in the rounds before.
SparesReady ==
  /\ backend \in {"check", "lock", "wait", "take"} =>
       newBuffer1 = Empty /\ newBuffer2 = Empty /\ buffersToWrite = <<>>
  /\ currentBuffer_ # NULL
  /\ nextBuffer_ \in {Empty, NULL}

\* A line does not stay in memory for ever, not even in a buffer that never fills
\* up: it is written or dropped, unless the log is stopped.
\* (Appends come to an end in a run.)
AllLeft == ToSet(file) \union dropped = 1..lines
LinesLeave == []<>(AllLeft \/ ~running_)

\* stop returns.
Stopping == stopper \in {"notify", "join"}
StopEnds == []<>~Stopping
=============================================================================
