----------------------- MODULE ArrayLockFreeQueueAnswers -----------------------
(***************************************************************************)
(* What the answer FALSE of enqueue and of dequeue tells the caller.  The   *)
(* ring of ArrayLockFreeQueue is extended with a history variable that       *)
(* records, for every call in progress, what was true at some moment of the  *)
(* call; no step of the ring depends on it.                                  *)
(***************************************************************************)
EXTENDS ArrayLockFreeQueue

VARIABLE witnessed   \* per thread: what held at a moment of its current call

answerVars == <<vars, witnessed>>

Facts == {"full", "empty", "reserved by another", "taken by another"}

\* The queue holds as many elements as it can (its producers see no free slot).
Full == m_writeIndex = m_readIndex + Q_SIZE - 1

\* There is no committed element.
Empty == m_readIndex = m_maximumReadIndex

\* What a thread inside a call can witness in the step it or another one takes.
Seen(t) ==
  {f \in Facts :
     \/ f = "full" /\ (Full \/ Full')
     \/ f = "empty" /\ (Empty \/ Empty')
     \/ f = "reserved by another" /\ m_writeIndex' # m_writeIndex /\ pc'[t] = pc[t]
     \/ f = "taken by another" /\ m_readIndex' # m_readIndex /\ pc'[t] = pc[t]}

Record ==
  witnessed' = [t \in Threads |->
                  IF pc'[t] = "idle" THEN {}
                  ELSE witnessed[t] \union Seen(t)]

AnswersInit == Init /\ witnessed = [t \in Threads |-> {}]

AnswersNext == Next /\ Record

AnswersSpec == AnswersInit /\ [][AnswersNext]_answerVars

FairAnswersSpec == /\ AnswersSpec
                   /\ \A p \in Producers : WF_answerVars(InsideEnqueue(p) /\ Record)
                   /\ \A c \in Consumers : WF_answerVars(DequeueStep(c) /\ Record)

-----------------------------------------------------------------------------
\* enqueue returns FALSE ("the queue is already full", line 52) only if the queue
\* was full at some moment of the call.
FullAnswerTrue ==
  \A p \in Producers : pc[p] = "enqFull" => "full" \in witnessed[p]

\* The weaker promise that holds with any number of producers: a refused
\* enqueue found the queue full, or lost its place to another producer that
\* reserved a slot between the two loads of the call.
FullAnswerExcused ==
  \A p \in Producers : pc[p] = "enqFull" =>
    witnessed[p] \intersect {"full", "reserved by another"} # {}

\* A dequeue that returns FALSE found no committed element, or another consumer
\* took one during the call.
EmptyAnswerExcused ==
  \A c \in Consumers : pc[c] = "deqEmpty" =>
    witnessed[c] \intersect {"empty", "taken by another"} # {}

\* Both answers are excused.
AnswersExcused == FullAnswerExcused /\ EmptyAnswerExcused
=============================================================================
