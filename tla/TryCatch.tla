------------------------------ MODULE TryCatch ------------------------------
(***************************************************************************)
(* The Try, Catch, Finally and EndTry macros of example/trycatch_finally.c, on *)
(* setjmp and longjmp, for one thread: ExceptionStack is thread-specific data,  *)
(* so that each thread has a stack of its own.  The frame of a Try is a local    *)
(* variable: a Try at the same depth has its frame at the same place, so frames  *)
(* are named by their depth.  A program opens, throws and leaves as it likes, as *)
(* main and thread do.  Messages are left out.                                  *)
(***************************************************************************)
EXTENDS Naturals, Sequences, SequencesExt, FiniteSetsExt

CONSTANTS Exceptions, NoException,
          CatchLists,    \* sets of the exceptions that a Try has a Catch for
          MaxDepth

VARIABLES
  tries,           \* the Try statements being executed, outermost first
  ExceptionStack,  \* the innermost frame on the stack, 0 = NULL
  prevFrame,       \* frame.prev, by depth
  left,            \* auxiliary: the body of a Try was left by return or break
  skipped,         \* auxiliary: where statements were whose Finally never ran
  missed,          \* auxiliary: an exception was reported although a Catch was there
  astray           \* longjmp to a frame that is gone: undefined
vars == <<tries, ExceptionStack, prevFrame, left, skipped, missed, astray>>
aux == <<left, skipped, missed, astray>>

Init == /\ tries = <<>> /\ ExceptionStack = 0
        /\ prevFrame = [d \in 1..MaxDepth |-> 0]
        /\ left = FALSE /\ skipped = {} /\ missed = FALSE /\ astray = FALSE

top == Last(tries)
At(step) == tries # <<>> /\ ~astray /\ top.at = step
InBlock == ~astray /\ (tries # <<>> => top.at \in {"body", "catch", "finally"})

Try(catches, finally) ==
  /\ InBlock /\ Len(tries) < MaxDepth
  /\ prevFrame' = [prevFrame EXCEPT ![Len(tries) + 1] = ExceptionStack]
  /\ ExceptionStack' = Len(tries) + 1
  /\ tries' = Append(tries, [catches |-> catches, finally |-> finally, at |-> "body",
                             flag |-> "entered", exception |-> NoException, due |-> 0])
  /\ UNCHANGED aux

\* What follows a body or a Catch.
After(t) == IF t.finally THEN "finally" ELSE "end"

\* Without an exception the first macro after the body pops the frame.
EndBody == /\ At("body")
           /\ ExceptionStack' = prevFrame[ExceptionStack]
           /\ tries' = [tries EXCEPT ![Len(tries)].at = After(top),
                                     ![Len(tries)].flag = "finalized"]
           /\ UNCHANGED <<prevFrame, aux>>

EndCatch == /\ At("catch")
            /\ tries' = [tries EXCEPT ![Len(tries)].at = After(top)]
            /\ UNCHANGED <<ExceptionStack, prevFrame, aux>>
EndFinally == /\ At("finally")
              /\ tries' = [tries EXCEPT ![Len(tries)].at = "end"]
              /\ UNCHANGED <<ExceptionStack, prevFrame, aux>>

-----------------------------------------------------------------------------
\* ntyExceptionThrow: fill in the innermost frame, pop it and jump to its setjmp;
\* without a frame, report the exception and return.
Landed(t, e, due) ==
  [t EXCEPT !.exception = e, !.due = due,
            !.flag = IF e \in t.catches THEN "handled" ELSE "thrown",
            !.at = IF e \in t.catches THEN "catch" ELSE After(t)]

ntyExceptionThrow(e, due, return) ==
  LET f == ExceptionStack IN
  \/ /\ f = 0
     /\ tries' = return /\ missed' = (missed \/ due # 0)
     /\ UNCHANGED <<ExceptionStack, prevFrame, left, skipped, astray>>
  \/ /\ f \in 1..Len(tries)
     /\ ExceptionStack' = prevFrame[f]
     /\ tries' = Append(SubSeq(tries, 1, f - 1), Landed(tries[f], e, due))
     /\ skipped' = skipped \union {tries[i].at : i \in {j \in f + 1..Len(tries) :
                                     tries[j].finally /\ tries[j].at \in {"body", "catch"}}}
     /\ UNCHANGED <<prevFrame, left, missed, astray>>
  \/ /\ f > Len(tries)
     /\ astray' = TRUE
     /\ UNCHANGED <<tries, ExceptionStack, prevFrame, left, skipped, missed>>

\* What a reader of the macros expects: the innermost Catch around the statement.
Due(e) == LET around == {i \in DOMAIN tries : tries[i].at = "body" /\ e \in tries[i].catches}
          IN IF around = {} THEN 0 ELSE Max(around)

Throw(e) == InBlock /\ ntyExceptionThrow(e, Due(e), tries)

\* EndTry throws again what no Catch has taken.
EndTry == /\ At("end") /\ top.flag # "thrown"
          /\ tries' = Front(tries)
          /\ UNCHANGED <<ExceptionStack, prevFrame, aux>>
ReThrow == /\ At("end") /\ top.flag = "thrown"
           /\ ntyExceptionThrow(top.exception, top.due, Front(tries))

\* return, or a break out of the do-while of the macros.
Leave == /\ InBlock /\ tries # <<>>
         /\ tries' = Front(tries)
         /\ left' = (left \/ top.at = "body")
         /\ skipped' = IF top.finally /\ top.at # "finally" THEN skipped \union {top.at}
                       ELSE skipped
         /\ UNCHANGED <<ExceptionStack, prevFrame, missed, astray>>

Next == \/ \E catches \in CatchLists, finally \in BOOLEAN : Try(catches, finally)
        \/ EndBody \/ EndCatch \/ EndFinally \/ EndTry \/ ReThrow \/ Leave
        \/ \E e \in Exceptions : Throw(e)

-----------------------------------------------------------------------------
\* Type invariant.
TypeOK == /\ Len(tries) <= MaxDepth
          /\ \A i \in DOMAIN tries :
               /\ tries[i].at \in {"body", "catch", "finally", "end"}
               /\ tries[i].flag \in {"entered", "thrown", "handled", "finalized"}
               /\ tries[i].exception \in Exceptions \union {NoException}
               /\ tries[i].due \in 0..MaxDepth
          /\ ExceptionStack \in 0..MaxDepth /\ prevFrame \in [1..MaxDepth -> 0..MaxDepth]
          /\ left \in BOOLEAN /\ missed \in BOOLEAN /\ astray \in BOOLEAN
          /\ skipped \subseteq {"body", "catch"}

\* An exception runs the innermost Catch around it, however deep, and is reported only
\* when there is none; the frames on the stack are those of the bodies being executed.
\* (Unless a body was left without its EndTry: its frame then stays on the stack.)
CaughtByInnermost ==
  LET bodies == {i \in DOMAIN tries : tries[i].at = "body"} IN
  ~left =>
    /\ \A i \in DOMAIN tries : tries[i].at = "catch" => tries[i].due = i
    /\ \A i \in DOMAIN tries : tries[i].flag = "thrown" => tries[i].due # i
    /\ ~missed /\ ~astray
    /\ ExceptionStack = (IF bodies = {} THEN 0 ELSE Max(bodies))
    /\ \A i \in bodies : prevFrame[i] = (IF bodies \intersect 1..i - 1 = {} THEN 0
                                         ELSE Max(bodies \intersect 1..i - 1))

\* Every Finally runs, except when its statement's own Catch throws or is left.
FinallyRuns == ~left => skipped \subseteq {"catch"}
=============================================================================
