------------------------------- MODULE MemLeak -------------------------------
(***************************************************************************)
(* The memory leak detector, example/memleak.c: a file ./mem/<address>.mem for   *)
(* each block that was allocated and not yet freed.  The file has it three times, *)
(* to be chosen when it is compiled: as malloc and free that replace those of the *)
(* library ("wrapper"), as macros that call malloc_hook and free_hook ("macro"),   *)
(* and through __malloc_hook and __free_hook ("hook").  The hooks call malloc and  *)
(* free themselves, so the first and the last one switch tracing off meanwhile,    *)
(* for all threads.  calloc and realloc are not traced.                           *)
(***************************************************************************)
EXTENDS Naturals, FiniteSets

CONSTANTS Tracers, Ptrs, NULL

VARIABLES
  kind,
  live,        \* blocks in use
  files,       \* blocks with a file
  enable,      \* enable_malloc_hook and enable_free_hook (wrapper)
  hook,        \* what __malloc_hook and __free_hook are: "libc" or "trace" (hook)
  saved,       \* malloc_f and free_f (hook)
  thread,      \* [at, op, p] of each thread
  untraced,    \* auxiliary: the blocks that calloc and realloc returned
  raced,       \* auxiliary: a call was made while another thread was in a hook
  unlisted,    \* auxiliary: a pointer without a file was freed: twice, NULL, of calloc
  accused,     \* auxiliary: a free of a block in use was reported as a double free
  crash        \* "none", "double free" in the library, "stack" overflow
vars == <<kind, live, files, enable, hook, saved, thread, untraced, raced, unlisted,
          accused, crash>>

Idle == [at |-> "idle", op |-> "malloc", p |-> NULL]

\* The program calls mem_trace() first.
Init == /\ kind \in {"wrapper", "macro", "hook"}
        /\ live = {} /\ files = {} /\ untraced = {}
        /\ enable = [op \in {"malloc", "free"} |-> TRUE]
        /\ hook = "trace" /\ saved = "libc"
        /\ thread = [t \in Tracers |-> Idle]
        /\ raced = FALSE /\ unlisted = FALSE /\ accused = FALSE /\ crash = "none"

Traced(op) == CASE kind = "wrapper" -> enable[op]
                [] kind = "macro" -> TRUE
                [] kind = "hook" -> hook = "trace"
Busy(t) == thread[t].at # "idle"
Freeing(p) == \E t \in Tracers : Busy(t) /\ thread[t].op = "free" /\ thread[t].p = p

\* free in the library: a block that is not in use is a double free.
LibcFree(p) == /\ live' = live \ {p} /\ untraced' = untraced \ {p}
               /\ crash' = IF p \in live \union {NULL} THEN crash ELSE "double free"

-----------------------------------------------------------------------------
\* The program's calls: malloc and free test whether they are traced.
Enter(t, op, p) == thread' = [thread EXCEPT ![t] = [at |-> "enter", op |-> op, p |-> p]]
Race == raced' = (raced \/ \E u \in Tracers : Busy(u))
Malloc(t) ==
  /\ crash = "none" /\ ~Busy(t) /\ Race
  /\ \/ Traced("malloc") /\ Enter(t, "malloc", NULL) /\ UNCHANGED live
     \/ /\ ~Traced("malloc")
        /\ \E p \in Ptrs \ live : live' = live \union {p}
        /\ UNCHANGED thread
  /\ UNCHANGED <<kind, files, enable, hook, saved, untraced, unlisted, accused, crash>>
Calloc(t) ==
  /\ crash = "none" /\ ~Busy(t)
  /\ \E p \in Ptrs \ live : live' = live \union {p} /\ untraced' = untraced \union {p}
  /\ UNCHANGED <<kind, files, enable, hook, saved, thread, raced, unlisted, accused, crash>>
Free(t, p) ==
  /\ crash = "none" /\ ~Busy(t) /\ ~Freeing(p) /\ Race
  /\ unlisted' = (unlisted \/ p \notin live \ untraced)
  /\ \/ Traced("free") /\ Enter(t, "free", p) /\ UNCHANGED <<live, untraced, crash>>
     \/ ~Traced("free") /\ LibcFree(p) /\ UNCHANGED thread
  /\ UNCHANGED <<kind, files, enable, hook, saved, accused>>

\* enable_..._hook = 0, or mem_untrace.
SwitchOff(t) ==
  /\ crash = "none" /\ thread[t].at = "enter"
  /\ enable' = IF kind = "wrapper" THEN [enable EXCEPT ![thread[t].op] = FALSE] ELSE enable
  /\ hook' = IF kind = "hook" THEN saved ELSE hook
  /\ thread' = [thread EXCEPT ![t].at = "work"]
  /\ UNCHANGED <<kind, live, files, saved, untraced, raced, unlisted, accused, crash>>

\* The malloc in the hook goes through __malloc_hook again.  When another thread has
\* switched tracing on, it is traced too; when mem_untrace does not switch it off any
\* more, without end.
Nested == kind = "hook" /\ hook = "trace"
TraceMalloc(t) ==
  /\ crash = "none" /\ thread[t].at = "work" /\ thread[t].op = "malloc"
  /\ \/ /\ Nested /\ saved = "trace"
        /\ crash' = "stack"
        /\ UNCHANGED <<live, files, thread>>
     \/ /\ ~(Nested /\ saved = "trace")
        /\ \E p \in Ptrs \ live : live' = live \union {p} /\ files' = files \union {p}
        /\ thread' = [thread EXCEPT ![t].at = "leave"]
        /\ UNCHANGED crash
  /\ UNCHANGED <<kind, enable, hook, saved, untraced, raced, unlisted, accused>>

\* unlink the file, then free.  Without a file the block is reported: wrapper frees
\* it all the same, the others return, hook without switching tracing on again; so
\* does a free in the hook that is traced itself, whose file is gone by then.
TraceFree(t) ==
  LET p == thread[t].p
      nested == Nested /\ p \in files
  IN
  /\ crash = "none" /\ thread[t].at = "work" /\ thread[t].op = "free"
  /\ files' = files \ {p}
  /\ accused' = (accused \/ nested \/ (p \notin files /\ p \in live))
  /\ hook' = IF nested THEN saved ELSE hook
  /\ IF p \in files \/ kind = "wrapper"
     THEN /\ IF nested THEN UNCHANGED <<live, untraced, crash>> ELSE LibcFree(p)
          /\ thread' = [thread EXCEPT ![t].at = "leave"]
     ELSE /\ thread' = [thread EXCEPT ![t] = Idle]
          /\ UNCHANGED <<live, untraced, crash>>
  /\ UNCHANGED <<kind, enable, saved, raced, unlisted>>

\* enable_..._hook = 1, or mem_trace, which saves whatever hook it finds.
SwitchOn(t) ==
  /\ crash = "none" /\ thread[t].at = "leave"
  /\ enable' = IF kind = "wrapper" THEN [enable EXCEPT ![thread[t].op] = TRUE] ELSE enable
  /\ saved' = IF kind = "hook" THEN hook ELSE saved
  /\ hook' = "trace"
  /\ thread' = [thread EXCEPT ![t] = Idle]
  /\ UNCHANGED <<kind, live, files, untraced, raced, unlisted, accused, crash>>

Next == \E t \in Tracers :
          \/ Malloc(t) \/ Calloc(t) \/ \E p \in Ptrs \union {NULL} : Free(t, p)
          \/ SwitchOff(t) \/ TraceMalloc(t) \/ TraceFree(t) \/ SwitchOn(t)

-----------------------------------------------------------------------------
\* Type invariant.
TypeOK == /\ kind \in {"wrapper", "macro", "hook"}
          /\ live \subseteq Ptrs /\ files \subseteq Ptrs /\ untraced \subseteq live
          /\ enable \in [{"malloc", "free"} -> BOOLEAN]
          /\ hook \in {"libc", "trace"} /\ saved \in {"libc", "trace"}
          /\ \A t \in Tracers : /\ thread[t].at \in {"idle", "enter", "work", "leave"}
                                /\ thread[t].op \in {"malloc", "free"}
                                /\ thread[t].p \in Ptrs \union {NULL}
          /\ raced \in BOOLEAN /\ unlisted \in BOOLEAN /\ accused \in BOOLEAN
          /\ crash \in {"none", "double free", "stack"}

\* Whenever no call is running, there is a file for each block that malloc returned and
\* that was not freed, and nobody is accused who did not free an unlisted pointer.  The
\* macros keep it with any number of threads; the wrapper and the hooks, which
\* switch tracing off for all, with one; the hooks only until the first unlisted
\* pointer, NULL included, after which they trace nothing more.
FilesAreLeaks ==
  /\ (kind # "macro" => ~raced) /\ (kind = "hook" => ~unlisted) =>
       /\ (\A t \in Tracers : ~Busy(t)) /\ crash = "none" => files = live \ untraced
       /\ accused => unlisted
       /\ crash # "stack"
  /\ crash = "double free" => unlisted
=============================================================================
