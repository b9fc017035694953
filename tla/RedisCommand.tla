----------------------------- MODULE RedisCommand -----------------------------
(***************************************************************************)
(* How a Redis client writes a command (redis_pool/hiredis.c): a printf-like   *)
(* format, or an argument vector, becomes a multi-bulk request at the end of    *)
(* the output buffer.  A byte is a string of one character, "NUL" for 0.  A      *)
(* format is put together from Pieces, each with the text it has in the format,  *)
(* the argument it takes (ap) and the text that should come out of it; what       *)
(* printf makes of a number is its argument.  Out-of-memory paths are left out.    *)
(***************************************************************************)
EXTENDS Integers, Sequences, SequencesExt

CONSTANTS
  Pieces,        \* [text, ap, out, sort]: sort is one of Sorts below
  MaxPieces,     \* bound: pieces of a format
  Argvs,         \* argument vectors of redisAppendCommandArgv, each [argv, argvlen]
  MaxCommands,   \* bound: commands in the output buffer
  FormatRoom,    \* sizeof(_format) - 2
  Radix          \* lengths whose digits are counted

VARIABLES obuf,  \* output buffer of the context
          err,   \* "" or the error of the context
          asked, \* the commands appended, each a sequence of pieces or of texts
          past   \* a format was read beyond its end

vars == <<obuf, err, asked, past>>

\* An ordinary piece; a separator; what is no conversion; a conversion that is longer
\* than FormatRoom; and one that ends with the format.
Sorts == {"plain", "space", "bad", "long", "cut"}

-----------------------------------------------------------------------------
Digit == {"0", "1", "2", "3", "4", "5", "6", "7", "8", "9"}
Flag == {"#", "0", "-", "+", " "}
IntFmts == {"d", "i", "o", "u", "x", "X"}
DoubleFmts == {"e", "E", "f", "F", "g", "G", "a", "A"}

At(format, c) == IF c > Len(format) THEN "NUL" ELSE format[c]
Beyond(format, c, S) ==
  CHOOSE q \in c..Len(format) + 1 : At(format, q) \notin S /\ \A k \in c..q - 1 : format[k] \in S

\* The conversion that starts at format[c] = "%": its last byte, and whether it is one.
\* strchr finds the end of the format among the conversions that have no modifier.
Conversion(format, c) ==
  LET width == Beyond(format, Beyond(format, c + 1, Flag), Digit)
      size == IF At(format, width) = "." THEN Beyond(format, width + 1, Digit) ELSE width
      modifier == CHOOSE n \in 0..2 :
                    IF At(format, size) \notin {"h", "l"} THEN n = 0
                    ELSE n = IF At(format, size + 1) = At(format, size) THEN 2 ELSE 1
      last == At(format, size + modifier)
  IN [end |-> size + modifier,
      valid |-> last \in IntFmts \/ (modifier = 0 /\ last \in DoubleFmts \union {"NUL"})]

\* The state of redisvFormatCommand's loop at byte c of the format.
Start(ap) == [c |-> 1, ap |-> ap, curarg |-> <<>>, touched |-> FALSE, argv |-> <<>>, end |-> "no"]
Closed(s) == IF s.touched THEN [s EXCEPT !.argv = Append(@, s.curarg), !.curarg = <<>>, !.touched = FALSE]
             ELSE s
Added(s, text, used, c) ==
  [s EXCEPT !.curarg = @ \o text, !.touched = TRUE, !.c = c,
            !.ap = IF used THEN Tail(@) ELSE @]
Literal(format, s) ==
  IF format[s.c] = " " THEN [Closed(s) EXCEPT !.c = @ + 1]
  ELSE Added(s, <<format[s.c]>>, FALSE, s.c + 1)
Converted(format, s) ==
  LET r == Conversion(format, s.c) IN
  CASE ~r.valid -> [s EXCEPT !.end = "format_err"]
    [] r.valid /\ r.end + 1 - s.c >= FormatRoom -> Added(s, <<>>, TRUE, s.c + 2)
    [] r.valid /\ r.end + 1 - s.c < FormatRoom /\ r.end > Len(format) -> [s EXCEPT !.end = "past"]
    [] OTHER -> Added(s, Head(s.ap), TRUE, r.end + 1)
FormatStep(format, s) ==
  IF format[s.c] # "%" \/ s.c = Len(format) THEN Literal(format, s)
  ELSE CASE format[s.c + 1] \in {"s", "b"} -> Added(s, Head(s.ap), TRUE, s.c + 2)
         [] format[s.c + 1] = "%" -> Added(s, <<"%">>, FALSE, s.c + 2)
         [] OTHER -> Converted(format, s)

RECURSIVE Formatted(_, _)
Formatted(format, s) == IF s.end # "no" \/ s.c > Len(format) THEN Closed(s)
                        ELSE Formatted(format, FormatStep(format, s))

-----------------------------------------------------------------------------
RECURSIVE countDigits(_)
countDigits(v) == CASE v < 10 -> 1 [] v >= 10 /\ v < 100 -> 2 [] v >= 100 /\ v < 1000 -> 3
                    [] v >= 1000 /\ v < 10000 -> 4 [] OTHER -> 4 + countDigits(v \div 10000)
bulklen(len) == 1 + countDigits(len) + 2 + len + 2
totlen(argv) == FoldLeft(LAMBDA n, arg : n + bulklen(Len(arg)), 1 + countDigits(Len(argv)) + 2, argv)

RECURSIVE Decimal(_)
Decimal(v) == (IF v < 10 THEN <<>> ELSE Decimal(v \div 10)) \o <<ToString(v % 10)>>
CRLF == <<"CR", "LF">>
\* The request at protocol level, as the three functions write it.
Request(argv) ==
  FoldLeft(LAMBDA cmd, arg : cmd \o <<"$">> \o Decimal(Len(arg)) \o CRLF \o arg \o CRLF,
           <<"*">> \o Decimal(Len(argv)) \o CRLF, argv)

\* What a formatter returns: the request and its length, or an error.
redisvFormatCommand(format, ap) ==
  LET s == Formatted(format, Start(ap)) IN
  CASE s.end = "past" -> [len |-> 0, cmd |-> <<>>, past |-> TRUE]
    [] s.end = "format_err" -> [len |-> -2, cmd |-> <<>>, past |-> FALSE]
    [] OTHER -> [len |-> totlen(s.argv), cmd |-> Request(s.argv), past |-> FALSE]
strlen(t) == IF "NUL" \in ToSet(t) THEN SelectInSeq(t, LAMBDA x : x = "NUL") - 1 ELSE Len(t)
\* The lengths of a vector without argvlen are those of strlen.
Texts(argv, argvlen) == [j \in DOMAIN argv |-> IF argvlen THEN argv[j] ELSE SubSeq(argv[j], 1, strlen(argv[j]))]
redisFormatCommandArgv(argv, argvlen) ==
  [len |-> totlen(Texts(argv, argvlen)), cmd |-> Request(Texts(argv, argvlen))]

-----------------------------------------------------------------------------
Init == obuf = <<>> /\ err = "" /\ asked = <<>> /\ past = FALSE

\* redisCommand and redisAppendCommand with a format.  (A blocking context would go on
\* to wait for the reply: that is module CacheConn.)
redisvAppendCommand(pieces) ==
  LET r == redisvFormatCommand(FlattenSeq([i \in DOMAIN pieces |-> pieces[i].text]),
                               FlattenSeq([i \in DOMAIN pieces |-> pieces[i].ap]))
  IN /\ past' = r.past
     /\ IF r.len = -2 THEN err' = "Invalid format string" /\ UNCHANGED <<obuf, asked>>
        ELSE /\ UNCHANGED err
             /\ obuf' = obuf \o SubSeq(r.cmd, 1, r.len)
             /\ asked' = Append(asked, pieces)

redisAppendCommandArgv(a) ==
  LET r == redisFormatCommandArgv(a.argv, a.argvlen)
  IN /\ obuf' = obuf \o SubSeq(r.cmd, 1, r.len)
     /\ asked' = Append(asked, <<a>>)
     /\ UNCHANGED <<err, past>>

\* A lone "%" and a conversion without an end are only the last of their format.
Formats == {f \in SeqOf(Pieces, MaxPieces) :
              \A i \in DOMAIN f : (f[i].sort = "cut" \/ f[i].text = <<"%">>) => i = Len(f)}

Next == /\ ~past /\ Len(asked) < MaxCommands /\ err = ""
        /\ \/ asked = <<>> /\ \E f \in Formats : redisvAppendCommand(f)
           \/ \E a \in Argvs : redisAppendCommandArgv(a)

Spec == Init /\ [][Next]_vars

-----------------------------------------------------------------------------
\* The context has one error or none, and the buffer at most MaxCommands commands.
TypeOK == /\ err \in {"", "Invalid format string"} /\ past \in BOOLEAN
          /\ Len(asked) <= MaxCommands

\* The server reads a request: the arguments, and what follows them.
Number(t, i) == SelectInSubSeq(t, i, Len(t), LAMBDA x : x = "CR")
RECURSIVE ValueOf(_)
ValueOf(t) == IF t = <<>> THEN 0
              ELSE ValueOf(Front(t)) * 10 + (CHOOSE d \in 0..9 : ToString(d) = Last(t))
RECURSIVE Bulks(_, _, _)
Bulks(t, i, n) ==
  IF n = 0 THEN [args |-> <<>>, at |-> i]
  ELSE LET cr == Number(t, i + 1)
           len == ValueOf(SubSeq(t, i + 1, cr - 1))
           rest == Bulks(t, cr + 4 + len, n - 1)
       IN [args |-> <<SubSeq(t, cr + 2, cr + 1 + len)>> \o rest.args, at |-> rest.at]
RECURSIVE Requests(_, _)
Requests(t, i) ==
  IF i > Len(t) THEN <<>>
  ELSE LET cr == Number(t, i + 1)
           r == Bulks(t, cr + 2, ValueOf(SubSeq(t, i + 1, cr - 1)))
       IN <<r.args>> \o Requests(t, r.at)

\* The arguments a list of pieces stands for: a literal blank separates, a blank of an
\* argument does not, and an argument may be empty.
RECURSIVE Meant(_)
Meant(pieces) ==
  LET i == SelectInSeq(pieces, LAMBDA x : x.sort = "space")
      first == IF i = 0 THEN pieces ELSE SubSeq(pieces, 1, i - 1)
      args == IF first = <<>> THEN <<>> ELSE <<FlattenSeq([k \in DOMAIN first |-> first[k].out])>>
  IN IF i = 0 THEN args ELSE args \o Meant(SubSeq(pieces, i + 1, Len(pieces)))
FromArgv(cmd) == Len(cmd) = 1 /\ "argv" \in DOMAIN cmd[1]
Expected(cmd) == IF FromArgv(cmd) THEN Texts(cmd[1].argv, cmd[1].argvlen) ELSE Meant(cmd)

\* The server reads from the output buffer the commands that were asked for, one by
\* one, with their arguments, unless a conversion is too long for the function's buffer;
\* a format with what is no conversion is refused.
CommandsArrive ==
  ~past => LET got == Requests(obuf, 1) IN
           /\ Len(got) = Len(asked)
           /\ \A i \in DOMAIN asked :
                (FromArgv(asked[i]) \/ \A k \in DOMAIN asked[i] : asked[i][k].sort # "long")
                  => got[i] = Expected(asked[i])
           /\ \A i \in DOMAIN asked : FromArgv(asked[i]) \/ \A k \in DOMAIN asked[i] : asked[i][k].sort # "bad"
\* The digits are counted as they are printed: pos = totlen, the functions' assertion.
DigitsCounted == \A v \in Radix : countDigits(v) = Len(Decimal(v))
\* Only a conversion that is cut off by the end of its format is read beyond it.
ReadWithin == past => \E i \in DOMAIN asked : asked[i] # <<>> /\ Last(asked[i]).sort = "cut"
=============================================================================
