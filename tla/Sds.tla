---------------------------------- MODULE Sds ----------------------------------
(***************************************************************************)
(* The dynamic strings of hiredis (redis_pool/sds.c): a string in a buffer,    *)
(* behind a header whose type gives the width of its length and allocation     *)
(* fields.  The smallest type keeps its length in the flags byte, and no       *)
(* allocation.  The widths and SDS_MAX_PREALLOC are parameters, so that small  *)
(* strings pass through all the types; the fields wrap as in C.              *)
(***************************************************************************)
EXTENDS Integers, Sequences
LOCAL INSTANCE SequencesExt

CONSTANTS
  Width,              \* type 5, 8 and 16 -> bits of the length field; type 32 has all it needs
  SDS_MAX_PREALLOC,
  Pieces,             \* the strings that the program appends
  Indices,            \* the indices it gives to sdsrange
  MaxLen              \* bound on the length

NUL == 0
GARBAGE == -1
PLAIN == 7
Types == {5, 8, 16, 32}

VARIABLES
  s,          \* the header and the buffer: [type, len, alloc, buf], and
              \* the size that was allocated
  text,       \* history: the string that the program means s to hold
  asserted    \* history: the types and numbers with which sdsIncrLen has
              \* failed its assertion

vars == <<s, text, asserted>>

\* The values of a field of the type.
Field(type, n) == IF type = 32 THEN n ELSE n % 2^Width[type]

sdsReqType(size) ==
  IF size < 2^Width[5] THEN 5
  ELSE IF size < 2^Width[8] - 1 THEN 8
  ELSE IF size < 2^Width[16] - 1 THEN 16
  ELSE 32

sdslen(x) == x.len
sdsalloc(x) == IF x.type = 5 THEN x.len ELSE x.alloc
sdsavail(x) == IF x.type = 5 THEN 0 ELSE x.alloc - x.len
sdssetlen(x, n) == [x EXCEPT !.len = Field(x.type, n)]
sdssetalloc(x, n) == IF x.type = 5 THEN x ELSE [x EXCEPT !.alloc = Field(x.type, n)]

Filled(n, c) == [i \in 1..n |-> c]
Content(x) == SubSeq(x.buf, 1, x.len)
\* memcpy of t to the position i, counted from 0, and s[i] = 0
Write(x, i, t) == [x EXCEPT !.buf = SubSeq(@, 1, i) \o t \o SubSeq(@, i + Len(t) + 1, Len(@))]
\* The bytes behind the terminator stay, as rubbish.
Terminated(x, i) ==
  [x EXCEPT !.buf = [k \in DOMAIN @ |-> IF k <= i THEN @[k] ELSE IF k = i + 1 THEN NUL ELSE GARBAGE]]
\* A buffer for n bytes and the terminator behind a header of the type.
Buffer(type, n, t) ==
  sdssetalloc([type |-> type, len |-> Field(type, Len(t)), alloc |-> 0, size |-> n,
               buf |-> t \o <<NUL>> \o Filled(n - Len(t), GARBAGE)], n)

sdsnewlen(t) ==
  LET type == IF Len(t) = 0 THEN 8 ELSE sdsReqType(Len(t)) IN Buffer(type, Len(t), t)

sdsMakeRoomFor(x, addlen) ==
  IF sdsavail(x) >= addlen THEN x
  ELSE LET need == sdslen(x) + addlen
           newlen == IF need < SDS_MAX_PREALLOC THEN need * 2 ELSE need + SDS_MAX_PREALLOC
           type == IF sdsReqType(newlen) = 5 THEN 8 ELSE sdsReqType(newlen)
       IN Buffer(type, newlen, Content(x))

sdscatlen(x, t) ==
  LET room == sdsMakeRoomFor(x, Len(t))
      i == sdslen(x)
  IN sdssetlen(Terminated(Write(room, i, t), i + Len(t)), i + Len(t))

sdscpylen(x, t) ==
  LET room == IF sdsalloc(x) < Len(t) THEN sdsMakeRoomFor(x, Len(t) - sdslen(x)) ELSE x
  IN sdssetlen(Terminated(Write(room, 0, t), Len(t)), Len(t))

sdsgrowzero(x, n) ==
  IF n <= sdslen(x) THEN x
  ELSE LET room == sdsMakeRoomFor(x, n - sdslen(x))
       IN sdssetlen(Terminated(Write(room, sdslen(x), Filled(n - sdslen(x), NUL)), n), n)

\* sdscatfmt puts its pieces one by one: before each of them there is room for one
\* byte, which a literal relies on; an argument makes room for itself.
Put(x, piece) ==
  LET n == Len(piece.t)
      one == IF sdsavail(x) = 0 THEN sdsMakeRoomFor(x, 1) ELSE x
      room == IF piece.arg /\ sdsavail(one) < n THEN sdsMakeRoomFor(one, n) ELSE one
  IN sdssetlen(Write(room, sdslen(x), piece.t), sdslen(room) + n)
Argument(t) == [arg |-> TRUE, t |-> t]
Literal(c) == [arg |-> FALSE, t |-> <<c>>]
sdscatfmt(x, ts) == LET r == FoldLeft(Put, x, ts) IN Terminated(r, sdslen(r))

\* The first position from which all bytes are trimmed, and the last one before.
sdstrim(x, cset) ==
  LET kept == {i \in 1..sdslen(x) : x.buf[i] \notin cset \union {NUL}}
      sp == CHOOSE i \in kept : \A j \in kept : i <= j
      ep == CHOOSE i \in kept : \A j \in kept : j <= i
      t == IF kept = {} THEN <<>> ELSE SubSeq(x.buf, sp, ep)
  IN sdssetlen(Terminated(Write(x, 0, t), Len(t)), Len(t))

Clamp(i, n) == IF i >= 0 THEN i ELSE IF n + i < 0 THEN 0 ELSE n + i
sdsrange(x, from, to) ==
  LET n == sdslen(x)
      start == Clamp(from, n)
      end == IF Clamp(to, n) >= n THEN n - 1 ELSE Clamp(to, n)
      newlen == IF start > end THEN 0 ELSE end - start + 1
  IN IF n = 0 THEN x
     ELSE sdssetlen(Terminated(Write(x, 0, SubSeq(x.buf, start + 1, start + newlen)), newlen),
                    newlen)

-----------------------------------------------------------------------------
(* The functions that take text apart and put it together.  Bytes are their   *)
(* numbers; a C string ends before its first NUL.                             *)

BELL == 7
BACKSPACE == 8
TAB == 9
NEWLINE == 10
RETURN == 13
SPACE == 32
QUOTE == 34
APOSTROPHE == 39
BACKSLASH == 92
Digit(d) == IF d < 10 THEN 48 + d ELSE 87 + d      \* '0'.. and 'a'..

isspace == 9..13 \union {SPACE}
isprint == 32..126
\* is_hex_digit and hex_digit_to_int
HexValue(c) == CASE c \in 48..57 -> c - 48 [] c \in 97..102 -> c - 87 [] c \in 65..70 -> c - 55
                 [] OTHER -> -1

\* The escapes that both ways know by a letter.
Letters == <<[byte |-> NEWLINE, letter |-> 110], [byte |-> RETURN, letter |-> 114],
             [byte |-> TAB, letter |-> 116], [byte |-> BELL, letter |-> 97],
             [byte |-> BACKSPACE, letter |-> 98]>>
Named == {Letters[i] : i \in DOMAIN Letters}

\* sdscatrepr: a byte as it stands between the quotes.
Escaped(c) ==
  IF c \in {BACKSLASH, QUOTE} THEN <<BACKSLASH, c>>
  ELSE IF \E e \in Named : e.byte = c
       THEN <<BACKSLASH, (CHOOSE e \in Named : e.byte = c).letter>>
  ELSE IF c \in isprint THEN <<c>>
  ELSE <<BACKSLASH, 120, Digit(c \div 16), Digit(c % 16)>>
sdscatrepr(x, t) == x \o <<QUOTE>> \o FlattenSeq([i \in DOMAIN t |-> Escaped(t[i])]) \o <<QUOTE>>

-----------------------------------------------------------------------------
\* sdssplitargs: from position p of the line on, in a token or out of it ("skip"),
\* plain or in quotes.  NULL is the answer to quotes that do not end, or that
\* something follows.
NULL == [ok |-> FALSE, args |-> <<>>]
At(line, p) == IF p > Len(line) THEN NUL ELSE line[p]
QuoteEnds(line, p) == At(line, p + 1) = NUL \/ At(line, p + 1) \in isspace

RECURSIVE Split(_, _, _, _, _)
Split(line, p, mode, current, vector) ==
  LET c == At(line, p)
      Go(n, bytes) == Split(line, p + n, mode, current \o bytes, vector)
      Done == Split(line, p + (IF c = NUL THEN 0 ELSE 1), "skip", <<>>, Append(vector, current))
      Second == At(line, p + 1)
      Hex(i) == HexValue(At(line, p + i))
  IN CASE mode = "skip" ->
            IF c \in isspace THEN Split(line, p + 1, "skip", <<>>, vector)
            ELSE IF c = NUL THEN [ok |-> TRUE, args |-> vector]
            ELSE Split(line, p, "plain", <<>>, vector)
       [] mode = "plain" ->
            IF c \in {SPACE, NEWLINE, RETURN, TAB, NUL} THEN Done
            ELSE IF c = QUOTE THEN Split(line, p + 1, "double", current, vector)
            ELSE IF c = APOSTROPHE THEN Split(line, p + 1, "single", current, vector)
            ELSE Go(1, <<c>>)
       [] mode = "double" ->
            IF c = BACKSLASH /\ Second = 120 /\ Hex(2) >= 0 /\ Hex(3) >= 0
            THEN Go(4, <<Hex(2) * 16 + Hex(3)>>)
            ELSE IF c = BACKSLASH /\ Second # NUL
            THEN Go(2, IF \E e \in Named : e.letter = Second
                       THEN <<(CHOOSE e \in Named : e.letter = Second).byte>> ELSE <<Second>>)
            ELSE IF c = QUOTE THEN (IF QuoteEnds(line, p) THEN Done ELSE NULL)
            ELSE IF c = NUL THEN NULL ELSE Go(1, <<c>>)
       [] OTHER ->
            IF c = BACKSLASH /\ Second = APOSTROPHE THEN Go(2, <<APOSTROPHE>>)
            ELSE IF c = APOSTROPHE THEN (IF QuoteEnds(line, p) THEN Done ELSE NULL)
            ELSE IF c = NUL THEN NULL ELSE Go(1, <<c>>)

sdssplitargs(line) == Split(line, 1, "skip", <<>>, <<>>)

-----------------------------------------------------------------------------
\* sdssplitlen: the tokens before each separator found from the left, and the rest.
RECURSIVE Tokens(_, _, _, _)
Tokens(x, sep, start, j) ==
  IF j > Len(x) - Len(sep) + 1 THEN <<SubSeq(x, start, Len(x))>>
  ELSE IF SubSeq(x, j, j + Len(sep) - 1) = sep
       THEN <<SubSeq(x, start, j - 1)>> \o Tokens(x, sep, j + Len(sep), j + Len(sep))
       ELSE Tokens(x, sep, start, j + 1)
sdssplitlen(x, sep) == IF x = <<>> THEN <<>> ELSE Tokens(x, sep, 1, 1)

\* sdsjoinsds, and sdsjoin for tokens without NUL
sdsjoinsds(argv, sep) ==
  FoldLeft(LAMBDA join, i : join \o argv[i] \o (IF i # Len(argv) THEN sep ELSE <<>>),
           <<>>, [i \in DOMAIN argv |-> i])

\* sdsmapchars: the first byte of from that matches decides.
sdsmapchars(x, from, to) ==
  [j \in DOMAIN x |->
     LET hits == {i \in DOMAIN from : from[i] = x[j]}
     IN IF hits = {} THEN x[j] ELSE to[CHOOSE i \in hits : \A k \in hits : i <= k]]

\* sdscmp: memcmp of the common part, then the lengths.
sdscmp(x, t) ==
  LET min == IF Len(x) < Len(t) THEN Len(x) ELSE Len(t)
      differ == {i \in 1..min : x[i] # t[i]}
      first == CHOOSE i \in differ : \A k \in differ : i <= k
  IN IF differ = {} THEN Len(x) - Len(t) ELSE x[first] - t[first]

\* sdsll2str, in integers of w bits: the digits come out last first, and -value of
\* the smallest value wraps to itself.
RECURSIVE Reversed(_)
Reversed(v) == <<48 + (v % 10)>> \o (IF v \div 10 = 0 THEN <<>> ELSE Reversed(v \div 10))
sdsll2str(value, w) ==
  LET v == (IF value < 0 THEN -value ELSE value) % 2^w
  IN Reverse(Reversed(v) \o (IF value < 0 THEN <<45>> ELSE <<>>))

\* sdscatvprintf: the size of the buffer into which a text of n bytes fits, found by
\* doubling; the byte before the last tells whether the text reached it (a text without NUL).
RECURSIVE BufferFor(_, _)
BufferFor(n, buflen) == IF n < buflen - 1 THEN buflen ELSE BufferFor(n, buflen * 2)
vsnprintf(t, buflen) == SubSeq(t, 1, IF Len(t) < buflen THEN Len(t) ELSE buflen - 1)
sdscatvprintf(x, t, staticbuf) == x \o vsnprintf(t, BufferFor(Len(t), staticbuf))

-----------------------------------------------------------------------------
Init == \E t \in Pieces \union {<<>>} : /\ s = sdsnewlen(t) /\ text = t
                                       /\ asserted = {}

\* An allocation that fails leaves the string as it was.
Becomes(x, t) == \/ s' = x /\ text' = t
                 \/ UNCHANGED <<s, text>>
Changed(x, t) == s' = x /\ text' = t

Add(t) == /\ Len(text) + Len(t) <= MaxLen /\ UNCHANGED asserted
          /\ Becomes(sdscatlen(s, t), text \o t)
Copy(t) == UNCHANGED asserted /\ Becomes(sdscpylen(s, t), t)
Duplicate == UNCHANGED asserted /\ Becomes(sdsnewlen(Content(s)), text)
Grow(n) == /\ n <= MaxLen /\ UNCHANGED asserted
           /\ Becomes(sdsgrowzero(s, n), text \o Filled(n - Len(text), NUL))
Format(t) ==
  /\ Len(text) + Len(t) + 2 <= MaxLen /\ UNCHANGED asserted
  /\ Becomes(sdscatfmt(s, <<Argument(t), Literal(PLAIN), Literal(PLAIN)>>),
             text \o t \o <<PLAIN, PLAIN>>)
RemoveFreeSpace ==
  /\ UNCHANGED asserted
  /\ Becomes(Buffer(sdsReqType(sdslen(s)), sdslen(s), Content(s)), text)

Clear == Changed(Terminated(sdssetlen(s, 0), 0), <<>>) /\ UNCHANGED asserted
Trim(c) ==
  /\ UNCHANGED asserted /\ s' = sdstrim(s, {c})
  /\ \E i \in 1..Len(text) + 1, j \in 0..Len(text) :
       /\ \A k \in DOMAIN text \ (i..j) : text[k] \in {c, NUL}
       /\ IF i <= j THEN {text[i], text[j]} \intersect {c, NUL} = {} ELSE i = 1 /\ j = 0
       /\ text' = SubSeq(text, i, j)

\* The bytes from one index to the other, where an end before the string is its
\* first byte.
Slice(from, to) ==
  LET n == Len(text)
      end == IF to >= 0 THEN to ELSE IF to < -n THEN 0 ELSE n + to
      start == IF from >= 0 THEN from ELSE n + from
      before == Len(SelectSeq([i \in 1..n |-> i - 1], LAMBDA i : i < start))
      after == Len(SelectSeq([i \in 1..n |-> i - 1], LAMBDA i : i > end))
  IN UNCHANGED asserted /\ Changed(sdsrange(s, from, to), SubSeq(text, before + 1, n - after))

\* sdsMakeRoomFor, bytes written behind the string, and sdsIncrLen for those; or
\* sdsIncrLen with a negative number.
IncrLen(x, incr) == sdssetlen(Terminated(x, sdslen(x) + incr), sdslen(x) + incr)
Read(room, t) ==
  /\ Len(t) <= room /\ Len(text) + room <= MaxLen
  /\ LET x == Write(sdsMakeRoomFor(s, room), sdslen(s), t)
         right == IF x.type = 5 THEN t # <<>> /\ sdslen(x) + Len(t) < 2^Width[5]
                  ELSE sdsavail(x) >= Len(t)
     IN /\ asserted' = IF right THEN asserted ELSE asserted \union {<<x.type, Len(t)>>}
        /\ IF ~right THEN UNCHANGED <<s, text>> ELSE Becomes(IncrLen(x, Len(t)), text \o t)
Shorten(n) ==
  /\ n \in 1..Len(text) /\ UNCHANGED asserted
  /\ Changed(IncrLen(s, -n), SubSeq(text, 1, Len(text) - n))

\* The program puts a NUL into the string, and sdsupdatelen measures it.
UpdateLen(i) ==
  /\ i \in DOMAIN text /\ UNCHANGED asserted
  /\ LET cut == Write(s, i - 1, <<NUL>>)
         strlen == CHOOSE k \in 0..Len(s.buf) - 1 :
                     cut.buf[k + 1] = NUL /\ \A l \in 1..k : cut.buf[l] # NUL
     IN s' = sdssetlen(Terminated(cut, strlen), strlen)
  /\ \E k \in 1..i : /\ k = i \/ text[k] = NUL
                     /\ \A l \in 1..k - 1 : text[l] # NUL
                     /\ text' = SubSeq(text, 1, k - 1)

Next == \/ \E t \in Pieces : Add(t) \/ Copy(t) \/ Format(t)
        \/ Duplicate \/ RemoveFreeSpace \/ Clear
        \/ \E n \in 1..MaxLen : Grow(n) \/ Shorten(n) \/ UpdateLen(n)
        \/ \E t \in Pieces : \E i \in DOMAIN t : Trim(t[i])
        \/ \E from, to \in Indices : Slice(from, to)
        \/ \E room \in 0..MaxLen, t \in Pieces \union {<<>>} : Read(room, t)

Spec == Init /\ [][Next]_vars

-----------------------------------------------------------------------------
TypeOK == /\ s.type \in Types /\ Len(text) <= MaxLen /\ asserted \subseteq Types \X (0..MaxLen)
          /\ \A i \in DOMAIN s.buf : s.buf[i] \in Int

\* The string is the one the program means, however it has grown and shrunk, with
\* its terminator, in a buffer that is never exceeded and whose true size the header
\* never overstates; and no assertion fails,
\* but for that of sdsIncrLen on a string of type 5 when nothing was read.
StringHolds ==
  /\ Len(s.buf) = s.size + 1
  /\ sdslen(s) <= sdsalloc(s) /\ sdsalloc(s) <= s.size
  /\ sdslen(s) = Len(text) /\ Content(s) = text /\ s.buf[Len(text) + 1] = NUL
  /\ asserted \subseteq {<<5, 0>>}

-----------------------------------------------------------------------------
\* What one function writes the other reads: an argument list written with
\* sdscatrepr is the one that sdssplitargs reads, as the comment of the latter
\* promises, a string split at a separator and joined again is the string, a number
\* is its digits, and a formatted text is not cut off.
RoundTrips(t, u) ==
  /\ sdssplitargs(sdscatrepr(sdscatrepr(<<>>, t) \o <<SPACE>>, u)) = [ok |-> TRUE, args |-> <<t, u>>]
  /\ u # <<>> => sdsjoinsds(sdssplitlen(t, u), u) = t
  /\ u # <<>> => \A i \in DOMAIN sdssplitlen(t, u) : sdssplitlen(sdssplitlen(t, u)[i], u) \in
                    {<<>>, <<sdssplitlen(t, u)[i]>>}
  /\ NUL \notin {t[i] : i \in DOMAIN t} => sdscatvprintf(u, t, 2) = u \o t
  /\ sdsmapchars(sdsmapchars(t, <<97, 110>>, <<110, 97>>), <<97, 110>>, <<110, 97>>) = t
  /\ sdscmp(t, u) = 0 <=> t = u
  /\ sdscmp(t, u) < 0 <=> sdscmp(u, t) > 0

ValueOf(digits, w) ==
  LET negative == digits[1] = 45
      n == FoldLeft(LAMBDA v, c : v * 10 + c - 48, 0, IF negative THEN Tail(digits) ELSE digits)
  IN IF negative THEN -n ELSE n
NumbersRoundTrip(w) == \A v \in -(2^(w - 1))..2^(w - 1) - 1 : ValueOf(sdsll2str(v, w), w) = v

\* A line of text is refused only for its quotes, and one without quotes falls into
\* its runs of bytes that are not blank.
LineSplit(line) ==
  LET r == sdssplitargs(line)
      quoted == \E i \in DOMAIN line : line[i] \in {QUOTE, APOSTROPHE}
      Blank(i) == i \notin DOMAIN line \/ line[i] = SPACE
  IN (\A i \in DOMAIN line : line[i] \in isprint) =>
     /\ ~quoted => r.ok /\ FlattenSeq(r.args) = SelectSeq(line, LAMBDA c : c # SPACE)
     /\ ~quoted => Len(r.args) = Len(SelectSeq([i \in DOMAIN line |-> i],
                                               LAMBDA i : ~Blank(i) /\ Blank(i - 1)))
     /\ ~r.ok => r.args = <<>>
=============================================================================
