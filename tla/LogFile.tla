------------------------------- MODULE LogFile -------------------------------
(***************************************************************************)
(* A logger of muduo_log that writes to a LogFile: Logger builds a line in the   *)
(* fixed buffer of its LogStream (Logging.cc, LogStream.h), its destructor hands  *)
(* it to LogFile::append (LogFile.cc, under the LogFile's mutex), which appends it *)
(* to the current file (FileUtil.cc) and now and then flushes it or rolls over to  *)
(* a new file.  A line is its length, the second it was written in and whether     *)
(* its end-of-line made it into the buffer.  stdio's 64 KB buffer does not fill.   *)
(*                                                                         *)
(* And the calculations for the text of a line: dates (Date.cc), universal and    *)
(* local times (TimeZone.cc) and the digits of numbers (LogStream.cc).  Their      *)
(* properties take the value they are about as an argument.                        *)
(***************************************************************************)
EXTENDS Integers, Sequences, SequencesExt, FiniteSetsExt

CONSTANTS
  rollSize, flushInterval, checkEveryN, kRollPerSeconds,
  kSmallBuffer, kMaxNumericSize,   \* bytes of the LogStream; what a number must find free
  Messages,                        \* lengths of the texts that are logged
  MaxNow, MaxLines,
  Hour,        \* seconds of an hour, in TimeZone's search for the local time
  MaxTime      \* local times are checked up to this second

VARIABLES
  now,
  files,          \* [opened, written, flushed, buffered], the current one last
  count_, startOfPeriod_, lastRoll_, lastFlush_,
  g_flush,        \* what setFlush was told to flush: "stdout" is the default
  aborted,        \* "no", "flush" or "yes"
  setBack,        \* auxiliary: the clock was set back
  checked         \* auxiliary: when every checkEveryN-th line was last noticed
vars == <<now, files, count_, startOfPeriod_, lastRoll_, lastFlush_, g_flush, aborted,
          setBack, checked>>

Period(t) == t - (t % kRollPerSeconds)
NewFile == [opened |-> now, written |-> 0, flushed |-> <<>>, buffered |-> <<>>]
Flushed(f) == [f EXCEPT !.flushed = @ \o f.buffered, !.buffered = <<>>]
lineCount == FoldLeft(LAMBDA n, f : n + Len(f.flushed) + Len(f.buffered), 0, files)

\* The constructor rolls to the first file.
Init == /\ now = 1 /\ files = <<NewFile>>
        /\ count_ = 0 /\ startOfPeriod_ = Period(now) /\ lastRoll_ = now /\ lastFlush_ = now
        /\ g_flush \in {"stdout", "log"}
        /\ aborted = "no" /\ setBack = FALSE /\ checked = 0

-----------------------------------------------------------------------------
\* LogStream: FixedBuffer::append takes a piece only as a whole, and only when a byte
\* remains; formatInteger a number only when the longest one would fit.
Put(length, piece) ==
  LET avail == kSmallBuffer - length IN
  CASE piece.number -> IF avail >= kMaxNumericSize THEN length + piece.len ELSE length
    [] OTHER -> IF avail > piece.len THEN length + piece.len ELSE length

Text(len) == [number |-> FALSE, len |-> len]
Number(len) == [number |-> TRUE, len |-> len]

\* Logger::Impl::Impl puts time, thread and level, the caller the message, and
\* Logger::Impl::finish " - ", the source file, ':', the line number and '\n'.
Built(message) == FoldLeft(Put, 0, <<Text(1), Text(1), Text(message), Text(1), Text(1),
                                     Text(1), Number(1)>>)
Line(message) == [time |-> now, len |-> Put(Built(message), Text(1)),
                  newline |-> Put(Built(message), Text(1)) > Built(message)]

-----------------------------------------------------------------------------
\* rollFile, f being the current file: the name of a file has the second it is opened
\* in, so there is one in a second at most.  The old file is closed, and with it flushed.
rollFile(f) ==
  \/ /\ now > lastRoll_
     /\ lastRoll_' = now /\ lastFlush_' = now /\ startOfPeriod_' = Period(now)
     /\ files' = Front(files) \o <<Flushed(f), NewFile>>
  \/ /\ now <= lastRoll_
     /\ files' = Append(Front(files), f)
     /\ UNCHANGED <<lastRoll_, lastFlush_, startOfPeriod_>>


\* AppendFile::append counts the bytes it was given, written or not.
Appended(line) == [Last(files) EXCEPT !.buffered = Append(@, line),
                                      !.written = @ + line.len]

append_unlocked(line) ==
  LET f == Appended(line) IN
  \/ /\ f.written > rollSize
     /\ rollFile(f)
     /\ UNCHANGED <<count_, checked>>
  \/ /\ f.written <= rollSize /\ count_ + 1 < checkEveryN
     /\ count_' = count_ + 1
     /\ files' = Append(Front(files), f)
     /\ UNCHANGED <<startOfPeriod_, lastRoll_, lastFlush_, checked>>
  \/ /\ f.written <= rollSize /\ count_ + 1 >= checkEveryN
     /\ count_' = 0 /\ checked' = now
     /\ \/ Period(now) # startOfPeriod_ /\ rollFile(f)
        \/ /\ Period(now) = startOfPeriod_ /\ now - lastFlush_ > flushInterval
           /\ lastFlush_' = now
           /\ files' = Append(Front(files), Flushed(f))
           /\ UNCHANGED <<startOfPeriod_, lastRoll_>>
        \/ /\ Period(now) = startOfPeriod_ /\ now - lastFlush_ <= flushInterval
           /\ files' = Append(Front(files), f)
           /\ UNCHANGED <<startOfPeriod_, lastRoll_, lastFlush_>>

\* ~Logger: g_output, and for LOG_FATAL and LOG_SYSFATAL g_flush and abort.
Log(message, fatal) ==
  /\ aborted # "yes" /\ lineCount < MaxLines
  /\ append_unlocked(Line(message))
  /\ aborted' = IF fatal THEN "flush" ELSE aborted
  /\ UNCHANGED <<now, g_flush, setBack>>
Abort ==
  /\ aborted = "flush" /\ aborted' = "yes"
  /\ files' = IF g_flush = "log" THEN Append(Front(files), Flushed(Last(files))) ELSE files
  /\ UNCHANGED <<now, count_, startOfPeriod_, lastRoll_, lastFlush_, g_flush, setBack, checked>>

\* LogFile::flush does not set lastFlush_.
flush ==
  /\ aborted # "yes"
  /\ files' = Append(Front(files), Flushed(Last(files)))
  /\ UNCHANGED <<now, count_, startOfPeriod_, lastRoll_, lastFlush_, g_flush, aborted,
                 setBack, checked>>

Tick ==
  /\ aborted # "yes" /\ now < MaxNow /\ now' = now + 1
  /\ UNCHANGED <<files, count_, startOfPeriod_, lastRoll_, lastFlush_, g_flush, aborted,
                 setBack, checked>>
SetBack ==
  /\ aborted # "yes" /\ ~setBack /\ now > 1 /\ now' = now - 1 /\ setBack' = TRUE
  /\ UNCHANGED <<files, count_, startOfPeriod_, lastRoll_, lastFlush_, g_flush, aborted,
                 checked>>

Next == \/ \E message \in Messages, fatal \in BOOLEAN : Log(message, fatal)
        \/ Abort \/ flush \/ Tick \/ SetBack

-----------------------------------------------------------------------------
(* The calculations                                                          *)

\* C's division, towards zero.
Quot(x, y) == IF x >= 0 THEN x \div y ELSE -((-x) \div y)
Rem(x, y) == x - y * Quot(x, y)

-----------------------------------------------------------------------------
\* Date.cc: dates and their day numbers.
getJulianDayNumber(year, month, day) ==
  LET a == (14 - month) \div 12
      y == (year + 4800) - a
      m == (month + 12 * a) - 3
  IN (day + (153 * m + 2) \div 5 + y * 365 + y \div 4 + y \div 400) - y \div 100 - 32045

getYearMonthDay(julianDayNumber) ==
  LET a == julianDayNumber + 32044
      b == (4 * a + 3) \div 146097
      c == a - (b * 146097) \div 4
      d == (4 * c + 3) \div 1461
      e == c - (1461 * d) \div 4
      m == (5 * e + 2) \div 153
  IN [day |-> (e - (153 * m + 2) \div 5) + 1,
      month |-> (m + 3) - 12 * (m \div 10),
      year |-> (b * 100 + d + m \div 10) - 4800]

kJulianDayOf1970_01_01 == getJulianDayNumber(1970, 1, 1)
weekDay(julianDayNumber) == (julianDayNumber + 1) % 7

\* TimeZone::toUtcTime and fromUtcTime.
kSecondsPerDay == 24 * 60 * 60
toUtcTime(s) ==
  LET rest == Rem(s, kSecondsPerDay)
      seconds == IF rest < 0 THEN rest + kSecondsPerDay ELSE rest
      days == Quot(s, kSecondsPerDay) - (IF rest < 0 THEN 1 ELSE 0)
      ymd == getYearMonthDay(days + kJulianDayOf1970_01_01)
  IN [year |-> ymd.year, month |-> ymd.month, day |-> ymd.day,
      hour |-> seconds \div 3600, minute |-> (seconds \div 60) % 60, second |-> seconds % 60,
      wday |-> weekDay(days + kJulianDayOf1970_01_01),
      yday |-> (days + kJulianDayOf1970_01_01) - getJulianDayNumber(ymd.year, 1, 1)]
fromUtcTime(tm) ==
  (getJulianDayNumber(tm.year, tm.month, tm.day) - kJulianDayOf1970_01_01) * kSecondsPerDay
    + tm.hour * 3600 + tm.minute * 60 + tm.second

-----------------------------------------------------------------------------
\* TimeZone.cc.  A file that is missing or broken leaves no localtimes, and the zone is
\* valid all the same: what is read from the empty vector then is undefined.
NoLocaltime == [gmtOffset |-> 0, isDst |-> FALSE]
readTimeZoneFile(zone) ==
  [localtimes |-> zone.localtimes,
   transitions |-> [i \in DOMAIN zone.times |->
      [gmttime |-> zone.times[i], localtimeIdx |-> zone.idxs[i],
       localtime |-> zone.times[i] + zone.localtimes[zone.idxs[i]].gmtOffset]]]

\* The constructor of a zone without summer time.
FixedZone(eastOfUtc) == [localtimes |-> <<[gmtOffset |-> eastOfUtc, isDst |-> FALSE]>>,
                         transitions |-> <<>>]

\* lower_bound's transition when it is at this very time, or the one before it; before
\* the first transition, the first localtime.
findLocaltime(data, time, compareGmt) ==
  LET key(i) == IF compareGmt THEN data.transitions[i].gmttime
                ELSE data.transitions[i].localtime
      notBefore == {i \in DOMAIN data.transitions : key(i) >= time}
      found == IF notBefore = {} THEN Len(data.transitions)
               ELSE IF key(Min(notBefore)) = time THEN Min(notBefore) ELSE Min(notBefore) - 1
  IN IF data.localtimes = <<>> THEN NoLocaltime
     ELSE IF found = 0 THEN data.localtimes[1]
     ELSE data.localtimes[data.transitions[found].localtimeIdx]

toLocalTime(data, s) ==
  LET local == findLocaltime(data, s, TRUE)
  IN [seconds |-> s + local.gmtOffset, isDst |-> local.isDst]

\* Of a time that occurs twice, the one with isDst is taken to be an hour earlier.
fromLocalTime(data, tm) ==
  LET local == findLocaltime(data, tm.seconds, FALSE)
      tryTm == toLocalTime(data, tm.seconds - local.gmtOffset)
      again == tm.isDst /\ ~tryTm.isDst
                 /\ (tryTm.seconds - tm.seconds) % (24 * Hour) = 0
  IN (tm.seconds - local.gmtOffset) - (IF again THEN Hour ELSE 0)

-----------------------------------------------------------------------------
\* LogStream.cc: convert, whose table of digits has each of them for both signs.
digits == <<9, 8, 7, 6, 5, 4, 3, 2, 1, 0, 1, 2, 3, 4, 5, 6, 7, 8, 9>>
zero == [lsd \in -9..9 |-> digits[10 + lsd]]
Base(base, digit, value) ==
  LET p[i \in Int] == IF Quot(i, base) = 0 THEN <<digit[Rem(i, base)]>>
                      ELSE Append(p[Quot(i, base)], digit[Rem(i, base)])
  IN p[value]
convert(value) == [minus |-> value < 0, text |-> Base(10, zero, value)]
convertHex(value) == Base(16, [lsd \in 0..15 |-> lsd], value)

\* snprintf's %.2f, %.1f and %.0f of n / unit, as the digits without the point: when
\* the quotient lies in the middle, its representation in a double decides.
Rounded(n, unit) == LET rest == 2 * (n % unit) IN
  (IF rest <= unit THEN {n \div unit} ELSE {}) \union
  (IF rest >= unit THEN {n \div unit + 1} ELSE {})
Scaled(n, unit, two, one) ==
  LET decimals == IF n < two THEN 2 ELSE IF n < one THEN 1 ELSE 0
  IN [digits : Rounded(n * 10 ^ decimals, unit), decimals : {decimals}, unit : {unit}]
Unscaled(n) == {[digits |-> n, decimals |-> 0, unit |-> 1]}

\* formatSI below 999.5 M and formatIEC below 1023.5 Mi; the larger units repeat the
\* pattern, beyond TLC's integers.
formatSI(s) == IF s < 1000 THEN Unscaled(s)
               ELSE IF s < 999500 THEN Scaled(s, 1000, 9995, 99950)
               ELSE Scaled(s, 1000000, 9995000, 99950000)
formatIEC(s) == IF s < 1024 THEN Unscaled(s)
                ELSE IF s < 1048064 THEN Scaled(s, 1024, 10235, 102349)
                ELSE Scaled(s, 1048576, 10480518, 104805172)

-----------------------------------------------------------------------------
\* Type invariant.
TypeOK ==
  LET LineType == [time : 1..MaxNow, len : 1..kSmallBuffer, newline : BOOLEAN] IN
  /\ now \in 1..MaxNow /\ files # <<>>
  /\ \A i \in DOMAIN files :
       /\ files[i].opened \in 1..MaxNow /\ files[i].written \in Nat
       /\ files[i].flushed \in Seq(LineType) /\ files[i].buffered \in Seq(LineType)
  /\ count_ \in 0..checkEveryN - 1 /\ checked \in 0..MaxNow
  /\ startOfPeriod_ \in 0..MaxNow /\ lastRoll_ \in 1..MaxNow /\ lastFlush_ \in 1..MaxNow
  /\ g_flush \in {"stdout", "log"} /\ aborted \in {"no", "flush", "yes"} /\ setBack \in BOOLEAN

linesOf(f) == f.flushed \o f.buffered

\* append_unlocked: but for the line that makes it roll, a file is written beyond
\* rollSize only until the second it was opened in is over; and no more than checkEveryN of its lines belong
\* to a day after its own.
FilesRoll ==
  \A i \in DOMAIN files :
    LET f == files[i]
        before(k) == FoldLeft(LAMBDA n, line : n + line.len, 0, SubSeq(linesOf(f), 1, k - 1))
        last == IF i = Len(files) THEN 0 ELSE Len(linesOf(f))
    IN /\ \A k \in DOMAIN linesOf(f) \ {last} :
            before(k) > rollSize => linesOf(f)[k].time <= f.opened
       /\ ~setBack => Cardinality({k \in DOMAIN linesOf(f) :
                                     Period(linesOf(f)[k].time) > Period(f.opened)})
                        <= checkEveryN

\* append_unlocked: a line that is not on disk is not older, when the time was last
\* looked at, than flushInterval; rollFile: and it is in the current file.
FlushedInTime ==
  /\ \A i \in 1..Len(files) - 1 : files[i].buffered = <<>>
  /\ ~setBack => \A k \in DOMAIN Last(files).buffered :
                   Last(files).buffered[k].time >= checked - flushInterval

\* Logger::Impl::finish: a line ends with '\n', unless its text leaves one byte.
LinesEnd == \A i \in DOMAIN files : \A k \in DOMAIN linesOf(files[i]) :
              LET line == linesOf(files[i])[k]
              IN line.newline \/ line.len = kSmallBuffer - 1

\* ~Logger: the last line before abort is on disk, if setFlush was told of the file.
FatalLineKept == aborted = "yes" /\ g_flush = "log" => Last(files).buffered = <<>>

\* The Gregorian calendar.
LeapYear(y) == y % 4 = 0 /\ (y % 100 = 0 => y % 400 = 0)
DaysOf(y, m) == IF m = 2 THEN (IF LeapYear(y) THEN 29 ELSE 28)
                ELSE IF m \in {4, 6, 9, 11} THEN 30 ELSE 31

\* Date.cc: in each year that Date.h promises, day follows day as in the calendar, and
\* getYearMonthDay is the inverse of getJulianDayNumber.
DatesFollow(y) ==
  \A m \in 1..12 :
    /\ \A d \in 1..DaysOf(y, m) :
         /\ getYearMonthDay(getJulianDayNumber(y, m, d)) = [day |-> d, month |-> m, year |-> y]
         /\ getJulianDayNumber(y, m, d) = (getJulianDayNumber(y, m, 1) + d) - 1
    /\ getJulianDayNumber(y, m, DaysOf(y, m)) + 1 =
         (IF m = 12 THEN getJulianDayNumber(y + 1, 1, 1) ELSE getJulianDayNumber(y, m + 1, 1))

\* TimeZone.cc: fromUtcTime is the inverse of toUtcTime, before 1970 too, and the
\* fields are in their ranges.
TimesRoundTrip(s) ==
  LET tm == toUtcTime(s) IN
  /\ fromUtcTime(tm) = s
  /\ tm.hour \in 0..23 /\ tm.minute \in 0..59 /\ tm.second \in 0..59
  /\ tm.day \in 1..DaysOf(tm.year, tm.month) /\ tm.wday \in 0..6
  /\ tm.yday \in 0..(IF LeapYear(tm.year) THEN 365 ELSE 364)

\* TimeZone.cc: fromLocalTime is the inverse of toLocalTime, but for local times that
\* occur twice and are not told apart by isDst and one hour.
LocalTimesRoundTrip(data) ==
  LET local == [t \in 0..MaxTime |-> toLocalTime(data, t)]
      told(t, u) == local[t].isDst # local[u].isDst /\ u - t \in {Hour, -Hour}
  IN \A t \in 0..MaxTime :
       \/ fromLocalTime(data, local[t]) = t
       \/ \E u \in 0..MaxTime \ {t} : local[u].seconds = local[t].seconds /\ ~told(t, u)

\* LogStream.cc: the digits are those of the number, without leading zeros.
ValueOf(base, text) == FoldLeft(LAMBDA n, d : base * n + d, 0, text)
NumbersPrinted(value) ==
  LET number == convert(value)
      size == IF number.minus THEN -value ELSE value
  IN /\ size >= 0 /\ ValueOf(10, number.text) = size
     /\ size > 0 => number.text[1] # 0
     /\ ValueOf(16, convertHex(size)) = size

\* LogStream.h on formatSI and formatIEC: at most 5 and 6 characters.  LogStream.cc:
\* three digits of a scaled number, or four up to 1023 in a binary unit, however it is
\* rounded.
Length(t) == Len(convert(t.digits).text) + (IF t.decimals > 0 THEN 1 ELSE 0)
QuantitiesShort(s) ==
  /\ s < 999500000 => \A t \in formatSI(s) :
       /\ Length(t) + (IF t.unit > 1 THEN 1 ELSE 0) <= 5
       /\ t.unit > 1 => t.digits \in 100..999
  /\ \A t \in formatIEC(s) :
       /\ Length(t) + (IF t.unit > 1 THEN 2 ELSE 0) <= 6
       /\ t.unit > 1 => t.digits \in 100..(IF t.decimals = 0 THEN 1023 ELSE 999)
=============================================================================
