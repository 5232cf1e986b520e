-------------------------------- MODULE Time --------------------------------
(***************************************************************************)
(* Broken-down times and time zones: static/localtime.c (what a time zone  *)
(* file or a TZ value means, localtime, gmtime, mktime), string/strftime.c *)
(* and utils/zic.c, the compiler that writes the time zone files.          *)
(*                                                                         *)
(* A day is HOURSPERDAY hours of MINSPERHOUR minutes of SECSPERMIN seconds *)
(* and a time_t has TimeBits bits, an int IntBits: the code's 24, 60, 60,  *)
(* 32 and 32.  The calendar is the real one.  A time zone, the code's      *)
(* struct state, is a record of the instants `ats' at which the local time *)
(* changes to the local time types `types', of these types `ttis', of the  *)
(* zone names `chars' and of the leap seconds `lsis'.  Types and names are *)
(* numbered from 1.  The texts (a TZ value, a line for zic) are records of *)
(* the fields the parsers find in them; a field that does not parse is     *)
(* Bad.                                                                    *)
(***************************************************************************)
EXTENDS Integers, Sequences, FiniteSets, SequencesExt

CONSTANTS SECSPERMIN, MINSPERHOUR, HOURSPERDAY, TimeBits, IntBits,
          LastYear,                            \* 2037 in the code
          TZ_MAX_TIMES, TZ_MAX_TYPES, TZ_MAX_LEAPS,
          None, Bad,                           \* no field, an unusable field
          Texts,         \* values of variables: what each means as a TZ value
          Files,         \* the time zone files there are
          Names, MaxVars,                      \* variables, bound on the list
          TZ_STRLEN_MAX,
          Flaws          \* "empty", "timegm", "nomem": see below

\* What follows a call, given what it returned.
Then(called, Rest(_)) == Rest(called)

EPOCH_YEAR == 1970
TM_YEAR_BASE == 1900
EPOCH_WDAY == 4
DAYSPERWEEK == 7
DAYSPERNYEAR == 365
DAYSPERLYEAR == 366
MONSPERYEAR == 12
SECSPERHOUR == SECSPERMIN * MINSPERHOUR
SECSPERDAY == SECSPERHOUR * HOURSPERDAY

(* C's division and remainder, which round towards zero. *)
Quot(a, b) == IF a >= 0 THEN a \div b ELSE -((-a) \div b)
Rem(a, b) == a - b * Quot(a, b)

(* The value n has in a signed type of w bits. *)
Wrapped(n, w) == ((n + 2^(w - 1)) % 2^w) - 2^(w - 1)

MinTime == -(2^(TimeBits - 1))
MaxTime == 2^(TimeBits - 1) - 1
INT_MAX == 2^(IntBits - 1) - 1
INT_MIN == -(2^(IntBits - 1))

isleap(y) == (y % 4 = 0 /\ y % 100 # 0) \/ y % 400 = 0
year_lengths(y) == IF isleap(y) THEN DAYSPERLYEAR ELSE DAYSPERNYEAR
mon_lengths(y) == <<31, IF isleap(y) THEN 29 ELSE 28,
                    31, 30, 31, 30, 31, 31, 30, 31, 30, 31>>

SumOf(s) == FoldSeq(LAMBDA a, b : a + b, 0, s)

-----------------------------------------------------------------------------
(***************************************************************************)
(* From a time_t to a broken-down time.                                    *)
(***************************************************************************)
(* The last leap second at or before t, 0 if there is none. *)
LeapAt(t, lsis) ==
  LET past == {i \in DOMAIN lsis : t >= lsis[i].trans}
  IN  IF past = {} THEN 0 ELSE CHOOSE i \in past : \A j \in past : j <= i

(* The leap seconds that t itself inserts: consecutive ones are counted    *)
(* back to the first of them.  (A first leap second that is removed makes  *)
(* the code read before the table; no table in use has one.)               *)
Hits(t, lsis) ==
  LET n == LeapAt(t, lsis)
      inserts(i) == IF i = 1 THEN lsis[1].corr > 0
                             ELSE lsis[i].corr > lsis[i - 1].corr
      linked(i) == /\ lsis[i].trans = lsis[i - 1].trans + 1
                   /\ lsis[i].corr = lsis[i - 1].corr + 1
  IN  IF n = 0 \/ lsis[n].trans # t \/ ~inserts(n)
      THEN 0
      ELSE Cardinality({i \in 1..n : \A j \in (i + 1)..n : linked(j)})

Corr(t, lsis) == LET n == LeapAt(t, lsis) IN IF n = 0 THEN 0 ELSE lsis[n].corr

LEAPS_THRU_END_OF(y) == Quot(y, 4) - Quot(y, 100) + Quot(y, 400)

(* The year that the day `days' after January 1 of year y is in, and the   *)
(* day in that year.                                                       *)
RECURSIVE YearOf(_, _)
YearOf(y, days) ==
  IF days >= 0 /\ days < year_lengths(y)
  THEN <<y, days>>
  ELSE LET newy == y + Quot(days, DAYSPERNYEAR) - (IF days < 0 THEN 1 ELSE 0)
       IN  YearOf(newy, days - ((newy - y) * DAYSPERNYEAR
                                + LEAPS_THRU_END_OF(newy - 1)
                                - LEAPS_THRU_END_OF(y - 1)))

RECURSIVE MonthOf(_, _, _)
MonthOf(y, mon, days) ==
  IF days < mon_lengths(y)[mon + 1]
  THEN <<mon, days>>
  ELSE MonthOf(y, mon + 1, days - mon_lengths(y)[mon + 1])

timesub(t, offset, lsis) ==
  LET secs == Rem(t, SECSPERDAY) + offset - Corr(t, lsis)
      day == Quot(t, SECSPERDAY) + (secs \div SECSPERDAY)
      rem == secs % SECSPERDAY
  IN Then(YearOf(EPOCH_YEAR, day), LAMBDA yd :
  LET md == MonthOf(yd[1], 0, yd[2])
  IN  [hour |-> rem \div SECSPERHOUR,
       min |-> (rem % SECSPERHOUR) \div SECSPERMIN,
       sec |-> ((rem % SECSPERHOUR) % SECSPERMIN) + Hits(t, lsis),
       wday |-> (EPOCH_WDAY + day) % DAYSPERWEEK,
       year |-> yd[1] - TM_YEAR_BASE, yday |-> yd[2],
       mon |-> md[1], mday |-> md[2] + 1,
       isdst |-> 0, gmtoff |-> offset])

(* The local time type in force at t. *)
TypeAt(t, sp) ==
  IF sp.ats = <<>> \/ t < sp.ats[1]
  THEN IF \E i \in DOMAIN sp.ttis : sp.ttis[i].isdst = 0
       THEN CHOOSE i \in DOMAIN sp.ttis :
              /\ sp.ttis[i].isdst = 0
              /\ \A j \in 1..(i - 1) : sp.ttis[j].isdst # 0
       ELSE 1
  ELSE LET later == {i \in 2..Len(sp.ats) : t < sp.ats[i]}
           i == IF later = {} THEN Len(sp.ats)
                ELSE (CHOOSE k \in later : \A l \in later : k <= l) - 1
       IN  sp.types[i]

localsub(t, sp) ==
  LET ttis == sp.ttis[TypeAt(t, sp)]
  IN  [timesub(t, ttis.off, sp.lsis) EXCEPT !.isdst = ttis.isdst]
        @@ [zone |-> sp.chars[ttis.abbr]]

gmtsub(t, sp) == timesub(t, 0, sp.lsis) @@ [zone |-> sp.chars[1]]

-----------------------------------------------------------------------------
(***************************************************************************)
(* Where a time zone comes from: a file, or the TZ value itself.           *)
(***************************************************************************)
(* The zone a file describes, Bad when the file is missing or unusable.    *)
tzload(file) ==
  IF \/ file = None
     \/ Len(file.lsis) > TZ_MAX_LEAPS
     \/ Len(file.ttis) \notin 1..TZ_MAX_TYPES
     \/ Len(file.ats) > TZ_MAX_TIMES
     \/ \E i \in DOMAIN file.types : file.types[i] \notin DOMAIN file.ttis
     \/ \E i \in DOMAIN file.ttis : file.ttis[i].isdst \notin {0, 1}
  THEN Bad
  ELSE file

getnum(n, min, max) == IF n = None \/ n < min \/ n > max THEN Bad ELSE n

(* hh[:mm[:ss]]; hours up to a week, and a leap second, are taken. *)
getsecs(hms) ==
  LET h == getnum(hms[1], 0, HOURSPERDAY * DAYSPERWEEK - 1)
      m == IF Len(hms) < 2 THEN 0 ELSE getnum(hms[2], 0, MINSPERHOUR - 1)
      s == IF Len(hms) < 3 THEN 0 ELSE getnum(hms[3], 0, SECSPERMIN)
  IN  IF Bad \in {h, m, s} THEN Bad
      ELSE h * SECSPERHOUR + m * SECSPERMIN + s

getoffset(off) ==
  Then(getsecs(off.hms), LAMBDA secs :
      IF secs = Bad THEN Bad ELSE IF off.neg THEN -secs ELSE secs)

(* Jn, n or Mm.n.d with a time of day, two o'clock if there is none. *)
getrule(r) ==
  Then(IF r.time = None THEN 2 * SECSPERHOUR ELSE getsecs(r.time), LAMBDA time :
  LET fields ==
        CASE r.type = "J" -> {getnum(r.day, 1, DAYSPERNYEAR)}
          [] r.type = "n" -> {getnum(r.day, 0, DAYSPERLYEAR - 1)}
          [] r.type = "M" -> {getnum(r.mon, 1, MONSPERYEAR),
                              getnum(r.week, 1, 5),
                              getnum(r.day, 0, DAYSPERWEEK - 1)}
          [] OTHER -> {Bad}
  IN  IF Bad \in fields \cup {time} THEN Bad ELSE [r EXCEPT !.time = time])

(* Zeller's congruence: the weekday of the first day of a month. *)
FirstOfMonth(year, mon) ==
  LET m1 == ((mon + 9) % 12) + 1
      yy0 == IF mon <= 2 THEN year - 1 ELSE year
      yy1 == Quot(yy0, 100)
      yy2 == Rem(yy0, 100)
  IN Then(Rem(Quot(26 * m1 - 2, 10) + 1 + yy2 + Quot(yy2, 4)
           + Quot(yy1, 4) - 2 * yy1, 7), LAMBDA dow :
      IF dow < 0 THEN dow + DAYSPERWEEK ELSE dow)

(* The day of the month, from 0, of the week-th weekday `day', the last    *)
(* one when the month has fewer.                                           *)
NthDay(first, day, week, length) ==
  LET d == IF day < first THEN day - first + DAYSPERWEEK ELSE day - first
      fit == {k \in 1..week : d + (k - 1) * DAYSPERWEEK < length}
  IN  d + (Cardinality(fit) - 1) * DAYSPERWEEK

transtime(janfirst, year, rule, offset) ==
  LET days ==
        CASE rule.type = "J" ->
               rule.day - 1 + (IF isleap(year) /\ rule.day >= 60 THEN 1 ELSE 0)
          [] rule.type = "n" -> rule.day
          [] rule.type = "M" ->
               SumOf(SubSeq(mon_lengths(year), 1, rule.mon - 1))
               + NthDay(FirstOfMonth(year, rule.mon), rule.day, rule.week,
                        mon_lengths(year)[rule.mon])
  IN  janfirst + days * SECSPERDAY + rule.time + offset

Ttinfo(off, isdst, abbr) == [off |-> off, isdst |-> isdst, abbr |-> abbr,
                             ttisstd |-> FALSE, ttisgmt |-> FALSE]

(* Two changes in each year, the earlier one first. *)
RECURSIVE RuleChanges(_, _, _, _, _, _)
RuleChanges(year, janfirst, start, end, stdoffset, dstoffset) ==
  IF year > LastYear
  THEN <<>>
  ELSE Then([at |-> transtime(janfirst, year, start, stdoffset), type |-> 1], LAMBDA begins :
       Then([at |-> transtime(janfirst, year, end, dstoffset), type |-> 2], LAMBDA ends :
           (IF begins.at > ends.at THEN <<ends, begins>> ELSE <<begins, ends>>)
             \o RuleChanges(year + 1, janfirst + year_lengths(year) * SECSPERDAY,
                            start, end, stdoffset, dstoffset)))

(* The changes of the file of default rules, moved to the offsets of a TZ  *)
(* value that names no rules.                                              *)
RECURSIVE Juggled(_, _, _, _)
Juggled(i, file, theirstdoffset, stdoffset) ==
  IF i > Len(file.ats)
  THEN <<>>
  ELSE LET ttis == file.ttis[file.types[i]]
           \* the loop never sets its isdst: the summer offset is not used
           moved == IF ttis.ttisgmt THEN 0 ELSE stdoffset - theirstdoffset
       IN  <<[at |-> file.ats[i] + moved, type |-> ttis.isdst + 1]>>
             \o Juggled(i + 1, file,
                        IF ttis.isdst = 1 THEN theirstdoffset ELSE -ttis.off,
                        stdoffset)

FirstStandard(file) ==
  LET is == {i \in DOMAIN file.ats : file.ttis[file.types[i]].isdst = 0}
  IN  IF is = {} THEN 0
      ELSE -(file.ttis[file.types[CHOOSE i \in is : \A j \in is : i <= j]].off)

(* The zone of a TZ value [std, off, dst, dstoff, rules]; `posix' is the   *)
(* file of default rules.  With lastditch the value is a name alone.       *)
tzparse(tz, posix, lastditch) ==
  LET off == IF lastditch THEN 0 ELSE getoffset(tz.off)
      load == tzload(posix)
      lsis == IF load = Bad THEN <<>> ELSE load.lsis
      zone(ats, types, ttis, chars) == [ats |-> ats, types |-> types,
        ttis |-> ttis, chars |-> chars, lsis |-> lsis]
  IN
  IF ~lastditch /\ (Len(tz.std) < 3 \/ off = Bad) THEN Bad
  ELSE IF lastditch \/ tz.dst = None
  THEN zone(<<>>, <<>>, <<Ttinfo(-off, 0, 1)>>, <<tz.std>>)
  ELSE
  LET dstoff == IF tz.dstoff = None THEN off - SECSPERHOUR ELSE getoffset(tz.dstoff)
      start == getrule(tz.rules[1])
      end == getrule(tz.rules[2])
  IN Then(IF tz.rules = None
       THEN Juggled(1, load, FirstStandard(load), off)
       ELSE RuleChanges(EPOCH_YEAR, 0, start, end, off, dstoff), LAMBDA changes :
  LET chars == <<tz.std, tz.dst>>
      ats == [i \in DOMAIN changes |-> changes[i].at]
      types == [i \in DOMAIN changes |-> changes[i].type]
  IN
  IF \/ Len(tz.dst) < 3
     \/ dstoff = Bad
     \/ tz.rules = None /\ load = Bad
     \/ tz.rules # None /\ (start = Bad \/ end = Bad)
     \/ tz.rules # None /\ 2 * (LastYear - EPOCH_YEAR + 1) > TZ_MAX_TIMES
  THEN Bad
  ELSE IF tz.rules = None
  THEN zone(ats, types, <<Ttinfo(-off, 0, 1), Ttinfo(-dstoff, 1, 2)>>, chars)
  ELSE zone(ats, types, <<Ttinfo(-dstoff, 1, 2), Ttinfo(-off, 0, 1)>>, chars))

(* Greenwich time: its file, or the name alone. *)
gmtload(gmtfile, posix) ==
  IF tzload(gmtfile) # Bad THEN gmtfile
  ELSE tzparse([std |-> "GMT"], posix, TRUE)

-----------------------------------------------------------------------------
(***************************************************************************)
(* From a broken-down time to a time_t: the fields are brought into their  *)
(* ranges and the time_t is then searched for.                             *)
(***************************************************************************)
WRONG == [okay |-> FALSE, t |-> -1]

(* A broken-down time is bad when an int overflowed on the way. *)
Incremented(tm, f, delta) ==
  LET new == Wrapped(tm[f] + delta, IntBits)
  IN  [tm EXCEPT ![f] = new, !.bad = @ \/ ((new < tm[f]) # (delta < 0))]

(* Mutant: negative units rounded towards zero. *)
NormalizedTowardsZero(tm, tens, units, base) ==
  LET delta == Quot(tm[units], base)
  IN  Incremented([tm EXCEPT ![units] = @ - delta * base], tens, delta)

Normalized(tm, tens, units, base) ==
  LET delta == tm[units] \div base
  IN  Incremented([tm EXCEPT ![units] = @ - delta * base], tens, delta)

RECURSIVE DaysUp(_)
DaysUp(tm) ==
  IF tm.bad \/ tm.mday > 0 THEN tm
  ELSE LET less == Incremented(tm, "year", -1)
           i == less.year + (IF 1 < less.mon THEN 1 ELSE 0)
       IN  DaysUp([less EXCEPT !.mday = @ + year_lengths(i)])

RECURSIVE DaysDown(_)
DaysDown(tm) ==
  IF tm.bad \/ tm.mday <= DAYSPERLYEAR THEN tm
  ELSE LET i == tm.year + (IF 1 < tm.mon THEN 1 ELSE 0)
       IN  DaysDown(Incremented([tm EXCEPT !.mday = @ - year_lengths(i)], "year", 1))

RECURSIVE MonthsDown(_)
MonthsDown(tm) ==
  LET length == mon_lengths(tm.year)[tm.mon + 1]
      less == [tm EXCEPT !.mday = @ - length]
  IN  IF tm.bad \/ tm.mday <= length THEN tm
      ELSE IF tm.mon + 1 >= MONSPERYEAR
      THEN MonthsDown(Incremented([less EXCEPT !.mon = 0], "year", 1))
      ELSE MonthsDown([less EXCEPT !.mon = @ + 1])

InRange(tm) ==
  LET hours == Normalized(tm, "hour", "min", MINSPERHOUR)
      days == Normalized(hours, "mday", "hour", HOURSPERDAY)
      years == Normalized(days, "year", "mon", MONSPERYEAR)
      based == Incremented(years, "year", TM_YEAR_BASE)
  IN  Incremented(MonthsDown(DaysDown(DaysUp(based))), "year", -TM_YEAR_BASE)

(* The seconds are added at the end; the search is for the first second of *)
(* the minute, before 1970 for the last one.                               *)
SavedSeconds(tm) ==
  IF tm.year + TM_YEAR_BASE < EPOCH_YEAR THEN tm.sec + 1 - SECSPERMIN ELSE tm.sec

Aimed(tm) ==
  IF tm.year + TM_YEAR_BASE < EPOCH_YEAR
  THEN [Incremented(tm, "sec", 1 - SECSPERMIN) EXCEPT !.sec = SECSPERMIN - 1]
  ELSE [tm EXCEPT !.sec = 0]

(* Negative, zero or positive as a is before, at or after b. *)
tmcomp(a, b) ==
  LET fields == <<"year", "mon", "mday", "hour", "min", "sec">>
      differ == {i \in DOMAIN fields : a[fields[i]] # b[fields[i]]}
      f == fields[CHOOSE i \in differ : \A j \in differ : i <= j]
  IN  IF differ = {} THEN 0 ELSE a[f] - b[f]

(* The time_t found by halving the range of time_t, None if there is none. *)
RECURSIVE Search(_, _, _, _)
Search(t, bits, your, sp) ==
  LET dir == tmcomp(localsub(t, sp), your)
  IN  IF dir = 0 THEN t
      ELSE IF bits < 0 THEN None
      ELSE Search(CASE bits = 0 -> t - 1
                    [] bits > 0 /\ dir > 0 -> t - 2^(bits - 1)
                    [] bits > 0 /\ dir < 0 -> t + 2^(bits - 1),
                  bits - 1, your, sp)

(* The pairs of a type of the kind wanted and one of the other kind, in    *)
(* the order of the two downward loops.                                    *)
TypePairs(sp, isdst) ==
  LET n == Len(sp.ttis)
      pair(k) == <<n - ((k - 1) \div n), n - ((k - 1) % n)>>
  IN  SelectSeq([k \in 1..(n * n) |-> pair(k)],
                LAMBDA p : /\ sp.ttis[p[1]].isdst = isdst
                           /\ sp.ttis[p[2]].isdst # isdst)

FirstOf(s) == IF s = <<>> THEN None ELSE Head(s)

time2(tm, sp) ==
  LET norm == InRange(tm)
      your == Aimed(norm)
      saved == SavedSeconds(norm)
      t == Search(0, TimeBits - 1, your, sp)
      other(p) == Wrapped(t + sp.ttis[p[2]].off - sp.ttis[p[1]].off, TimeBits)
      same(p) == LET my == localsub(other(p), sp)
                 IN  tmcomp(my, your) = 0 /\ my.isdst = your.isdst
      hunted == FirstOf(SelectSeq(TypePairs(sp, your.isdst), same))
      found == CASE your.isdst < 0 \/ localsub(t, sp).isdst = your.isdst -> t
                 [] OTHER -> IF hunted = None THEN None ELSE other(hunted)
      newt == Wrapped(found + saved, TimeBits)
  IN  IF norm.bad \/ your.bad THEN WRONG
      ELSE IF t = None THEN WRONG
      ELSE IF found = None THEN WRONG
      ELSE IF (newt < found) # (saved < 0) THEN WRONG
      ELSE [okay |-> TRUE, t |-> newt]

(* A time of the wrong kind is taken for one that was computed from a time *)
(* of the other kind.                                                      *)
time1(tm, sp) ==
  LET one == [tm EXCEPT !.isdst = IF @ > 1 THEN 1 ELSE @]
      first == time2(one, sp)
      moved(p) == [one EXCEPT !.sec = @ + sp.ttis[p[2]].off - sp.ttis[p[1]].off,
                              !.isdst = 1 - @]
      works(p) == time2(moved(p), sp).okay
      divined == FirstOf(SelectSeq(TypePairs(sp, one.isdst), works))
  IN  IF first.okay \/ one.isdst < 0 THEN first
      ELSE IF divined = None THEN WRONG
      ELSE time2(moved(divined), sp)

-----------------------------------------------------------------------------
(***************************************************************************)
(* strftime.  A format is a sequence of characters and conversions; a text *)
(* is a sequence of characters, those of a name given by their place.      *)
(***************************************************************************)
Lit(c) == [conv |-> FALSE, c |-> c]
Con(c) == [conv |-> TRUE, c |-> c]

Name(table, i, length) == [k \in 1..length |-> <<table, i, k>>]
AfmtLen == <<6, 6, 7, 9, 8, 6, 8>>
BfmtLen == <<7, 8, 5, 5, 3, 4, 4, 6, 9, 7, 8, 8>>

RECURSIVE Digits(_)
Digits(n) == IF n <= 0 THEN <<>> ELSE Append(Digits(n \div 10), <<"digit", n % 10, 0>>)

(* The buffer: what was written and how much room is left; room -1 says    *)
(* that the text did not fit.                                              *)
_add(b, str) ==
  IF Len(str) < b.gsize
  THEN [pt |-> b.pt \o str, gsize |-> b.gsize - Len(str)]
  ELSE [b EXCEPT !.gsize = -1]

_conv(b, n, digits, pad) ==
  LET ds == Digits(n)
      k == IF digits > Len(ds) THEN digits - Len(ds) ELSE 0
  IN  _add(b, [i \in 1..k |-> <<"pad", pad, 0>>] \o ds)

Expansion(c) ==
  CASE c = "c" -> <<Con("m"), Lit("/"), Con("d"), Lit("/"), Con("y"), Lit(" "),
                    Con("H"), Lit(":"), Con("M"), Lit(":"), Con("S")>>
    [] c = "C" -> <<Con("a"), Lit(" "), Con("b"), Lit(" "), Con("e"), Lit(" "), Con("H"),
                    Lit(":"), Con("M"), Lit(":"), Con("S"), Lit(" "), Con("Y")>>
    [] c \in {"D", "x"} -> <<Con("m"), Lit("/"), Con("d"), Lit("/"), Con("y")>>
    [] c = "R" -> <<Con("H"), Lit(":"), Con("M")>>
    [] c = "r" -> <<Con("I"), Lit(":"), Con("M"), Lit(":"), Con("S"), Lit(" "), Con("p")>>
    [] c \in {"T", "X"} -> <<Con("H"), Lit(":"), Con("M"), Lit(":"), Con("S")>>
    [] OTHER -> <<>>

Twelve(h) == IF h % 12 = 0 THEN 12 ELSE h % 12

(* A conversion that is not another format: its text put into the buffer.  *)
NumberText(c, t) ==
  CASE c = "e" -> <<t.mday, 2, " ">>
    [] c = "d" -> <<t.mday, 2, "0">>
    [] c = "H" -> <<t.hour, 2, "0">>
    [] c = "I" -> <<Twelve(t.hour), 2, "0">>
    [] c = "j" -> <<t.yday + 1, 3, "0">>
    [] c = "k" -> <<t.hour, 2, " ">>
    [] c = "l" -> <<Twelve(t.hour), 2, " ">>
    [] c = "M" -> <<t.min, 2, "0">>
    [] c = "m" -> <<t.mon + 1, 2, "0">>
    [] c = "S" -> <<t.sec, 2, "0">>
    [] c = "U" -> <<(t.yday + 7 - t.wday) \div 7, 2, "0">>
    [] c = "W" -> <<(t.yday + 7 - (IF t.wday # 0 THEN t.wday - 1 ELSE 6)) \div 7, 2, "0">>
    [] c = "w" -> <<t.wday, 1, "0">>
    [] c = "y" -> <<(t.year + TM_YEAR_BASE) % 100, 2, "0">>
    [] c = "Y" -> <<t.year + TM_YEAR_BASE, 4, "0">>
Converted(b, c, t) ==
  LET fail == [b EXCEPT !.gsize = -1]
  IN
  CASE c = "A" -> IF t.wday \notin 0..6 THEN fail
                  ELSE _add(b, Name("A", t.wday, AfmtLen[t.wday + 1]))
    [] c = "a" -> IF t.wday \notin 0..6 THEN fail ELSE _add(b, Name("a", t.wday, 3))
    [] c = "B" -> IF t.mon \notin 0..11 THEN fail
                  ELSE _add(b, Name("B", t.mon, BfmtLen[t.mon + 1]))
    [] c \in {"b", "h"} -> IF t.mon \notin 0..11 THEN fail ELSE _add(b, Name("b", t.mon, 3))
    [] c \in {"n", "t"} -> _add(b, Name(c, 0, 1))
    [] c = "p" -> _add(b, Name("p", IF t.hour >= 12 THEN 1 ELSE 0, 2))
    [] c = "Z" -> _add(b, Name("Z", t.zone, 3))
    [] OTHER -> Then(NumberText(c, t), LAMBDA n : _conv(b, n[1], n[2], n[3]))

(* A format ends badly when no room is left for the end of the text. *)
RECURSIVE _fmt(_, _, _)
_fmt(b, format, t) ==
  IF b.gsize < 0 THEN b
  ELSE IF format = <<>> THEN (IF b.gsize = 0 THEN [b EXCEPT !.gsize = -1] ELSE b)
  ELSE LET f == Head(format)
           one == IF b.gsize = 0 THEN [b EXCEPT !.gsize = -1]
                  ELSE [pt |-> Append(b.pt, <<"lit", f.c, 0>>), gsize |-> b.gsize - 1]
       IN  _fmt(CASE ~f.conv -> one
                  [] f.conv /\ Expansion(f.c) # <<>> -> _fmt(b, Expansion(f.c), t)
                  [] OTHER -> Converted(b, f.c, t), Tail(format), t)

strftime(maxsize, format, t) ==
  Then(_fmt([pt |-> <<>>, gsize |-> maxsize], format, t), LAMBDA b :
      IF maxsize < 1 \/ b.gsize < 0 THEN [n |-> 0, text |-> <<>>]
      ELSE [n |-> maxsize - b.gsize, text |-> b.pt])

-----------------------------------------------------------------------------
(***************************************************************************)
(* zic: lines of a source file.  A rule says that in the years lo..hi a    *)
(* saving of stdoff seconds begins at a day of a month; a zone line says   *)
(* which offset and rules are in force until a time, when the next line of *)
(* the zone takes over.                                                    *)
(***************************************************************************)
(* h[:m[:s]] as seconds, signed where `signable'. *)
gethms(f, signable) ==
  LET h == f.hms[1]
      m == IF Len(f.hms) < 2 THEN 0 ELSE f.hms[2]
      s == IF Len(f.hms) < 3 THEN 0 ELSE f.hms[3]
  IN  IF f = None THEN 0
      ELSE IF \/ f.neg /\ ~signable
              \/ h \notin 0..(HOURSPERDAY - 1)
              \/ m \notin 0..(MINSPERHOUR - 1)
              \/ s \notin 0..SECSPERMIN
      THEN Bad
      ELSE (IF f.neg THEN -1 ELSE 1) * (h * SECSPERHOUR + m * SECSPERMIN + s)

(* The rule part of a line [from, to, type, in, on, at], Bad if unusable.  *)
(* The years "min" and "max" are INT_MIN and INT_MAX, `to' is None for     *)
(* "only".                                                                 *)
(* `on' is a day number, the last weekday, or the first weekday at or      *)
(* after (the last at or before) a day; at.suffix says whether the time of *)
(* day is standard ("s"), universal ("u") or wall clock time.              *)
rulesub(f) ==
  LET lo == f.from
      hi == IF f.to = None THEN lo ELSE f.to
      tod == gethms(f.at, FALSE)
      longest == mon_lengths(1972)[f.in + 1]
      day == IF f.on.code = "last" THEN longest ELSE f.on.day
  IN  IF \/ f.in \notin 0..11 \/ tod = Bad \/ lo > hi
         \/ f.type # None /\ lo = hi
         \/ day \notin 1..longest
      THEN Bad
      ELSE [lo |-> lo, hi |-> hi, type |-> f.type, month |-> f.in,
            dycode |-> IF f.on.code = "last" THEN "<=" ELSE f.on.code,
            wday |-> f.on.wday, day |-> day, tod |-> tod,
            todisstd |-> f.at # None /\ f.at.suffix \in {"s", "u"},
            todisgmt |-> f.at # None /\ f.at.suffix = "u"]

(* The years a rule may be limited to; the answer comes from a command,    *)
(* utils/yearistype.sh.                                                    *)
yearistype(year, type) ==
  CASE type = None -> TRUE
    [] type = "odd" -> year % 2 = 1
    [] type = "even" -> year % 2 = 0

(* The sums stop zic where they overflow, but for an end of time. *)
tadd(a, b) ==
  LET t == Wrapped(a + b, TimeBits)
  IN  CASE a = Bad \/ b = Bad -> Bad
        [] a = MaxTime /\ b > 0 -> MaxTime
        [] a = MinTime /\ b < 0 -> MinTime
        [] OTHER -> IF (b > 0 /\ t <= a) \/ (b < 0 /\ t >= a) THEN Bad ELSE t

(* Days from January 1, 1970 to January 1 of year y, added up year by year. *)
DaysBefore(y) ==
  IF y >= EPOCH_YEAR
  THEN 365 * (y - EPOCH_YEAR) + Cardinality({x \in EPOCH_YEAR..(y - 1) : isleap(x)})
  ELSE -(365 * (EPOCH_YEAR - y) + Cardinality({x \in y..(EPOCH_YEAR - 1) : isleap(x)}))

(* The day from 1970 on which a rule takes effect in a year, Bad if the    *)
(* year has no such day.                                                   *)
RuleDay(r, y) ==
  LET length == mon_lengths(y)[r.month + 1]
      start == IF r.month = 1 /\ r.day = 29 /\ ~isleap(y) /\ r.dycode = "<="
               THEN 28 ELSE r.day
  IN Then(DaysBefore(y) + SumOf(SubSeq(mon_lengths(y), 1, r.month)) + start - 1, LAMBDA day :
  LET wday == (EPOCH_WDAY + day) % DAYSPERWEEK
      shift == CASE r.dycode = "=" -> 0
                 [] r.dycode = ">=" -> (r.wday - wday) % DAYSPERWEEK
                 [] r.dycode = "<=" -> -((wday - r.wday) % DAYSPERWEEK)
  IN  IF \/ r.month = 1 /\ start = 29 /\ ~isleap(y)
         \/ r.dycode # "=" /\ start + shift \notin 1..length
      THEN Bad
      ELSE day + shift)

(* The local time at which a rule takes effect in a year. *)
rpytime(r, y) ==
  Then(RuleDay(r, y), LAMBDA day :
  LET t == Wrapped(day * SECSPERDAY, TimeBits)
  IN  CASE y = INT_MIN -> MinTime
        [] y = INT_MAX -> MaxTime
        [] OTHER -> IF day = Bad THEN Bad
                    ELSE IF Quot(t, SECSPERDAY) # day
                    THEN IF day > 0 THEN MaxTime ELSE MinTime
                    ELSE tadd(t, r.tod))

(* A name: the format itself, one of its two halves, or the format with    *)
(* the rule's letters in it.                                               *)
doabbr(format, letters, isdst) ==
  CASE format.kind = "plain" -> <<format.std>>
    [] format.kind = "/" -> IF isdst THEN <<format.dst>> ELSE <<format.std>>
    [] format.kind = "%s" -> <<format.std, letters>>

(* What zic has of the zone it writes: the changes, the types, the saving  *)
(* in force, how the next line starts, and whether there was an error.     *)
NoZone == [attypes |-> <<>>, ttis |-> <<>>, stdoff |-> 0, usestart |-> FALSE,
           starttime |-> 0, startoff |-> 0, startbuf |-> <<>>,
           startstd |-> FALSE, startgmt |-> FALSE, dead |-> FALSE]

Ttype(off, abbr, isdst, std, gmt) ==
  [off |-> off, abbr |-> abbr, isdst |-> IF isdst THEN 1 ELSE 0,
   ttisstd |-> std, ttisgmt |-> gmt]

addtype(z, ttype) ==
  IF \E i \in DOMAIN z.ttis : z.ttis[i] = ttype THEN z
  ELSE IF Len(z.ttis) >= TZ_MAX_TYPES THEN [z EXCEPT !.dead = TRUE]
  ELSE [z EXCEPT !.ttis = Append(@, ttype)]

(* A change at the beginning of time replaces all there was. *)
addtt(z, at, type) ==
  LET anew == at <= MinTime \/ (Len(z.attypes) = 1 /\ z.attypes[1].at < MinTime)
      base == IF anew THEN [z EXCEPT !.ttis = <<z.ttis[type]>>, !.attypes = <<>>] ELSE z
  IN  IF Len(base.attypes) >= TZ_MAX_TIMES THEN [base EXCEPT !.dead = TRUE]
      ELSE [base EXCEPT !.attypes =
              Append(@, [at |-> at, type |-> IF anew THEN 1 ELSE type])]

(* The change to a type that is made if it does not exist yet. *)
ChangeTo(z, at, ttype) ==
  LET made == addtype(z, ttype)
  IN  IF at = Bad \/ made.dead THEN [z EXCEPT !.dead = TRUE]
      ELSE addtt(made, at, CHOOSE i \in DOMAIN made.ttis : made.ttis[i] = ttype)

(* A local time of a rule, and the end of a line, as universal time. *)
Universal(time, rule, gmtoff, stdoff) ==
  tadd(time, -((IF rule.todisgmt THEN 0 ELSE gmtoff)
               + (IF rule.todisstd THEN 0 ELSE stdoff)))

(* Mutant: the saving in force at the end of a line forgotten. *)
EndOfLineStandard(line, stdoff) ==
  tadd(line.untiltime, IF line.untilrule.todisgmt THEN 0 ELSE -line.gmtoff)

EndOfLine(line, stdoff) ==
  tadd(tadd(line.untiltime, IF line.untilrule.todisgmt THEN 0 ELSE -line.gmtoff),
       IF line.untilrule.todisstd THEN 0 ELSE -stdoff)

(* The rules of `todo' (numbers of rules) applied in the order in which    *)
(* they take effect; the order is found anew after each, as the saving     *)
(* changes.                                                                *)
RECURSIVE ApplyRules(_, _, _, _, _)
ApplyRules(z, todo, year, line, useuntil) ==
  LET rule(j) == line.rules[j]
      when(j) == Universal(rpytime(rule(j), year), rule(j), line.gmtoff, z.stdoff)
      ready == {j \in todo : rpytime(rule(j), year) \notin {MinTime, MaxTime}}
  IN Then(CHOOSE j \in ready :
         \A i \in ready : when(j) < when(i) \/ (when(j) = when(i) /\ j <= i), LAMBDA k :
  LET untiltime == EndOfLine(line, z.stdoff)
      at == when(k)
      saved == [z EXCEPT !.stdoff = rule(k).stdoff,
                         !.usestart = @ /\ at # z.starttime]
      name == doabbr(line.format, rule(k).letters, rule(k).stdoff # 0)
      early == saved.usestart /\ at < z.starttime
      named == IF saved.usestart /\ z.startbuf = <<>>
                  /\ z.startoff = line.gmtoff + rule(k).stdoff
               THEN [saved EXCEPT !.startbuf = name] ELSE saved
      next == IF early
              THEN [saved EXCEPT !.startoff = line.gmtoff + rule(k).stdoff,
                                 !.startbuf = name]
              ELSE ChangeTo(named, at,
                     Ttype(line.gmtoff + rule(k).stdoff, name, rule(k).stdoff # 0,
                           rule(k).todisstd, rule(k).todisgmt))
  IN  IF z.dead \/ ready = {} THEN z
      ELSE IF (useuntil /\ untiltime = Bad) \/ \E j \in ready : when(j) = Bad THEN [z EXCEPT !.dead = TRUE]
      ELSE IF useuntil /\ at >= untiltime THEN z
      ELSE ApplyRules(next, todo \ {k}, year, line, useuntil))

RECURSIVE ApplyYears(_, _, _, _, _)
ApplyYears(z, year, last, line, useuntil) ==
  LET todo == {j \in DOMAIN line.rules :
                 /\ year \in line.rules[j].lo..line.rules[j].hi
                 /\ yearistype(year, line.rules[j].type)}
  IN  IF z.dead \/ year > last \/ (useuntil /\ year > line.untilrule.hi) THEN z
      ELSE IF \E j \in todo : rpytime(line.rules[j], year) = Bad
      THEN [z EXCEPT !.dead = TRUE]
      ELSE ApplyYears(ApplyRules(z, todo, year, line, useuntil),
                      year + 1, last, line, useuntil)

(* The type at the start of a line, when no rule began just then. *)
StartLine(z, line) ==
  LET name == IF z.startbuf = <<>> /\ line.format.kind = "plain"
              THEN <<line.format.std>> ELSE z.startbuf
  IN  IF ~z.usestart THEN z
      ELSE IF name = <<>> THEN [z EXCEPT !.dead = TRUE]
      ELSE ChangeTo(z, z.starttime,
             Ttype(z.startoff, name, z.startoff # line.gmtoff, z.startstd, z.startgmt))

OutLine(z0, i, lines, years) ==
  LET line == lines[i]
      useuntil == i < Len(lines)
      z == [z0 EXCEPT !.usestart = i > 1 /\ lines[i - 1].untiltime > MinTime,
                      !.startbuf = <<>>, !.startoff = line.gmtoff]
      plain == Ttype(line.gmtoff + line.stdoff,
                     doabbr(line.format, "", line.stdoff # 0), line.stdoff # 0,
                     z.startstd, z.startgmt)
      fixed == [z EXCEPT !.stdoff = line.stdoff, !.usestart = FALSE]
  IN Then(IF line.rules # <<>>
       THEN ApplyYears(z, years[1], years[2], line, useuntil)
       ELSE IF z.usestart THEN ChangeTo(fixed, z.starttime, plain)
       ELSE IF line.stdoff # 0 THEN ChangeTo(fixed, MinTime, plain)
       ELSE addtype(fixed, plain), LAMBDA ruled :
  LET done == StartLine(ruled, line)
  IN  IF useuntil /\ line.untiltime <= MinTime THEN z0
      ELSE IF ~useuntil \/ done.dead THEN done
      ELSE LET start == EndOfLine(line, done.stdoff)
           IN  IF start = Bad THEN [done EXCEPT !.dead = TRUE]
               ELSE [done EXCEPT !.startstd = line.untilrule.todisstd,
                                 !.startgmt = line.untilrule.todisgmt,
                                 !.starttime = start])

RECURSIVE OutLines(_, _, _, _)
OutLines(z, i, lines, years) ==
  IF z.dead \/ i > Len(lines) THEN z
  ELSE OutLines(OutLine(z, i, lines, years), i + 1, lines, years)

(* The changes without those that change nothing; one that comes before    *)
(* the local clock has passed the previous change replaces it.             *)
RECURSIVE Optimized(_, _, _)
Optimized(from, to, ttis) ==
  LET a == Head(from)
      n == Len(to)
      before == IF n = 1 THEN 1 ELSE to[n - 1].type
  IN  IF from = <<>> THEN to
      ELSE IF n # 0 /\ a.at + ttis[to[n].type].off <= to[n].at + ttis[before].off
      THEN Optimized(Tail(from), [to EXCEPT ![n].type = a.type], ttis)
      ELSE Optimized(Tail(from), IF n = 0 \/ to[n].type # a.type
                                 THEN Append(to, a) ELSE to, ttis)

RECURSIVE Dropped(_, _)
Dropped(s, type) == IF s # <<>> /\ s[1].type = type THEN Dropped(Tail(s), type) ELSE s

(* With leap seconds in the file its times count them. *)
Leaped(at, lsis) ==
  LET n == LeapAt(at, lsis) IN IF n = 0 THEN at ELSE tadd(at, lsis[n].corr)

(* A rolling leap second happens at a local time. *)
Rolled(l, ats, types, ttis) ==
  LET std == {j \in DOMAIN ttis : ttis[j].isdst = 0}
      past == {k \in DOMAIN ats : \A m \in 2..k : l.trans >= ats[m]}
      j == IF ats = <<>> \/ l.trans < ats[1]
           THEN IF std = {} THEN 1 ELSE CHOOSE k \in std : \A m \in std : k <= m
           ELSE types[CHOOSE k \in past : \A m \in past : m <= k]
  IN  IF l.roll THEN [l EXCEPT !.trans = tadd(@, -ttis[j].off)] ELSE l

writezone(z, lsis) ==
  LET sorted == SortSeq(z.attypes, LAMBDA a, b : a.at < b.at)
      from == IF z.ttis[1].isdst = 0 THEN Dropped(sorted, 1) ELSE sorted
      opt == Optimized(from, <<>>, z.ttis)
      ats == [i \in DOMAIN opt |-> Leaped(opt[i].at, lsis)]
      types == [i \in DOMAIN opt |-> opt[i].type]
  IN  [ats |-> ats, types |-> types,
       ttis |-> [i \in DOMAIN z.ttis |-> [z.ttis[i] EXCEPT !.abbr = i]],
       chars |-> [i \in DOMAIN z.ttis |-> z.ttis[i].abbr],
       lsis |-> [i \in DOMAIN lsis |-> Rolled(lsis[i], ats, types, z.ttis)]]

outzone(lines, lsis, years) ==
  Then(OutLines(NoZone, 1, lines, years), LAMBDA z :
      IF z.dead THEN Bad ELSE writezone(z, lsis))

(* Leap seconds are kept in order; inserting two seconds adds two entries. *)
leapadd(lsis, l) ==
  LET n == Cardinality({i \in DOMAIN lsis : lsis[i].trans < l.t})
      new == [trans |-> l.t, corr |-> IF l.positive THEN 1 ELSE -l.count,
              roll |-> l.roll]
      added == IF l.positive /\ l.count = 2 THEN <<new, new>> ELSE <<new>>
  IN  IF \/ Len(lsis) + Len(added) > TZ_MAX_LEAPS
         \/ \E i \in DOMAIN lsis : lsis[i].trans = l.t
      THEN Bad
      ELSE SubSeq(lsis, 1, n) \o added \o SubSeq(lsis, n + 1, Len(lsis))

RECURSIVE adjleap(_, _, _)
adjleap(lsis, i, last) ==
  IF i > Len(lsis) THEN lsis
  ELSE adjleap([lsis EXCEPT ![i].trans = tadd(@, last), ![i].corr = @ + last],
               i + 1, lsis[i].corr + last)

(* A Leap line [year, month, day, at, positive, count, roll]. *)
inleap(lsis, l) ==
  LET day == DaysBefore(l.year) + SumOf(SubSeq(mon_lengths(l.year), 1, l.month))
               + l.day - 1
      tod == gethms(l.at, FALSE)
  IN  IF \/ lsis = Bad \/ tod = Bad
         \/ l.day \notin 1..mon_lengths(l.year)[l.month + 1]
         \/ Quot(Wrapped(day * SECSPERDAY, TimeBits), SECSPERDAY) # day
      THEN Bad
      ELSE leapadd(lsis, [t |-> tadd(day * SECSPERDAY, tod), positive |-> l.positive,
                          count |-> l.count, roll |-> l.roll])

LeapTable(lines) ==
  LET lsis == FoldLeft(inleap, <<>>, lines)
  IN  IF lsis = Bad THEN Bad ELSE adjleap(lsis, 1, 0)

(* A Rule line: a rule with the saving and the letters it brings. *)
inrule(src, l) ==
  LET r == rulesub(l.rule)
      stdoff == gethms(l.save, TRUE)
  IN  IF r = Bad \/ stdoff = Bad THEN [src EXCEPT !.errors = TRUE]
      ELSE [src EXCEPT !.rules = Append(@,
             r @@ [name |-> l.name, stdoff |-> stdoff, letters |-> l.letters])]

(* A zone line or the continuation of one: another is wanted if it has an  *)
(* end, and the ends are in order.                                         *)
inzsub(src, l, iscont) ==
  LET gmtoff == gethms(l.gmtoff, TRUE)
      u == IF l.until = None THEN None ELSE rulesub(l.until)
  IN Then(rpytime(u, u.lo), LAMBDA time :
  LET prev == src.zones[Len(src.zones)].untiltime
      inner(t) == t > MinTime /\ t < MaxTime
      zone == [name |-> IF iscont THEN None ELSE l.name, gmtoff |-> gmtoff,
               rule |-> l.rule, format |-> l.format, untilrule |-> u,
               untiltime |-> IF u = None THEN MaxTime ELSE time]
      failed == [src EXCEPT !.errors = TRUE, !.wantcont = FALSE]
  IN  IF gmtoff = Bad \/ u = Bad THEN failed
      ELSE IF u # None
      THEN IF time = Bad THEN failed
           ELSE IF iscont /\ inner(time) /\ inner(prev) /\ prev >= time THEN failed
           ELSE [src EXCEPT !.zones = Append(@, zone), !.wantcont = TRUE]
      ELSE [src EXCEPT !.zones = Append(@, zone), !.wantcont = FALSE])

inzone(src, l) ==
  IF \E i \in DOMAIN src.zones : src.zones[i].name = l.name
  THEN [src EXCEPT !.errors = TRUE, !.wantcont = FALSE]
  ELSE inzsub(src, l, FALSE)

inzcont(src, l) ==
  IF l.kind # "cont" THEN [src EXCEPT !.errors = TRUE, !.wantcont = FALSE]
  ELSE inzsub(src, l, TRUE)

inline(src, l) ==
  CASE src.wantcont -> inzcont(src, l)
    [] ~src.wantcont /\ l.kind = "rule" -> inrule(src, l)
    [] ~src.wantcont /\ l.kind = "zone" -> inzone(src, l)
    [] OTHER -> [src EXCEPT !.errors = TRUE]
infile(lines) ==
  Then(FoldLeft(inline, [rules |-> <<>>, zones |-> <<>>, wantcont |-> FALSE,
                       errors |-> FALSE], lines), LAMBDA read :
      [read EXCEPT !.errors = @ \/ read.wantcont])

(* Each zone line gets its rules; a name no rule has is a fixed saving. *)
associate(src) ==
  LET rules(l) == SelectSeq(src.rules, LAMBDA r : r.name = l.rule.name)
      stdoff(l) == IF rules(l) = <<>> THEN gethms(l.rule.hms, TRUE) ELSE 0
  IN  [i \in DOMAIN src.zones |->
         src.zones[i] @@ [rules |-> rules(src.zones[i]), stdoff |-> stdoff(src.zones[i])]]

(* The zone file made from lines that describe one zone.  The years gone   *)
(* through are those of time_t, from an earlier first year of a rule on.   *)
zic(lines, leaps) ==
  Then(infile(lines), LAMBDA src :
  Then(LeapTable(leaps), LAMBDA lsis :
  Then(associate(src), LAMBDA zones :
  LET firsts == {y \in {src.rules[i].lo : i \in DOMAIN src.rules}
                       \cup {src.zones[i].untilrule.lo : i \in
                              {k \in DOMAIN src.zones : src.zones[k].untilrule # None}} :
                   y > 0}
      yearof(t) == YearOf(EPOCH_YEAR, t \div SECSPERDAY)[1]
      low == {yearof(MinTime)} \cup firsts
      unruly(z) == z.rules = <<>> /\ (z.stdoff = Bad \/ z.format.kind = "%s")
  IN  IF src.errors \/ lsis = Bad \/ \E i \in DOMAIN zones : unruly(zones[i])
      THEN Bad
      ELSE outzone(zones, lsis, <<CHOOSE y \in low : \A x \in low : y <= x,
                                  yearof(MaxTime)>>))))

-----------------------------------------------------------------------------
(***************************************************************************)
(* What the conversions are to agree with: the calendar, defined by        *)
(* counting days, and what a zone's lines say of each moment.              *)
(***************************************************************************)
DayNumber(year, mon, mday) ==
  DaysBefore(year) + SumOf(SubSeq(mon_lengths(year), 1, mon)) + mday - 1

SecondsOf(tm) ==
  DayNumber(tm.year + TM_YEAR_BASE, tm.mon, tm.mday) * SECSPERDAY
    + tm.hour * SECSPERHOUR + tm.min * SECSPERMIN + tm.sec

(* tm is the broken-down time of t in a zone `offset' ahead of Greenwich:  *)
(* its fields are in their ranges, they count the seconds since 1970, and  *)
(* an inserted second is the only one beyond the end of a minute.          *)
IsTimeOf(tm, t, offset, lsis) ==
  LET y == tm.year + TM_YEAR_BASE
      hits == Hits(t, lsis)
  IN  /\ tm.mon \in 0..11 /\ tm.mday \in 1..mon_lengths(y)[tm.mon + 1]
      /\ tm.hour \in 0..(HOURSPERDAY - 1) /\ tm.min \in 0..(MINSPERHOUR - 1)
      /\ tm.sec - hits \in 0..(SECSPERMIN - 1)
      /\ SecondsOf(tm) = t + offset - Corr(t, lsis) + hits
      /\ tm.yday = DayNumber(y, tm.mon, tm.mday) - DaysBefore(y)
      /\ tm.wday = (EPOCH_WDAY + DayNumber(y, tm.mon, tm.mday)) % DAYSPERWEEK

RECURSIVE InOrder(_)
InOrder(S) ==
  IF S = {} THEN <<>>
  ELSE LET first == CHOOSE a \in S : \A b \in S : a.time <= b.time
       IN  <<first>> \o InOrder(S \ {first})

(* The moments at which a line's rules take effect, each given by the      *)
(* clock that was in use just before it, with the saving that begins.      *)
Occurrences(line, years) ==
  LET all == {[time |-> rpytime(line.rules[j], y), rule |-> line.rules[j]] :
                <<j, y>> \in {p \in (DOMAIN line.rules) \X (years[1]..years[2]) :
                   /\ p[2] \in line.rules[p[1]].lo..line.rules[p[1]].hi
                   /\ yearistype(p[2], line.rules[p[1]].type)
                   /\ rpytime(line.rules[p[1]], p[2]) \notin {MinTime, MaxTime}}}
  IN  InOrder(all)

RECURSIVE Begun(_, _, _)
Begun(occs, save, line) ==
  IF occs = <<>> THEN <<>>
  ELSE LET o == Head(occs)
           at == o.time - (IF o.rule.todisgmt THEN 0 ELSE line.gmtoff)
                        - (IF o.rule.todisstd THEN 0 ELSE save)
       IN  <<[at |-> at, save |-> o.rule.stdoff]>>
             \o Begun(Tail(occs), o.rule.stdoff, line)

Saving(line, begun, t) ==
  LET past == {k \in DOMAIN begun : begun[k].at <= t}
  IN  IF line.rules = <<>> THEN line.stdoff
      ELSE IF past = {} THEN 0
      ELSE begun[CHOOSE k \in past : \A l \in past : l <= k].save

(* A line ends when the clock in use reads its UNTIL time. *)
LineEnd(line, begun) ==
  LET saves == {0, line.stdoff} \cup {begun[k].save : k \in DOMAIN begun}
      end(save) == line.untiltime - (IF line.untilrule.todisgmt THEN 0 ELSE line.gmtoff)
                                  - (IF line.untilrule.todisstd THEN 0 ELSE save)
      ends == {end(s) : s \in {v \in saves : Saving(line, begun, end(v) - 1) = v}}
  IN  CHOOSE e \in ends : \A f \in ends : e <= f

(* What the lines of a zone say of the moment t. *)
BegunBy(lines, years) ==
  [i \in DOMAIN lines |-> Begun(Occurrences(lines[i], years), 0, lines[i])]

LocalLaw(lines, begun, t) ==
  LET over == {i \in 1..(Len(lines) - 1) : t >= LineEnd(lines[i], begun[i])}
      i == Cardinality(over) + 1
      save == Saving(lines[i], begun[i], t)
  IN  [off |-> lines[i].gmtoff + save, isdst |-> IF save # 0 THEN 1 ELSE 0]

(* The moments at which that may change, and those at which it does. *)
Turns(lines, begun) ==
  UNION {{begun[i][k].at : k \in DOMAIN begun[i]} : i \in DOMAIN lines}
    \cup {LineEnd(lines[i], begun[i]) : i \in 1..(Len(lines) - 1)}

Changes(lines, begun) ==
  {t \in Turns(lines, begun) : LocalLaw(lines, begun, t) # LocalLaw(lines, begun, t - 1)}

(* No change comes while the clock repeats what it read before an earlier  *)
(* change: writezone joins two such changes into one.                      *)
Apart(lines, begun) ==
  LET cs == Changes(lines, begun)
  IN  \A a, b \in cs : a < b =>
        b + LocalLaw(lines, begun, a).off > a + LocalLaw(lines, begun, a - 1).off

(* The compiled zone says of every moment what the lines say. *)
ZoneAgrees(source, years) ==
  \A lines \in {associate(infile(source))} : \A begun \in {BegunBy(lines, years)} :
  \A sp \in {tzload(zic(source, <<>>))} :
    Apart(lines, begun) =>
      /\ sp # Bad
      /\ \A t \in {u \in UNION {{c - 1, c, c + 1} : c \in Turns(lines, begun)
                                    \cup {sp.ats[i] : i \in DOMAIN sp.ats}} :
                       u >= MinTime /\ u <= MaxTime} :
           LET tm == localsub(t, sp)
           IN  [off |-> tm.gmtoff, isdst |-> tm.isdst] = LocalLaw(lines, begun, t)

(* A change in the first seconds after a leap second, fewer than the leap  *)
(* seconds before it: writezone compares the change, which does not count  *)
(* them, with the leap second's time, which does, and adds too little.     *)
JustAfterLeap(plain, lsis) ==
  \E i \in DOMAIN plain.ats : \E j \in 2..Len(lsis) :
    plain.ats[i] \in (lsis[j].trans - lsis[j - 1].corr)..(lsis[j].trans - 1)

(* Leap seconds do not move the changes: with them in the file the zone    *)
(* has, at every moment, the type it has without them.                     *)
LeapsAgree(source, leaps) ==
  \A plain \in {tzload(zic(source, <<>>))} : \A sp \in {tzload(zic(source, leaps))} :
    /\ plain # Bad /\ sp # Bad
    /\ JustAfterLeap(plain, sp.lsis) \/ \A t \in UNION {{c - 1, c, c + 1} : c \in {sp.ats[i] : i \in DOMAIN sp.ats}
                                             \cup {sp.lsis[i].trans : i \in DOMAIN sp.lsis}} :
         TypeAt(t, sp) = TypeAt(t - Corr(t, sp.lsis), plain)

(* The day of the year, from 0, that a rule of a TZ value names. *)
NamedDay(rule, year) ==
  LET days == 0..(year_lengths(year) - 1)
      feb29 == IF isleap(year) THEN {59} ELSE {}
      first == SumOf(SubSeq(mon_lengths(year), 1, rule.mon - 1))
      month == first..(first + mon_lengths(year)[rule.mon] - 1)
      wdays == {d \in month : (EPOCH_WDAY + DaysBefore(year) + d) % DAYSPERWEEK = rule.day}
      rank(d) == Cardinality({e \in wdays : e <= d})
  IN  CASE rule.type = "n" -> rule.day
        [] rule.type = "J" -> CHOOSE d \in days \ feb29 :
                                Cardinality({e \in days \ feb29 : e <= d}) = rule.day
        [] rule.type = "M" -> CHOOSE d \in wdays :
                                rank(d) = IF rule.week > Cardinality(wdays)
                                          THEN Cardinality(wdays) ELSE rule.week

(* What a TZ value with rules says of the moment t: the later of the last  *)
(* beginning and the last end of summer time is in force.                  *)
PosixLaw(tz, t) ==
  LET off == getoffset(tz.off)
      dstoff == IF tz.dstoff = None THEN off - SECSPERHOUR ELSE getoffset(tz.dstoff)
      moment(rule, year, o) == (DaysBefore(year) + NamedDay(rule, year)) * SECSPERDAY
                                 + getrule(rule).time + o
      years == EPOCH_YEAR..LastYear
      begins == {moment(tz.rules[1], y, off) : y \in years}
      ends == {moment(tz.rules[2], y, dstoff) : y \in years}
      past(S) == {u \in S : u <= t}
      summer == \E b \in past(begins) : \A e \in past(ends) : e < b
  IN  IF summer THEN [off |-> -dstoff, isdst |-> 1] ELSE [off |-> -off, isdst |-> 0]

(* The rules name moments in order: the time of day may carry a rule into  *)
(* the next year, past the other rule's moment.                            *)
RulesInOrder(sp) == \A i \in 2..Len(sp.ats) : sp.ats[i - 1] <= sp.ats[i]

RulesAgree(tz) ==
  \A sp \in {tzparse(tz, None, FALSE)} :
    /\ sp # Bad
    /\ RulesInOrder(sp) =>
         \A t \in UNION {{sp.ats[i] - 1, sp.ats[i], sp.ats[i] + 1} : i \in DOMAIN sp.ats} :
           LET tm == localsub(t, sp)
           IN  [off |-> tm.gmtoff, isdst |-> tm.isdst] = PosixLaw(tz, t)

(* strftime writes the whole text if it fits with its end, and says so by  *)
(* its length; a text that does not fit leaves the answer 0.  The numbers  *)
(* of the weeks count the Sundays (Mondays) of the year so far.            *)
TextFits(maxsize, format, t) ==
  LET r == strftime(maxsize, format, t)
      all == strftime(200, format, t)
  IN  IF Len(all.text) < maxsize THEN r = all /\ r.n = Len(r.text) ELSE r.n = 0

WeeksAgree(t) ==
  LET days(w) == {d \in 0..t.yday : (t.wday - (t.yday - d)) % DAYSPERWEEK = w}
      shown(c) == LET x == strftime(9, <<Con(c)>>, t).text
                  IN  [i \in DOMAIN x |-> IF x[i][1] = "pad" THEN 0 ELSE x[i][2]]
      num(s) == IF Len(s) = 2 THEN 10 * s[1] + s[2] ELSE -1
  IN  /\ num(shown("U")) = Cardinality(days(0))
      /\ num(shown("W")) = Cardinality(days(1))

-----------------------------------------------------------------------------
(***************************************************************************)
(* The environment of a process and the time zone it keeps: getenv, setenv *)
(* and unsetenv of stdlib/, tzset and timegm of static/.  A value is a     *)
(* text; Texts gives the TZ value it is when it names no file.             *)
(*                                                                         *)
(* Three calls do not do what their manual pages say and are left out      *)
(* unless Flaws has their name:                                            *)
(*  "empty"  tzset with TZ set to nothing sets the first type's offset and *)
(*           leaves the other types and the summer time flag of the zone   *)
(*           used before;                                                  *)
(*  "timegm" timegm puts UTC in the place of a TZ value that is as long,   *)
(*           and then restores what it finds there; it leaves an empty TZ  *)
(*           where there was none;                                         *)
(*  "nomem"  setenv cuts the list off when there is no memory for a longer *)
(*           value, and loses it when there is none for a longer list.     *)
(***************************************************************************)
VARIABLES environ,       \* the list of [name, value], the first one counts
          u_env_alloced,
          lclmem, lcl_is_set, lcl_TZname,
          told           \* what the calls so far have made of each variable

zvars == <<environ, u_env_alloced, lclmem, lcl_is_set, lcl_TZname, told>>

_findenv(env, name) ==
  LET at == {i \in DOMAIN env : env[i].name = name}
  IN  IF at = {} THEN 0 ELSE CHOOSE i \in at : \A j \in at : i <= j

getenv(env, name) ==
  LET i == _findenv(env, name)
  IN  IF i # 0 THEN env[i].value ELSE IF name = "HOME" THEN "./" ELSE None

(* The environment after setenv(name, value, 1); `mem' tells whether there *)
(* is memory for what it asks.                                             *)
SetIn(env, name, value, mem) ==
  LET i == _findenv(env, name)
  IN  CASE i = 0 -> IF mem THEN Append(env, [name |-> name, value |-> value]) ELSE env
        [] i # 0 /\ Len(env[i].value) >= Len(value) -> [env EXCEPT ![i].value = value]
        [] OTHER -> IF mem THEN [env EXCEPT ![i].value = value] ELSE SubSeq(env, 1, i - 1)

(* The zone of the file a name leads to, or of the name itself. *)
ZoneOf(name) ==
  LET file == IF name \in DOMAIN Files THEN tzload(Files[name]) ELSE Bad
      posix == IF "posixrules" \in DOMAIN Files THEN Files["posixrules"] ELSE None
  IN Then(gmtload(IF "GMT" \in DOMAIN Files THEN Files["GMT"] ELSE None, posix), LAMBDA gmt :
  Then(IF Texts[name] = Bad THEN Bad ELSE tzparse(Texts[name], posix, FALSE), LAMBDA parsed :
      IF file # Bad THEN file
      ELSE IF name = "localtime" THEN gmt
      ELSE IF parsed # Bad THEN parsed ELSE gmt))

(* "User wants it fast rather than right": offset and name of the first    *)
(* type are set, nothing else of the types is.                             *)
FastZone(sp) ==
  [sp EXCEPT !.lsis = <<>>, !.ats = <<>>, !.types = <<>>,
             !.ttis = [@ EXCEPT ![1].off = 0, ![1].abbr = 1],
             !.chars = [@ EXCEPT ![1] = "GMT"]]

(* Mutant: the TZ value a zone was made for not remembered. *)
tzsetFromForgetful(z, env) ==
  LET name == getenv(env, "TZ")
      set == IF name # None /\ Len(name) <= TZ_STRLEN_MAX THEN 1 ELSE 0
  IN  CASE name = None -> IF z.isset < 0 THEN z
                          ELSE [z EXCEPT !.isset = -1, !.mem = ZoneOf("localtime")]
        [] OTHER -> IF z.isset > 0 /\ z.name = name THEN z
                    ELSE [isset |-> set, name |-> z.name,
                          mem |-> IF name = "" THEN FastZone(z.mem) ELSE ZoneOf(name)]

(* tzset: nothing happens when the zone is that of the same TZ value. *)
tzsetFrom(z, env) ==
  LET name == getenv(env, "TZ")
      set == IF name # None /\ Len(name) <= TZ_STRLEN_MAX THEN 1 ELSE 0
  IN  CASE name = None -> IF z.isset < 0 THEN z
                          ELSE [z EXCEPT !.isset = -1, !.mem = ZoneOf("localtime")]
        [] OTHER -> IF z.isset > 0 /\ z.name = name THEN z
                    ELSE [isset |-> set, name |-> IF set = 1 THEN name ELSE z.name,
                          mem |-> IF name = "" THEN FastZone(z.mem) ELSE ZoneOf(name)]

Zone == [mem |-> lclmem, isset |-> lcl_is_set, name |-> lcl_TZname]

SetZone(z) == lclmem' = z.mem /\ lcl_is_set' = z.isset /\ lcl_TZname' = z.name

(* The zone's first type is a summer time type. *)
Unclean(z) == z.mem.ttis[1].isdst = 1

Init ==
  /\ environ \in UNION {[1..n -> [name : Names, value : DOMAIN Texts]] : n \in 0..2}
  /\ u_env_alloced = FALSE
  /\ lclmem = [ats |-> <<>>, types |-> <<>>, ttis |-> <<Ttinfo(0, 0, 1)>>,
               chars |-> <<"">>, lsis |-> <<>>]
  /\ lcl_is_set = 0 /\ lcl_TZname = ""
  /\ told = [n \in Names |-> getenv(environ, n)]

setenv(name, value, rewrite, mem) ==
  LET i == _findenv(environ, name)
      kept == i # 0 /\ ~rewrite
      new == IF kept THEN environ ELSE SetIn(environ, name, value, mem)
  IN  /\ i = 0 => Len(environ) < MaxVars
      /\ "nomem" \in Flaws \/ mem \/ kept \/ (i # 0 /\ Len(environ[i].value) >= Len(value))
      \* no memory for a longer list: the list itself is lost
      /\ environ' = IF i = 0 /\ u_env_alloced /\ ~mem THEN <<>> ELSE new
      /\ u_env_alloced' = (u_env_alloced \/ i = 0)
      /\ told' = IF getenv(new, name) = value THEN [told EXCEPT ![name] = value] ELSE told
      /\ UNCHANGED <<lclmem, lcl_is_set, lcl_TZname>>

(* Mutant: only the first instance of the variable removed. *)
unsetenvFirst(name) ==
  LET i == _findenv(environ, name)
  IN  /\ environ' = IF i = 0 THEN environ ELSE RemoveAt(environ, i)
      /\ told' = [told EXCEPT ![name] = None]
      /\ UNCHANGED <<u_env_alloced, lclmem, lcl_is_set, lcl_TZname>>

unsetenv(name) ==
  /\ environ' = SelectSeq(environ, LAMBDA e : e.name # name)
  /\ told' = [told EXCEPT ![name] = None]
  /\ UNCHANGED <<u_env_alloced, lclmem, lcl_is_set, lcl_TZname>>

(* tzset, which localtime and mktime call first. *)
tzset ==
  /\ "empty" \in Flaws \/ getenv(environ, "TZ") # "" \/ ~Unclean(Zone)
  /\ SetZone(tzsetFrom(Zone, environ))
  /\ UNCHANGED <<environ, u_env_alloced, told>>

timegm ==
  LET i == _findenv(environ, "TZ")
      utc == SetIn(environ, "TZ", "UTC", TRUE)
      \* the old value, read again after UTC may have been written over it
      zone == CASE i = 0 -> ""
                [] i # 0 /\ Len(environ[i].value) >= 3 -> "UTC"
                [] OTHER -> environ[i].value
      back == SetIn(utc, "TZ", zone, TRUE)
  IN  /\ i = 0 => Len(environ) < MaxVars
      /\ "timegm" \in Flaws \/ getenv(back, "TZ") = told["TZ"]
      /\ "empty" \in Flaws \/ zone # ""
      /\ environ' = back
      /\ u_env_alloced' = (u_env_alloced \/ i = 0)
      /\ SetZone(tzsetFrom(tzsetFrom(Zone, utc), back))
      /\ UNCHANGED told

Next ==
  \/ \E name \in Names, value \in DOMAIN Texts, rewrite, mem \in BOOLEAN :
       setenv(name, value, rewrite, mem)
  \/ \E name \in Names : unsetenv(name)
  \/ tzset
  \/ timegm

Spec == Init /\ [][Next]_zvars

(* Every variable has the value the calls have given it: a call changes    *)
(* the variable it names and no other, whether it succeeds or not, and     *)
(* timegm leaves TZ as it was.                                             *)
VariablesAreKept == \A n \in Names : getenv(environ, n) = told[n]

(* When the zone belongs to the present TZ value (tzset would do nothing), *)
(* times are shown as in a process that starts with this TZ value: the     *)
(* zones used before leave no trace.                                       *)
ZoneFollowsTZ ==
  LET fresh == [mem |-> [ats |-> <<>>, types |-> <<>>, ttis |-> <<Ttinfo(0, 0, 1)>>,
                         chars |-> <<"">>, lsis |-> <<>>], isset |-> 0, name |-> ""]
  IN  tzsetFrom(Zone, environ) = Zone =>
        \A t \in {0, SECSPERDAY * 200} :
          localsub(t, lclmem) = localsub(t, tzsetFrom(fresh, environ).mem)

=============================================================================
