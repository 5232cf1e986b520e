---------------------------- MODULE MCAlgorithms ----------------------------
(* The algorithms of the library that keep nothing: regular expressions, glob() *)
(* and fnmatch(), time zones and broken-down times, the conversions of floating *)
(* point numbers. Each input is one behaviour: the call, and what it returns is *)
(* compared with what it has to return. With them the environment and tzset(),  *)
(* which do keep something.                                                    *)
EXTENDS Integers, Sequences, FiniteSets, TLC

CONSTANTS
  Order, cclasses, cnames, DUPMAX, WordSize,
  Tree, Homes,
  SECSPERMIN, MINSPERHOUR, HOURSPERDAY, TimeBits, IntBits, LastYear,
  TZ_MAX_TIMES, TZ_MAX_TYPES, TZ_MAX_LEAPS, None, Bad, Texts, Files, Names, MaxVars,
  TZ_STRLEN_MAX,
  W, H, P, Bias, TensBits, n_bigtens, Nine, SlackBits, DBL_DIG, Ten_pmax,
  DBL_MAX_10_EXP, Quick_max, Int_max, MaxExponent,
  Flaws

VARIABLES environ, u_env_alloced, lclmem, lcl_is_set, lcl_TZname, told
VARIABLES algorithm, input, called

Regexp == INSTANCE Regex
Globbing == INSTANCE Glob
Zones == INSTANCE Time
Floats == INSTANCE Float

ASSUME Floats!FormatAssumption

UpTo(S, n) == UNION {[1 .. k -> S] : k \in 0 .. n}

-----------------------------------------------------------------------------
(* Regular expressions: loops round choices, references to a subexpression,    *)
(* marks, and any text at all.                                                 *)

MCOrder == <<"NL", "$", "(", ")", "*", "+", ",", "-", ".", "0", "1", "2", ":", "<", "=", ">",
             "?", "A", "B", "[", "\\", "]", "^", "_", "a", "b", "{", "|", "}">>
MCclasses == <<"a">> :> {"a"}
MCnames == <<"A", "B">> :> "a"

A == Regexp!Chr("a")
B == Regexp!Chr("b")
Bounds == {<<<<"*">>, 0, DUPMAX + 1>>, <<<<"{", "2">>, 2, 2>>, <<<<"{", "1", ",", "2">>, 1, 2>>}
EreBounds == Bounds \cup {<<<<"+">>, 1, DUPMAX + 1>>, <<<<"?">>, 0, 1>>, <<<<"{", "2", ",">>, 2, DUPMAX + 1>>}
Reps(S, bounds) == {Regexp!Rep(x, b[1], b[2], b[3]) : x \in S, b \in bounds}
Cats(S, T) == {Regexp!Cat(x, y) : x \in S, y \in T}
Alts(S, T) == {Regexp!Alt(x, y) : x \in S, y \in T}
Grps(S) == {Regexp!Grp(x) : x \in S}

Choices ==
  LET words == {A, Regexp!Cat(A, B)}
      loops == Reps(Grps(Alts(words, words)), EreBounds)
  IN  loops \cup Cats(loops, {A})
References ==
  LET as == Regexp!Rep(A, <<"*">>, 0, DUPMAX + 1)
      groups == Grps({A, Regexp!Cat(as, B), Regexp!Dot})
  IN  Cats(groups \cup Reps(groups, Bounds), {Regexp!Ref(1)} \cup Reps({Regexp!Ref(1)}, Bounds))
Marks ==
  LET atoms == {A, Regexp!Bol, Regexp!Eol, Regexp!Bow, Regexp!Eow, Regexp!Chr("NL"), Regexp!Chr("_"),
                Regexp!Bracket(<<"[", "^", "a", "]">>, {"a"}, TRUE),
                Regexp!Bracket(<<"[", "a", "-", "b", "]">>, {"a", "b"}, FALSE)}
  IN  Cats(atoms, Cats(atoms, {A, Regexp!Eol})) \cup Alts({A, Regexp!Bow, Regexp!Eol}, atoms)
Expressions ==
  {e \in [ere : {TRUE}, x : Choices, over : {{"a", "B"}}]
         \cup [ere : {FALSE}, x : References, over : {{"a", "B"}}]
         \cup [ere : {TRUE}, x : Marks, over : {{"a", "NL", "."}}] :
     Regexp!ShapeOf(e.x) \subseteq Flaws}

\* regexec() finds a match if there is one, the leftmost and of those the longest,
\* and what the subexpressions match in it adds up (engine.h).
MatchIsRight(e) ==
  \A cflags \in {{}, {"ICASE", "NEWLINE"}} :
    \A g \in {Regexp!regcomp(Regexp!Printed(e.x, e.ere), cflags \cup IF e.ere THEN {"EXTENDED"} ELSE {})} :
      g.error = "" =>
        \A t \in UpTo(e.over, 3), eflags \in {{}, {"NOTBOL", "NOTEOL"}} :
          \A range \in {<<0, Len(t)>>} \cup IF Len(t) > 1 THEN {<<1, Len(t) - 1>>} ELSE {} :
            Regexp!Right(e.x, [str |-> t, beginp |-> range[1], endp |-> range[2], eflags |-> eflags,
                               newline |-> "NEWLINE" \in cflags, icase |-> "ICASE" \in cflags],
                         Regexp!regexec(g, t, 9, range, eflags))

\* What regcomp() accepts it compiles to a strip whose jumps meet (regcomp.c).
Compiles(text) ==
  \A cflags \in {{}, {"EXTENDED"}, {"NOSPEC"}} : \A g \in {Regexp!regcomp(text, cflags)} :
    g.error = "" => Regexp!StripIsWhole(g) /\ Regexp!CategoriesAreSound(g)
RegexTexts ==
  UpTo({"a", "*", "(", ")", "|", "\\", "^", "$"}, 3) \cup {<<"a", "{">> \o t : t \in UpTo({"a", "{", "1", ",", "}"}, 3)}
  \cup {<<"[">> \o t \o <<"]">> : t \in UpTo({"a", "b", "]", "-", "^"}, 3) \cup UpTo({"a", "[", ".", ":", "="}, 2)
                                        \cup {<<"[", c>> \o name \o <<c, "]">> : c \in {".", ":", "="},
                                                                                name \in UpTo({"a", "A", "B"}, 2)}}

-----------------------------------------------------------------------------

(* glob() in a small tree with a link and a directory that cannot be read, and *)
(* fnmatch().  Characters are numbers, as in Glob.                             *)

Dot == 20
Slash == 21
MCTree ==
  [dirs |-> {<<>>, <<<<1>>>>, <<<<1>>, <<1, 2>>>>, <<<<1, 2>>>>, <<<<Dot, 1>>>>},
   files |-> {<<<<1>>, <<2>>>>, <<<<1, 2>>, <<1>>>>, <<<<Dot, 1>>, <<2>>>>, <<<<12>>>>},
   links |-> <<<<2>>>> :> <<<<1>>>>, cwd |-> <<>>, shut |-> {<<<<1, 2>>>>}]
MCHomes == <<>> :> <<Slash, 1>> @@ <<2>> :> <<Slash, 1, 2>>

GlobCall(f, e, r) == [flags |-> f, errfunc |-> e, room |-> r]
\* flags, the error function, how many paths there is memory for, and the patterns
GlobCalls ==
  LET STAR == Globbing!STAR
      SEP == Globbing!SEP
      All(patterns, flags, errfuncs, rooms) ==
        {<<p, GlobCall(f, e, r)>> : p \in patterns, f \in flags, e \in errfuncs, r \in rooms}
      LB == Globbing!LBRACKET
      RB == Globbing!RBRACKET
      LC == Globbing!LBRACE
      RC == Globbing!RBRACE
      COMMA == Globbing!COMMA
  IN  All(UpTo({1, STAR, Globbing!QUESTION, Globbing!DOT, SEP}, 3), {{}, {"APPEND", "MARK", "NOCHECK"}}, {"none"}, {9})
      \cup All({p \o x : p \in UpTo({1, STAR, SEP}, 2), x \in {<<SEP, STAR>>, <<STAR, SEP>>}},
               {{}, {"ERR", "NOMAGIC"}, {"NOSORT", "APPEND"}}, {"none", "go", "stop"}, {1, 2, 9})
      \cup All({<<LB>> \o p : p \in UpTo({1, 12, RB, Globbing!NOT, Globbing!RANGE}, 3)
                                    \cup {x \o <<RB, STAR>> : x \in UpTo({1, 12}, 2)}},
               {{}, {"NOCHECK", "NOCASE"}}, {"none"}, {9})
      \cup All({p \o x : p \in UpTo({1, LC, RC, COMMA}, 3),
                         x \in {<<>>, <<RC>>, <<STAR, RC>>, <<COMMA, 2, RC>>}},
               {{"BRACE"}, {"BRACE", "NOCHECK"}}, {"none"}, {9})
      \cup All(UpTo({11, 12, Globbing!HASH, Globbing!QUESTION, Globbing!QUOTE, STAR, Globbing!COLON}, 3),
               {{"AMIGA", "NOCASE"}, {"QUOTE", "NOCHECK"}}, {"none"}, {9})
      \cup All({<<Globbing!TILDE>> \o p : p \in UpTo({1, 2, SEP, STAR}, 3)},
               {{"TILDE", "NOCHECK"}, {"TILDE", "NOMAGIC"}}, {"none"}, {9})
      \cup All({<<LC>> \o p \o <<RC>> : p \in UpTo({1, STAR, COMMA, LB, RB}, 3)}, {{"BRACE"}}, {"none"}, {1, 9})
FnCalls ==
  {<<p, t, f>> : p \in UpTo({1, Globbing!STAR, Globbing!QUESTION, Globbing!DOT, Globbing!SEP}, 3),
                 t \in UpTo({1, Globbing!DOT, Globbing!SEP}, 3), f \in {{}, {"PATHNAME", "PERIOD"}}}
  \cup
  {<<<<Globbing!LBRACKET>> \o p \o x, t, f>> :
     p \in UpTo({1, 3, Globbing!RBRACKET, Globbing!NOT, Globbing!RANGE, Globbing!QUOTE}, 3),
     x \in {<<Globbing!RBRACKET>>, <<Globbing!RBRACKET, Globbing!STAR>>},
     t \in {<<1>>, <<2>>, <<Globbing!RANGE>>, <<3, 1>>}, f \in {{}, {"NOESCAPE"}}}

-----------------------------------------------------------------------------
(* Time: zones compiled by zic, POSIX TZ texts, broken-down times and their    *)
(* texts.                                                                      *)

Hours(n) == [neg |-> n < 0, hms |-> <<IF n < 0 THEN -n ELSE n>>]
Rule(type, day, mon, week, time) == [type |-> type, day |-> day, mon |-> mon, week |-> week, time |-> time]
Text(std, off, dst, dstoff, rules) ==
  [std |-> std, off |-> Hours(off), dst |-> dst, dstoff |-> dstoff, rules |-> rules]
PosixTexts ==
  LET Rules == [type : {"J", "n"}, day : {60}, mon : {1}, week : {1}, time : {None, <<20>>}]
               \cup [type : {"M"}, day : {0, 3}, mon : {2, 12}, week : {5}, time : {None}]
  IN  {Text("EST", o[1], "EDT", o[2], <<a, b>>) : o \in {<<-1, None>>, <<2, Hours(-2)>>}, a \in Rules, b \in Rules}

\* Zone files: a zone with rules, or one that goes from one offset to another.
At(h, suffix) == [neg |-> FALSE, hms |-> <<h>>, suffix |-> suffix]
On(code, day) == [code |-> code, wday |-> 0, day |-> day]
Ats == {At(1, "w"), At(2, "s"), At(0, "u")}
RuleLine(from, to, in, on, at, save, letters) ==
  [kind |-> "rule", name |-> "US", letters |-> letters, save |-> Hours(save),
   rule |-> [from |-> from, to |-> to, type |-> None, in |-> in, on |-> on, at |-> at]]
ZoneLine(kind, off, rule, hms, format, until) ==
  [kind |-> kind, name |-> "Z", gmtoff |-> Hours(off), rule |-> [name |-> rule, hms |-> hms],
   format |-> format, until |-> until]
Format(kind, std, dst) == [kind |-> kind, std |-> std, dst |-> dst]
Until(y, in, d, at) == [from |-> y, to |-> None, type |-> None, in |-> in, on |-> On("=", d), at |-> at]
ZoneSources ==
  LET Starts == {RuleLine(1967, Zones!INT_MAX, 3, On(">=", 1), a, 1, "D") : a \in Ats}
      Ends == {RuleLine(1967, Zones!INT_MAX, 9, On("last", 0), a, 0, "S") : a \in Ats}
      Twice == RuleLine(1969, 1970, 6, On("=", 15), At(1, "w"), 2, "DD")
      Whole == {<<ZoneLine("zone", o, "US", None, Format("%s", "E", ""), None)>> : o \in {-1, 1}}
      Halves == {<<ZoneLine("zone", 1, r, h, IF r = "US" THEN Format("%s", "E", "") ELSE Format("plain", "L", ""),
                            Until(1969, in, d, At(1, "w"))),
                   ZoneLine("cont", -1, "US", None, Format("/", "P", "Q"), None)>> :
                  r \in {"US", "-"}, h \in {None, Hours(1)}, in \in {3, 6, 9}, d \in {1, 5}}
  IN  {<<s, e, Twice>> \o z : s \in Starts, e \in Ends, z \in Whole}
      \cup {<<s, e>> \o z : s \in Starts, e \in Ends, z \in Halves}
Leap(y, m, d, s, c) ==
  [year |-> y, month |-> m, day |-> d, at |-> [neg |-> FALSE, hms |-> <<2, 1, s>>], positive |-> TRUE,
   count |-> c, roll |-> FALSE]
Leaps == {<<>>, <<Leap(1969, 11, 31, 2, 1), Leap(1968, 5, 30, 2, 2)>>}

TimeFormats ==
  {<<Zones!Con(a), Zones!Lit("x"), Zones!Con(b)>> :
     a \in {"c", "C", "r", "A", "B", "j"}, b \in {"D", "R", "T", "U", "W", "Z", "p", "e", "l", "Y", "n"}}

\* The values of TZ, and the zone files there are.
MCTexts == ("" :> Bad) @@ ("UTC" :> Bad) @@ ("E1" :> Bad) @@ ("localtime" :> Bad)
           @@ ("EST1" :> Text("EST", 1, None, None, None))
           @@ ("EST1EDT" :> Text("EST", 1, "EDT", None, <<Rule("M", 0, 3, 2, None), Rule("M", 0, 11, 1, None)>>))
MCFiles == "localtime" :> [ats |-> <<>>, types |-> <<>>, ttis |-> <<[off |-> 4, isdst |-> 0, abbr |-> 1, ttisstd |-> FALSE, ttisgmt |-> FALSE]>>,
                           chars |-> <<"CET">>, lsis |-> <<>>]

-----------------------------------------------------------------------------
(* Floating point numbers of eleven bits.                                      *)

DigitsOf(n) ==
  LET t == [i \in 1 .. 5 |-> (n \div 10 ^ (5 - i)) % 10]
  IN  SubSeq(t, CHOOSE i \in 1 .. 5 : t[i] # 0 /\ \A j \in 1 .. (i - 1) : t[j] = 0, 5)
SomeNumbers == {1, 3, 10, 127, 128, 625, 9999, 16383, 16384, 262143, 262144, 268435455, 2000000000}
BigintInputs == SomeNumbers \X SomeNumbers \X {0, 1, 4, 7, 9}
NearestInputs == ((1 .. 20) \cup (990 .. 1010) \cup {12345 + 1771 * i : i \in 0 .. 40}) \X (-17 .. 10)
NumberTexts == UpTo({0, 1, 10, 11, 12, 14}, 5)
Doubles == {Floats!D(n, q) : n \in {Floats!Hidden + 31 * i : i \in 0 .. 33}, q \in Floats!QMin .. Floats!Big.q}
           \cup {Floats!D(5 * n, Floats!QMin) : n \in 1 .. 200}
RoundedInputs == {Floats!D(n, Floats!QMin + q) : n \in {Floats!Hidden + 128 * i : i \in 0 .. 7}
                                                         \cup {Floats!Hidden + 113 * i : i \in 0 .. 9},
                                                   q \in {0, 5, 14, 29, 34, 40, 50}}
                 \X {2, 3, 5, 6, 7, 9} \X (-2 .. 4)

-----------------------------------------------------------------------------

MCInit ==
  /\ \/ algorithm = "regexec" /\ input \in Expressions
     \/ algorithm = "regcomp" /\ input \in RegexTexts
     \/ algorithm = "glob" /\ input \in GlobCalls
     \/ algorithm = "fnmatch" /\ input \in FnCalls
     \/ algorithm = "zic" /\ input \in ZoneSources \X Leaps
     \/ algorithm = "tzparse" /\ input \in PosixTexts
     \/ algorithm = "strftime" /\ input \in TimeFormats \X {0, 2, 12, 28, 40} \X {0, 500}
     \/ algorithm = "weeks" /\ input \in {60 * k + 7 : k \in 0 .. 219}
     \/ algorithm = "bigints" /\ input \in BigintInputs
     \/ algorithm = "nearest" /\ input \in NearestInputs
     \/ algorithm = "texts" /\ input \in NumberTexts
     \/ algorithm = "shortest" /\ input \in Doubles
     \/ algorithm = "rounded" /\ input \in RoundedInputs
     \/ algorithm = "environ" /\ input = 0
  /\ called = FALSE
  /\ IF algorithm = "environ" THEN Zones!Init
     ELSE environ = 0 /\ u_env_alloced = 0 /\ lclmem = 0 /\ lcl_is_set = 0 /\ lcl_TZname = 0 /\ told = 0
Call == /\ algorithm # "environ" /\ ~called /\ called' = TRUE
        /\ UNCHANGED <<algorithm, input, environ, u_env_alloced, lclmem, lcl_is_set, lcl_TZname, told>>
Environ == algorithm = "environ" /\ Zones!Next /\ UNCHANGED <<algorithm, input, called>>
MCNext == Call \/ Environ
vars == <<algorithm, input, called, environ, u_env_alloced, lclmem, lcl_is_set, lcl_TZname, told>>
MCSpec == MCInit /\ [][MCNext]_vars

\* A pattern matches what it has to match: regcomp() and regexec() (regcomp.c, engine.h)
\* find the leftmost longest match, whose parts fit; glob() (glob.c) returns the paths of
\* the tree that the pattern names, and fnmatch() (fnmatch.c) agrees with its meaning.
PatternsMatch ==
  called => /\ algorithm = "regexec" => MatchIsRight(input)
            /\ algorithm = "regcomp" => Compiles(input)
            /\ algorithm = "glob" => Globbing!GlobAgrees(input[1], input[2], <<<<3>>>>)
            /\ algorithm = "fnmatch" => Globbing!FnAgrees(input[1], input[2], input[3])
\* The local time is the one the zone's lines or the text of TZ give: through zic's
\* compiler and localtime()'s reader (zic.c, localtime.c), tzparse() and the week
\* numbers and texts of strftime(); setenv() and unsetenv() keep every other variable,
\* and what tzset() set is what TZ now says.
TimesAreRight ==
  /\ algorithm = "environ" => Zones!VariablesAreKept /\ Zones!ZoneFollowsTZ
  /\ called => /\ algorithm = "zic" => Zones!LeapsAgree(input[1], input[2])
               /\ algorithm = "tzparse" => Zones!RulesAgree(input)
               /\ algorithm = "strftime" =>
                    Zones!TextFits(input[2], input[1], [zone |-> "E"] @@ Zones!timesub(input[3], 0, <<>>))
               /\ algorithm = "weeks" => Zones!WeeksAgree(Zones!timesub(input, 0, <<>>))
\* strtod() returns the number nearest to its text, and dtoa() the shortest text that
\* reads back as the number, or the number rounded correctly to the digits asked for
\* (strtod.c); the multiple-precision integers they use agree with arithmetic.
NumbersAreNearest ==
  called => /\ algorithm = "bigints" => Floats!BigintsAgree(input[1], input[2], input[3])
            /\ algorithm = "nearest" => Floats!ReadsNearest(DigitsOf(input[1]), input[2])
            /\ algorithm = "texts" => Floats!ReadsAll(input)
            /\ algorithm = "shortest" => Floats!Shortest(input)
            /\ algorithm = "rounded" => Floats!CorrectlyRounded(input[1], input[2], input[3])
=============================================================================
