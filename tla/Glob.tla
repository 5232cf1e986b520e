-------------------------------- MODULE Glob --------------------------------
(***************************************************************************)
(* general/glob.c and general/fnmatch.c: file names that match a pattern.  *)
(*                                                                         *)
(* Characters are small numbers, letters first, in the order ranges use;   *)
(* the flag bits M_PROTECT and M_QUOTE of a Char are added to them.  The   *)
(* hierarchy is a record: the paths (sequences of names) of its            *)
(* directories, files and links to directories, and the directories that   *)
(* cannot be read.  Who is at home where is a function from user names,    *)
(* the empty name being the caller.                                        *)
(***************************************************************************)
EXTENDS Integers, Sequences, SequencesExt, FiniteSets

CONSTANTS Tree, Homes, Flaws

\* What follows a call, given what it returned.
Then(called, Rest(_)) == Rest(called)

EOS == 0
DOT == 20
SEP == 21
STAR == 22
QUESTION == 23
LBRACKET == 24
RBRACKET == 25
NOT == 26
RANGE == 27
QUOTE == 28
LBRACE == 29
RBRACE == 30
COMMA == 31
TILDE == 32
HASH == 33
COLON == 34
CARET == 35

tolower(c) == IF c \in 11..19 THEN c - 10 ELSE c
M_PROTECT(c) == c + 100
META(c) == c + 200
ismeta(c) == c >= 200
CHAR(c) == c % 100
M_ALL == META(STAR)
M_END == META(RBRACKET)
M_NOT == META(NOT)
M_ONE == META(QUESTION)
M_RNG == META(RANGE)
M_SET == META(LBRACKET)

At(q, i) == IF i \in DOMAIN q THEN q[i] ELSE EOS
From(q, i) == SubSeq(q, i, Len(q))
g_Ctoc(q) == [i \in DOMAIN q |-> CHAR(q[i])]
g_strchr(q, i, c) == LET at == {j \in DOMAIN q : j >= i /\ q[j] = c}
                     IN  IF at = {} THEN 0 ELSE CHOOSE j \in at : \A k \in at : j <= k

-----------------------------------------------------------------------------
(* Matching one name with a compiled pattern. *)
RECURSIVE InSet(_, _, _, _)
InSet(pat, i, k, nocase) ==
  LET low(c) == IF nocase THEN tolower(c) ELSE c
  IN  IF pat[i] = M_END THEN [ok |-> FALSE, end |-> i + 1]
      ELSE IF At(pat, i + 1) = M_RNG
      THEN LET r == InSet(pat, i + 3, k, nocase)
           IN  [r EXCEPT !.ok = @ \/ (low(pat[i]) <= k /\ k <= low(pat[i + 2]))]
      ELSE LET r == InSet(pat, i + 1, k, nocase) IN [r EXCEPT !.ok = @ \/ low(pat[i]) = k]

(* Mutant: a star stands for at least one character. *)
RECURSIVE matchSome(_, _, _)
matchSome(name, pat, nocase) ==
  LET low(c) == IF nocase THEN tolower(c) ELSE c
      neg == At(pat, 2) = M_NOT
      set == InSet(pat, IF neg THEN 3 ELSE 2, low(Head(name)), nocase)
  IN  IF pat = <<>> THEN name = <<>>
      ELSE IF Head(pat) = M_ALL
      THEN Len(pat) = 1 \/ \E i \in 2..(Len(name) + 1) : matchSome(From(name, i), Tail(pat), nocase)
      ELSE IF name = <<>> THEN FALSE
      ELSE IF Head(pat) = M_ONE THEN matchSome(Tail(name), Tail(pat), nocase)
      ELSE IF Head(pat) = M_SET THEN set.ok # neg /\ matchSome(Tail(name), From(pat, set.end), nocase)
      ELSE low(Head(name)) = low(Head(pat)) /\ matchSome(Tail(name), Tail(pat), nocase)

RECURSIVE match(_, _, _)
match(name, pat, nocase) ==
  LET low(c) == IF nocase THEN tolower(c) ELSE c
      neg == At(pat, 2) = M_NOT
      set == InSet(pat, IF neg THEN 3 ELSE 2, low(Head(name)), nocase)
  IN  IF pat = <<>> THEN name = <<>>
      ELSE IF Head(pat) = M_ALL
      THEN Len(pat) = 1 \/ \E i \in 1..(Len(name) + 1) : match(From(name, i), Tail(pat), nocase)
      ELSE IF name = <<>> THEN FALSE
      ELSE IF Head(pat) = M_ONE THEN match(Tail(name), Tail(pat), nocase)
      ELSE IF Head(pat) = M_SET THEN set.ok # neg /\ match(Tail(name), From(pat, set.end), nocase)
      ELSE low(Head(name)) = low(Head(pat)) /\ match(Tail(name), Tail(pat), nocase)

-----------------------------------------------------------------------------
(* Paths as strings, and the hierarchy. *)
RECURSIVE NamesOf(_)
NamesOf(str) ==
  LET k == g_strchr(str, 1, SEP)
  IN  IF k = 0 THEN (IF str = <<>> THEN <<>> ELSE <<str>>)
      ELSE (IF k = 1 THEN <<>> ELSE <<SubSeq(str, 1, k - 1)>>) \o NamesOf(From(str, k + 1))

RECURSIVE Resolved(_, _)
Resolved(at, names) ==
  IF names = <<>> THEN at
  ELSE IF Head(names) = <<DOT>> THEN Resolved(at, Tail(names))
  ELSE IF Head(names) = <<DOT, DOT>> THEN Resolved(IF at = <<>> THEN <<>> ELSE Front(at), Tail(names))
  ELSE LET next == Append(at, Head(names))
       IN  Resolved(IF next \in DOMAIN Tree.links /\ Len(names) > 1 THEN Tree.links[next] ELSE next, Tail(names))

(* A file in the way of further names, or of a slash, is not a directory. *)
RECURSIVE PathOf(_, _)
PathOf(at, names) ==
  IF names = <<>> THEN TRUE
  ELSE LET to == Resolved(at, <<Head(names)>>)
       IN  /\ at \in Tree.dirs
           /\ to \in Tree.dirs \cup Tree.files \cup DOMAIN Tree.links
           /\ PathOf(IF to \in DOMAIN Tree.links /\ Len(names) > 1 THEN Tree.links[to] ELSE to, Tail(names))
Home(str) == IF At(str, 1) = SEP THEN <<>> ELSE Tree.cwd
Node(str) == Resolved(Home(str), NamesOf(str))
DirAt(n) == IF n \in DOMAIN Tree.links THEN Tree.links[n] ELSE n
g_lstat(str) == /\ str # <<>>
                /\ PathOf(Home(str), NamesOf(str))
                /\ Last(str) = SEP => DirAt(Node(str)) \in Tree.dirs
IsDirectory(str) == DirAt(Node(str)) \in Tree.dirs
Children(d) == {Last(n) : n \in {m \in (Tree.dirs \cup Tree.files \cup DOMAIN Tree.links) : m # <<>> /\ Front(m) = d}}
g_opendir(str) ==
  LET d == DirAt(Node(str))
  IN Then(PathOf(Home(str), NamesOf(str)) /\ d \in Tree.dirs \ Tree.shut, LAMBDA ok :
      [ok |-> ok, names |-> IF ok THEN Children(d) \cup {<<DOT>>, <<DOT, DOT>>} ELSE {}])

-----------------------------------------------------------------------------
(* glob: c is the call (flags, what errfunc is and says, room for paths),  *)
(* r what there is so far: an error, the paths, whether any was magic.     *)
RECURSIVE Before(_, _)
Before(a, b) == b # <<>> /\ (a = <<>> \/ Head(a) < Head(b) \/ (Head(a) = Head(b) /\ Before(Tail(a), Tail(b))))
compare(a, b) == Before(a, b)
icompare(a, b) == Before([i \in DOMAIN a |-> tolower(a[i])], [i \in DOMAIN b |-> tolower(b[i])])

RECURSIVE InOrder(_)
InOrder(set) ==
  IF set = {} THEN <<>>
  ELSE LET x == CHOOSE y \in set : \A z \in set \ {y} : Before(y, z) IN <<x>> \o InOrder(set \ {x})

globextend(r, path, c) ==
  IF Len(r.paths) >= c.room THEN [r EXCEPT !.err = "NOSPACE"] ELSE [r EXCEPT !.paths = Append(@, g_Ctoc(path))]

Slashes(pat) == CHOOSE n \in 0..Len(pat) : (\A i \in 1..n : pat[i] = SEP) /\ At(pat, n + 1) # SEP

RECURSIVE glob2(_, _, _, _)
RECURSIVE Matching(_, _, _, _, _, _)
glob3(r, path, seg, rest, c) ==
  LET dir == g_opendir(IF path = <<>> THEN <<DOT>> ELSE path)
  IN  IF dir.ok THEN Matching(r, path, seg, rest, c, InOrder(dir.names))
      ELSE IF c.errfunc # "none" /\ (c.errfunc = "stop" \/ "ERR" \in c.flags) THEN [r EXCEPT !.err = "ABEND"]
      ELSE r

(* The names of a directory that match a segment, each with what follows. *)
Matching(r, path, seg, rest, c, names) ==
  IF names = <<>> \/ r.err # "" THEN r
  ELSE LET name == Head(names)
           ok == (Head(name) = DOT => Head(seg) = DOT) /\ match(name, seg, "NOCASE" \in c.flags)
       IN  Matching(IF ok THEN glob2(r, path \o name, rest, c) ELSE r, path, seg, rest, c, Tail(names))

glob2(r, path, pat, c) ==
  LET k == g_strchr(pat, 1, SEP)
      seg == IF k = 0 THEN pat ELSE SubSeq(pat, 1, k - 1)
      rest == From(pat, Len(seg) + 1)
      n == Slashes(rest)
      marked == "MARK" \in c.flags /\ Last(path) # SEP /\ IsDirectory(path)
  IN  IF pat = <<>>
      THEN (IF g_lstat(path) THEN globextend(r, IF marked THEN Append(path, SEP) ELSE path, c) ELSE r)
      ELSE IF \E i \in DOMAIN seg : ismeta(seg[i]) THEN glob3(r, path, seg, rest, c)
      ELSE glob2(r, path \o seg \o SubSeq(rest, 1, n), From(rest, n + 1), c)

globtilde(pattern, c) ==
  LET k == g_strchr(pattern, 1, SEP)
      end == IF k = 0 THEN Len(pattern) + 1 ELSE k
      user == g_Ctoc(SubSeq(pattern, 2, end - 1))
  IN  IF At(pattern, 1) # TILDE \/ "TILDE" \notin c.flags \/ user \notin DOMAIN Homes THEN pattern
      ELSE Homes[user] \o From(pattern, end)

(* The pattern with its magic characters marked. *)
RECURSIVE Bracket(_, _, _)
Bracket(q, k, buf) ==
  LET range == At(q, k + 1) = RANGE /\ At(q, k + 2) # RBRACKET
      more == buf \o (IF range THEN <<CHAR(q[k]), M_RNG, CHAR(q[k + 2])>> ELSE <<CHAR(q[k])>>)
      next == IF range THEN k + 3 ELSE k + 1
  IN  IF q[next] = RBRACKET THEN [buf |-> Append(more, M_END), next |-> next + 1] ELSE Bracket(q, next, more)

RECURSIVE Compile(_, _, _, _)
Compile(q, i, buf, flags) ==
  LET j == IF At(q, i + 1) = NOT THEN i + 2 ELSE i + 1
      star == IF buf # <<>> /\ Last(buf) = M_ALL THEN buf ELSE Append(buf, M_ALL)
      set == Bracket(q, j, buf \o (IF At(q, i + 1) = NOT THEN <<M_SET, M_NOT>> ELSE <<M_SET>>))
  IN  IF i > Len(q) THEN buf
      ELSE IF q[i] = LBRACKET
      THEN IF At(q, j) = EOS \/ g_strchr(q, j + 1, RBRACKET) = 0 THEN Compile(q, i + 1, Append(buf, LBRACKET), flags)
           ELSE Compile(q, set.next, set.buf, flags)
      ELSE IF q[i] = QUESTION THEN Compile(q, i + 1, Append(buf, M_ONE), flags)
      ELSE IF q[i] = STAR THEN Compile(q, i + 1, star, flags)
      ELSE IF q[i] = HASH /\ "AMIGA" \in flags /\ At(q, i + 1) = QUESTION THEN Compile(q, i + 2, star, flags)
      ELSE Compile(q, i + 1, Append(buf, CHAR(q[i])), flags)

glob0(r0, pattern, c) ==
  Then(Compile(globtilde(pattern, c), 1, <<>>, c.flags), LAMBDA pat :
  LET magic == r0.magic \/ \E i \in DOMAIN pat : ismeta(pat[i])
  IN Then([(IF pat = <<>> THEN r0 ELSE glob2(r0, <<>>, pat, c)) EXCEPT !.magic = magic], LAMBDA r :
  LET old == Len(r0.paths)
      new == SubSeq(r.paths, old + 1, Len(r.paths))
      before(a, b) == IF "NOCASE" \in c.flags THEN icompare(a, b) ELSE compare(a, b)
  IN  IF r.err # "" THEN r
      ELSE IF new = <<>> /\ ("NOCHECK" \in c.flags \/ ("NOMAGIC" \in c.flags /\ ~magic)) THEN globextend(r, pattern, c)
      ELSE IF "NOSORT" \in c.flags THEN r
      ELSE [r EXCEPT !.paths = SubSeq(r.paths, 1, old) \o SortSeq(new, before)]))

(* Past a bracket expression, or just the bracket when it is not one. *)
Opaque(q, i) == LET k == g_strchr(q, i + 1, RBRACKET) IN IF k = 0 THEN i ELSE k

RECURSIVE Balanced(_, _, _)
Balanced(q, pe, depth) ==
  IF pe > Len(q) THEN 0
  ELSE IF q[pe] = LBRACKET THEN Balanced(q, Opaque(q, pe) + 1, depth)
  ELSE IF q[pe] = LBRACE THEN Balanced(q, pe + 1, depth + 1)
  ELSE IF q[pe] = RBRACE THEN (IF depth = 0 THEN pe ELSE Balanced(q, pe + 1, depth - 1))
  ELSE Balanced(q, pe + 1, depth)

(* Each string between the braces, in the place of all of them; a bracket  *)
(* in one makes the string begin there.                                    *)
RECURSIVE globexp1(_, _, _)
RECURSIVE Alternatives(_, _, _, _, _, _, _, _)
Alternatives(r, q, ptr, pl, pm, pe, depth, c) ==
  LET one == SubSeq(q, 1, ptr - 1) \o SubSeq(q, pl, pm - 1) \o From(q, pe + 1)
  IN  IF pm > pe THEN [r EXCEPT !.err = ""]
      ELSE IF q[pm] = LBRACKET
      THEN Alternatives(r, q, ptr, pm, Opaque(q, pm) + 1, pe, depth, c)
      ELSE IF q[pm] = LBRACE THEN Alternatives(r, q, ptr, pl, pm + 1, pe, depth + 1, c)
      ELSE IF q[pm] = RBRACE /\ depth > 0 THEN Alternatives(r, q, ptr, pl, pm + 1, pe, depth - 1, c)
      ELSE IF q[pm] = RBRACE \/ (q[pm] = COMMA /\ depth = 0)
      THEN Alternatives(globexp1([r EXCEPT !.err = ""], one, c), q, ptr, pm + 1, pm + 1, pe, depth, c)
      ELSE Alternatives(r, q, ptr, pl, pm + 1, pe, depth, c)

globexp2(r, q, ptr, c) ==
  LET pe == Balanced(q, ptr + 1, 0)
  IN  IF pe = 0 THEN glob0(r, SubSeq(q, 1, ptr - 1), c)
      ELSE Alternatives(r, q, ptr, ptr + 1, ptr + 1, pe, 0, c)

globexp1(r, q, c) ==
  IF q = <<LBRACE, RBRACE>> \/ g_strchr(q, 1, LBRACE) = 0 THEN glob0(r, q, c)
  ELSE globexp2(r, q, g_strchr(q, 1, LBRACE), c)

RECURSIVE Protected(_)
Protected(q) ==
  IF q = <<>> THEN <<>>
  ELSE IF Head(q) = QUOTE
  THEN (IF Len(q) = 1 THEN <<M_PROTECT(QUOTE)>> ELSE <<M_PROTECT(q[2])>> \o Protected(From(q, 3)))
  ELSE <<Head(q)>> \o Protected(Tail(q))

(* An AmigaDOS name, with its volume, becomes a path from the root. *)
Converted(pattern) ==
  LET k == g_strchr(pattern, 1, COLON)
  IN  IF k = 0 THEN pattern ELSE <<SEP>> \o [pattern EXCEPT ![k] = SEP]

glob(pattern, c, paths) ==
  LET q == IF "QUOTE" \in c.flags THEN Protected(Converted(pattern)) ELSE Converted(pattern)
      r == [err |-> "", magic |-> FALSE, paths |-> IF "APPEND" \in c.flags THEN paths ELSE <<>>]
  IN  IF "BRACE" \in c.flags THEN globexp1(r, q, c) ELSE glob0(r, q, c)

-----------------------------------------------------------------------------
(* fnmatch *)
RECURSIVE RangeFrom(_, _, _, _, _)
RangeFrom(p, i, test, ok, flags) ==
  LET esc(k) == At(p, k) = QUOTE /\ "NOESCAPE" \notin flags
      a == IF esc(i) THEN i + 1 ELSE i
      range == At(p, a + 1) = RANGE /\ At(p, a + 2) \notin {EOS, RBRACKET}
      b == IF esc(a + 2) THEN a + 3 ELSE a + 2
  IN  IF At(p, i) = RBRACKET THEN [ok |-> ok, end |-> i + 1]
      ELSE IF At(p, a) = EOS \/ (range /\ At(p, b) = EOS) THEN [ok |-> FALSE, end |-> 0]
      ELSE IF range THEN RangeFrom(p, b + 1, test, ok \/ (p[a] <= test /\ test <= p[b]), flags)
      ELSE RangeFrom(p, a + 1, test, ok \/ p[a] = test, flags)

(* Where the pattern goes on, or nowhere. *)
rangematch(p, i, test, flags) ==
  LET negate == At(p, i) \in {NOT, CARET}
      r == RangeFrom(p, IF negate THEN i + 1 ELSE i, test, FALSE, flags)
  IN  IF r.end = 0 \/ r.ok = negate THEN 0 ELSE r.end

RECURSIVE FnFrom(_, _, _, _, _, _)
FnFrom(p, i, str, j, start, flags) ==
  LET c == At(p, i)
      x == At(str, j)
      path == "PATHNAME" \in flags
      leading == x = DOT /\ "PERIOD" \in flags /\ (j = start \/ (path /\ str[j - 1] = SEP))
      after == CHOOSE k \in i..(Len(p) + 1) : At(p, k) # STAR /\ \A m \in i..(k - 1) : p[m] = STAR
      slash == g_strchr(str, j, SEP)
      range == rangematch(p, i + 1, x, flags)
      escaped == c = QUOTE /\ "NOESCAPE" \notin flags /\ At(p, i + 1) # EOS
  IN  IF c = EOS THEN x = EOS
      ELSE IF c = QUESTION
      THEN x # EOS /\ ~(x = SEP /\ path) /\ ~leading /\ FnFrom(p, i + 1, str, j + 1, start, flags)
      ELSE IF c = STAR
      THEN IF leading THEN FALSE
           ELSE IF At(p, after) = EOS THEN path => slash = 0
           ELSE IF At(p, after) = SEP /\ path THEN slash # 0 /\ FnFrom(p, after, str, slash, start, flags)
           ELSE \E k \in j..Len(str) : /\ path => \A m \in j..(k - 1) : str[m] # SEP
                                       /\ FnFrom(p, after, str, k, k, flags \ {"PERIOD"})
      ELSE IF c = LBRACKET
      THEN x # EOS /\ ~(x = SEP /\ path) /\ range # 0 /\ FnFrom(p, range, str, j + 1, start, flags)
      ELSE IF escaped THEN p[i + 1] = x /\ FnFrom(p, i + 2, str, j + 1, start, flags)
      ELSE c = x /\ FnFrom(p, i + 1, str, j + 1, start, flags)

fnmatch(pattern, string, flags) == FnFrom(pattern, 1, string, 1, 1, flags)

-----------------------------------------------------------------------------
(***************************************************************************)
(* What a pattern means: a sequence of tokens, each standing for one       *)
(* character of a set, or a star.                                          *)
(***************************************************************************)
AllChars == 1..40
Anything == {EOS}
RECURSIVE Members(_)
Members(q) ==
  IF q = <<>> THEN {}
  ELSE IF Len(q) > 2 /\ q[2] = RANGE THEN (CHAR(q[1])..CHAR(q[3])) \cup Members(From(q, 4))
  ELSE {CHAR(q[1])} \cup Members(Tail(q))

RECURSIVE Tokens(_, _, _)
Tokens(q, nots, nocase) ==
  LET neg == Len(q) > 1 /\ q[2] \in nots
      j == IF neg THEN 3 ELSE 2
      e == g_strchr(q, j + 1, RBRACKET)
      low(set) == IF nocase THEN {tolower(c) : c \in set} ELSE set
      set == low(Members(SubSeq(q, j, e - 1)))
  IN  IF q = <<>> THEN <<>>
      ELSE IF Head(q) = STAR THEN <<Anything>> \o Tokens(Tail(q), nots, nocase)
      ELSE IF Head(q) = QUESTION THEN <<AllChars>> \o Tokens(Tail(q), nots, nocase)
      ELSE IF Head(q) = LBRACKET /\ e # 0
      THEN <<IF neg THEN AllChars \ set ELSE set>> \o Tokens(From(q, e + 1), nots, nocase)
      ELSE <<low({CHAR(Head(q))})>> \o Tokens(Tail(q), nots, nocase)

(* stop(j): no wildcard may stand for the character at j; sep: nor for a   *)
(* slash.                                                                  *)
RECURSIVE Fits(_, _, _, _)
Fits(toks, str, barred, j) ==
  IF toks = <<>> THEN j > Len(str)
  ELSE IF Head(toks) = Anything
  THEN /\ j \in DOMAIN str => j \notin barred.dots
       /\ \E k \in j..(Len(str) + 1) : /\ \A m \in j..(k - 1) : m \notin barred.seps
                                       /\ Fits(Tail(toks), str, barred, k)
  ELSE /\ j <= Len(str)
       /\ str[j] \in Head(toks)
       /\ Cardinality(Head(toks)) > 1 => j \notin barred.dots \cup barred.seps
       /\ Fits(Tail(toks), str, barred, j + 1)

(* fnmatch says what the pattern means.  Three kinds of patterns are taken *)
(* otherwise by the code: a bracket that contains a bracket first; a       *)
(* bracket for a leading period; and a leading period behind a star.       *)
Cramped(p) == \E i \in DOMAIN p : p[i] = LBRACKET /\ (At(p, i + 1) = RBRACKET \/
                                                       (At(p, i + 1) \in {NOT, CARET} /\ At(p, i + 2) = RBRACKET))
FnAgrees(p, str, flags) ==
  LET q == IF "NOESCAPE" \in flags THEN p ELSE Protected(p)
      path == "PATHNAME" \in flags
      dots == IF "PERIOD" \in flags
              THEN {j \in DOMAIN str : str[j] = DOT /\ (j = 1 \/ (path /\ str[j - 1] = SEP))} ELSE {}
      seps == IF path THEN {j \in DOMAIN str : str[j] = SEP} ELSE {}
      open == \E i \in DOMAIN q : q[i] = LBRACKET /\ g_strchr(q, i + 1, RBRACKET) = 0
  IN  \/ Cramped(q) /\ "first" \notin Flaws
      \/ open
      \/ dots # {} /\ LBRACKET \in Range(q) /\ "bracket" \notin Flaws
      \/ (\E j \in dots : j > 1) /\ STAR \in Range(q) /\ "period" \notin Flaws
      \/ fnmatch(p, str, flags) <=> Fits(Tokens(q, {NOT, CARET}, FALSE), str, [dots |-> dots, seps |-> seps], 1)

(* The paths a pattern stands for: a name for each of its segments that    *)
(* fits it, or the segment itself when it has no wildcard, such that the   *)
(* whole exists and each directory looked into can be read.                *)
RECURSIVE Segments(_)
Segments(q) ==
  LET k == CHOOSE k \in 1..(Len(q) + 1) : /\ k <= Len(q) => CHAR(q[k]) = SEP
                                          /\ \A j \in 1..(k - 1) : CHAR(q[j]) # SEP
  IN  <<SubSeq(q, 1, k - 1)>> \o (IF k > Len(q) THEN <<>> ELSE Segments(From(q, k + 1)))

Magic(seg) == \E i \in DOMAIN seg :
                 \/ seg[i] \in {STAR, QUESTION}
                 \/ seg[i] = LBRACKET /\ g_strchr(seg, (IF At(seg, i + 1) = NOT THEN i + 3 ELSE i + 2), RBRACKET) # 0
RECURSIVE Joined(_)
Joined(names) == IF Len(names) = 1 THEN Head(names) ELSE Head(names) \o <<SEP>> \o Joined(Tail(names))
Lower(str) == [i \in DOMAIN str |-> tolower(str[i])]
AllNames == {Last(n) : n \in (Tree.dirs \cup Tree.files \cup DOMAIN Tree.links) \ {<<>>}} \cup {<<DOT>>, <<DOT, DOT>>}
Named(seg, c) ==
  LET nocase == "NOCASE" \in c.flags
      fits(name) == Fits(Tokens(seg, {NOT}, nocase), IF nocase THEN Lower(name) ELSE name, [dots |-> {}, seps |-> {}], 1)
  IN  IF ~Magic(seg) THEN {g_Ctoc(seg)}
      ELSE {name \in AllNames : fits(name) /\ (Head(name) = DOT => seg[1] \in {DOT, M_PROTECT(DOT)})}

RECURSIVE NamesFor(_, _)
NamesFor(segs, c) ==
  IF segs = <<>> THEN {<<>>}
  ELSE {<<name>> \o more : name \in Named(Head(segs), c), more \in NamesFor(Tail(segs), c)}
(* What has to be read: the directory before segment i. *)
Dir(names, i) == IF i = 1 THEN <<DOT>> ELSE Joined(Append(SubSeq(names, 1, i - 1), <<>>))
LookedInto(q, c) ==
  LET segs == Segments(q)
  IN  UNION {{Dir(names, i) : names \in NamesFor(SubSeq(segs, 1, i - 1), c)} : i \in {j \in DOMAIN segs : Magic(segs[j])}}
Stands(q, c) ==
  LET segs == Segments(q)
      all == {names \in NamesFor(segs, c) : \A i \in DOMAIN segs : Magic(segs[i]) => g_opendir(Dir(names, i)).ok}
      marked(str) == IF "MARK" \in c.flags /\ Last(str) # SEP /\ IsDirectory(str) THEN Append(str, SEP) ELSE str
  IN  {marked(str) : str \in {x \in {Joined(names) : names \in all} : g_lstat(x)}}

(* The patterns a pattern with braces abbreviates, in order. *)
RECURSIVE Expanded(_)
Expanded(q) ==
  LET o == g_strchr(q, 1, LBRACE)
      depth(m) == Cardinality({i \in o..m : q[i] = LBRACE}) - Cardinality({i \in o..(m - 1) : q[i] = RBRACE})
      e == CHOOSE m \in (o + 1)..Len(q) : /\ q[m] = RBRACE /\ depth(m) = 1
                                          /\ \A i \in (o + 1)..(m - 1) : ~(q[i] = RBRACE /\ depth(i) = 1)
      ends == {m \in (o + 1)..e : m = e \/ (q[m] = COMMA /\ depth(m) = 1)}
      begin(m) == CHOOSE b \in {o} \cup ends : b < m /\ ~\E x \in ends : b < x /\ x < m
      RECURSIVE each(_)
      each(S) == IF S = {} THEN <<>>
                 ELSE LET m == CHOOSE x \in S : \A y \in S : x <= y
                      IN  Expanded(SubSeq(q, 1, o - 1) \o SubSeq(q, begin(m) + 1, m - 1) \o From(q, e + 1)) \o each(S \ {m})
  IN  IF q = <<LBRACE, RBRACE>> \/ o = 0 THEN <<q>> ELSE each(ends)

Tilded(q, c) ==
  LET segs == Segments(q)
      user == g_Ctoc(Tail(Head(segs)))
  IN  IF "TILDE" \in c.flags /\ At(q, 1) = TILDE /\ user \in DOMAIN Homes
      THEN Homes[user] \o From(q, Len(Head(segs)) + 1) ELSE q
RECURSIVE Hashed(_, _)
Hashed(q, c) ==
  IF q = <<>> \/ "AMIGA" \notin c.flags THEN q
  ELSE IF Head(q) = HASH /\ At(q, 2) = QUESTION THEN <<STAR>> \o Hashed(From(q, 3), c)
  ELSE <<Head(q)>> \o Hashed(Tail(q), c)

(* new is the right answer for one pattern without braces. *)
Right(new, pattern, c) ==
  Then(Hashed(Tilded(pattern, c), c), LAMBDA q :
  Then(IF q = <<>> THEN {} ELSE Stands(q, c), LAMBDA want :
  LET magic == \E i \in DOMAIN Segments(q) : Magic(Segments(q)[i])
      given == "NOCHECK" \in c.flags \/ ("NOMAGIC" \in c.flags /\ ~magic)
      key(str) == IF "NOCASE" \in c.flags THEN Lower(str) ELSE str
  IN  IF want = {} /\ given THEN new = <<g_Ctoc(pattern)>>
      ELSE /\ Range(new) = want
           /\ Len(new) = Cardinality(want)
           /\ "NOSORT" \notin c.flags => \A i, j \in DOMAIN new : i < j => ~Before(key(new[j]), key(new[i]))))

RECURSIVE AllRight(_, _, _)
AllRight(new, patterns, c) ==
  IF patterns = <<>> THEN new = <<>>
  ELSE \E n \in 0..Len(new) : Right(SubSeq(new, 1, n), Head(patterns), c) /\ AllRight(From(new, n + 1), Tail(patterns), c)

(* glob returns the paths its pattern stands for, in order, after those it *)
(* was to append to; it gives up exactly when a directory cannot be read   *)
(* and the caller wants that, or when there is no room, with some of the   *)
(* paths.  Left out: unmatched braces and brackets between them, errors    *)
(* while braces are expanded, GLOB_ERR without a function, and the errors  *)
(* reported for what is no directory.                                      *)
Unbalanced(q) == \E i \in DOMAIN q : q[i] = LBRACE /\ Balanced(q, i + 1, 0) = 0
GlobAgrees(pattern, c, paths) ==
  Then(glob(pattern, c, paths), LAMBDA r :
  Then(IF "QUOTE" \in c.flags THEN Protected(Converted(pattern)) ELSE Converted(pattern), LAMBDA q :
  LET brace == "BRACE" \in c.flags /\ q # <<LBRACE, RBRACE>> /\ LBRACE \in Range(q)
  IN Then(IF "BRACE" \in c.flags THEN Expanded(q) ELSE <<q>>, LAMBDA all :
  LET old == IF "APPEND" \in c.flags THEN paths ELSE <<>>
      new == From(r.paths, Len(old) + 1)
  IN Then(UNION {LookedInto(Hashed(Tilded(all[i], c), c), c) : i \in DOMAIN all}, LAMBDA tried :
  LET strict == c.errfunc = "stop" \/ "ERR" \in c.flags
      shut == \E str \in tried : PathOf(Home(str), NamesOf(str)) /\ DirAt(Node(str)) \in Tree.shut
      plain == \E str \in tried : ~g_opendir(str).ok /\ ~(PathOf(Home(str), NamesOf(str)) /\ DirAt(Node(str)) \in Tree.shut)
  IN Then(FoldLeft(LAMBDA n, x : n + Cardinality(Stands(Hashed(Tilded(x, c), c), c)), Len(old), all) > c.room, LAMBDA full :
      \/ brace /\ Unbalanced(q) /\ "braces" \notin Flaws
      \/ brace /\ LBRACKET \in Range(q) /\ "clobbered" \notin Flaws
      \/ brace /\ "NOMAGIC" \in c.flags
      \/ brace /\ (full \/ (strict /\ (shut \/ plain))) /\ "lost" \notin Flaws
      \/ c.errfunc = "none" /\ "ERR" \in c.flags /\ "err" \notin Flaws
      \/ strict /\ plain /\ "plain" \notin Flaws
      \/ /\ SubSeq(r.paths, 1, Len(old)) = old
         /\ r.err = "" => AllRight(new, all, c)
         /\ r.err = "ABEND" => strict /\ shut
         /\ r.err # "" => \A i \in DOMAIN new : new[i] \in UNION {Stands(Hashed(Tilded(all[k], c), c), c) : k \in DOMAIN all}
         /\ strict /\ shut => r.err # ""
         /\ full => r.err # "")))))
=============================================================================
