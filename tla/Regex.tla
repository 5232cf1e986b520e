------------------------------- MODULE Regex -------------------------------
(***************************************************************************)
(* regcomp() and regexec() of static/: the compiler of regular expressions *)
(* to a strip of operators (regcomp.c), and the engine that runs a set of  *)
(* strip positions over a string and then finds out which subexpression    *)
(* matched what (engine.h).  A pattern is a sequence of characters, and so *)
(* is a string; positions of the strip and of the string count from 0.     *)
(*                                                                         *)
(* Left out: failing allocations, REG_PEND, the hash that speeds up the    *)
(* comparison of character sets, and multi-character collating elements,   *)
(* of which the tables have none.                                          *)
(***************************************************************************)
EXTENDS Integers, SequencesExt, FiniteSets

CONSTANTS Order,           \* the characters, in ascending order
          cclasses,        \* [:name:] -> characters
          cnames,          \* [.name.] -> character
          DUPMAX,
          WordSize         \* positions that fit in a long

\* What follows a call, given what it returned.
Then(called, Rest(_)) == Rest(called)

NUL == "NUL"
NL == "NL"
OUT == "OUT"
NPAREN == 10
INFINITY == DUPMAX + 1
Digits == <<"0", "1", "2", "3", "4", "5", "6", "7", "8", "9">>
Lower == <<"a", "b", "c">>
Upper == <<"A", "B", "C">>
isdigit(c) == c \in Range(Digits)
isalpha(c) == c \in Range(Lower) \cup Range(Upper)
ISWORD(c) == isalpha(c) \/ isdigit(c) \/ c = "_"
othercase(c) == IF c \in Range(Lower) THEN Upper[SelectInSeq(Lower, LAMBDA x : x = c)]
                ELSE Lower[SelectInSeq(Upper, LAMBDA x : x = c)]
AllChars == Range(Order)
Ord(c) == SelectInSeq(Order, LAMBDA x : x = c)

-----------------------------------------------------------------------------
(* The parser's state p, its input and the strip.                          *)

MORE(p) == p.next <= Len(p.pat)
MORE2(p) == p.next < Len(p.pat)
PEEK(p) == IF MORE(p) THEN p.pat[p.next] ELSE NUL
PEEK2(p) == IF MORE2(p) THEN p.pat[p.next + 1] ELSE NUL
SEE(c, p) == MORE(p) /\ PEEK(p) = c
SEETWO(a, b, p) == MORE2(p) /\ PEEK(p) = a /\ PEEK2(p) = b
NEXTn(n, p) == [p EXCEPT !.next = @ + n]
seterr(e, p) == [p EXCEPT !.error = IF @ = "" THEN e ELSE @, !.pat = <<>>, !.next = 1]
REQUIRE(cond, e, p) == IF cond THEN p ELSE seterr(e, p)

OP(strip, pc) == strip[pc + 1][1]
OPND(strip, pc) == strip[pc + 1][2]
HERE(p) == Len(p.strip)
THERE(p) == HERE(p) - 1
doemit(op, n, p) == IF p.error # "" THEN p ELSE [p EXCEPT !.strip = Append(@, <<op, n>>)]
DROP(n, p) == [p EXCEPT !.strip = SubSeq(@, 1, Len(@) - n)]
doinsert(op, pos, p) ==
  LET Shift(at) == [i \in DOMAIN at |-> IF at[i] >= pos THEN at[i] + 1 ELSE at[i]] IN
  IF p.error # "" THEN p
  ELSE [p EXCEPT !.strip = SubSeq(@, 1, pos) \o <<<<op, HERE(p) - pos + 1>>>> \o SubSeq(@, pos + 1, Len(@)),
                 !.pbegin = Shift(@), !.pend = Shift(@)]
dofwd(pos, p) == IF p.error # "" THEN p ELSE [p EXCEPT !.strip[pos + 1][2] = HERE(p) - pos]
ASTERN(op, pos, p) == doemit(op, HERE(p) - pos, p)
dupl(start, finish, p) == [p EXCEPT !.strip = @ \o SubSeq(@, start + 1, finish)]

\* y+ and y?, the latter as (y|)
Plus(pos, p) == ASTERN("O_PLUS", pos, doinsert("OPLUS_", pos, p))
OrNothing(pos, p) ==
  Then(doemit("OOR2", 0, dofwd(pos, ASTERN("OOR1", pos, p))), LAMBDA q :
    Then(dofwd(THERE(q), q), LAMBDA r : ASTERN("O_CH", THERE(r) - 1, r)))
Star(pos, p) == ASTERN("O_QUEST", pos, doinsert("OQUEST_", pos, Plus(pos, p)))

RECURSIVE repeat(_, _, _, _)
repeat(start, from, to, p) ==
  LET finish == HERE(p)
      many == to = INFINITY
      Again(optional) == repeat(HERE(optional), 1, to - 1, dupl(start + 1, finish + 1, optional))
  IN
  CASE p.error # "" -> p
    [] to = 0 -> DROP(finish - start, p)
    [] from = 0 /\ to > 0 -> OrNothing(start, repeat(start + 1, 1, to, doinsert("OCH_", start, p)))
    [] from = 1 /\ to = 1 -> p
    [] from = 1 /\ many -> Plus(start, p)
    [] from = 1 /\ to > 1 -> Again(OrNothing(start, doinsert("OCH_", start, p)))
    [] OTHER -> repeat(finish, from - 1, IF many THEN to ELSE to - 1, dupl(start, finish, p))

-----------------------------------------------------------------------------
(* Characters and bracket expressions.                                     *)

freezeset(cs, p) ==
  LET i == SelectInSeq(p.sets, LAMBDA s : s = cs) IN
  IF i > 0 THEN doemit("OANYOF", i - 1, p)
  ELSE doemit("OANYOF", Len(p.sets), [p EXCEPT !.sets = Append(@, cs)])
Categorized(ch, p) ==
  IF p.categories[ch] # 0 THEN p
  ELSE [p EXCEPT !.categories[ch] = p.ncategories, !.ncategories = @ + 1]
EmitSet(cs, p) ==
  IF Cardinality(cs) # 1 THEN freezeset(cs, p)
  ELSE LET c == CHOOSE x \in cs : TRUE IN Categorized(c, doemit("OCHAR", c, p))
\* The set a bracket expression comes to, once its terms are read.
Finished(cs, invert, p) ==
  Then(IF p.icase THEN cs \cup {othercase(c) : c \in {x \in cs : isalpha(x)}} ELSE cs, LAMBDA both :
      IF invert THEN (AllChars \ both) \ (IF p.newline THEN {NL} ELSE {}) ELSE both)
ordinary(ch, p) ==
  IF p.icase /\ isalpha(ch) THEN EmitSet(Finished({ch}, FALSE, p), p)
  ELSE Categorized(ch, doemit("OCHAR", ch, p))
nonnewline(p) == EmitSet(Finished({NL}, TRUE, p), p)

SkipWhile(Test(_), p) ==
  [p EXCEPT !.next = Min({k \in p.next..(Len(p.pat) + 1) :
                           k > Len(p.pat) \/ ~Test([p EXCEPT !.next = k])})]
Between(p, q) == SubSeq(p.pat, p.next, q.next - 1)

\* The next three return the parser and the character, or the set.
p_b_coll_elem(endc, p) ==
  Then(SkipWhile(LAMBDA x : ~SEETWO(endc, "]", x), p), LAMBDA q :
    LET name == Between(p, q)
    IN  IF ~MORE(q) THEN <<seterr("EBRACK", q), NUL>>
        ELSE IF name \in DOMAIN cnames THEN <<q, cnames[name]>>
        ELSE IF Len(name) = 1 THEN <<q, name[1]>>
        ELSE <<seterr("ECOLLATE", q), NUL>>)
p_b_symbol(p) ==
  IF ~MORE(p) THEN <<seterr("EBRACK", p), NUL>>
  ELSE IF ~SEETWO("[", ".", p) THEN <<NEXTn(1, p), PEEK(p)>>
  ELSE Then(p_b_coll_elem(".", NEXTn(2, p)), LAMBDA e :
         IF SEETWO(".", "]", e[1]) THEN <<NEXTn(2, e[1]), e[2]>>
         ELSE <<seterr("ECOLLATE", e[1]), e[2]>>)
p_b_cclass(p) ==
  LET q == SkipWhile(LAMBDA x : isalpha(PEEK(x)), p) IN
  IF Between(p, q) \in DOMAIN cclasses THEN <<q, cclasses[Between(p, q)]>>
  ELSE <<seterr("ECTYPE", q), {}>>
\* [:class:] and [=equivalents=]
InBrackets(c, e, p) ==
  LET q == REQUIRE(PEEK(NEXTn(2, p)) \notin {"-", "]"}, e, REQUIRE(MORE(NEXTn(2, p)), "EBRACK", NEXTn(2, p)))
      Ended(r, cs) == IF SEETWO(c, "]", r) THEN <<NEXTn(2, r), cs>> ELSE <<seterr(e, r), cs>>
      Named(r, cs) == Ended(REQUIRE(MORE(r), "EBRACK", r), cs)
  IN  IF c = ":" THEN Then(p_b_cclass(q), LAMBDA t : Named(t[1], t[2]))
      ELSE Then(p_b_coll_elem("=", q), LAMBDA t : Named(t[1], {t[2]}))
Ranged(from, to) ==
  IF to[1].error # "" THEN <<to[1], {}>>
  ELSE <<REQUIRE(Ord(from[2]) <= Ord(to[2]), "ERANGE", to[1]),
         {c \in AllChars : Ord(from[2]) <= Ord(c) /\ Ord(c) <= Ord(to[2])}>>
RangeFrom(from, q) ==
  Ranged(from, IF ~(SEE("-", q) /\ MORE2(q) /\ PEEK2(q) # "]") THEN from
              ELSE IF PEEK2(q) = "-" THEN <<NEXTn(2, q), "-">> ELSE p_b_symbol(NEXTn(1, q)))
p_b_term(p) ==
  IF SEETWO("[", ":", p) THEN InBrackets(":", "ECTYPE", p)
  ELSE IF SEETWO("[", "=", p) THEN InBrackets("=", "ECOLLATE", p)
  ELSE IF SEE("-", p) THEN <<seterr("ERANGE", p), {}>>
  ELSE Then(p_b_symbol(p), LAMBDA from : RangeFrom(from, from[1]))
RECURSIVE Terms(_, _)
Terms(cs, p) ==
  IF MORE(p) /\ PEEK(p) # "]" /\ ~SEETWO("-", "]", p)
    THEN Then(p_b_term(p), LAMBDA t : Terms(cs \cup t[2], t[1])) ELSE <<p, cs>>
EndOfBracket(cs, invert, p) ==
  IF SEE("]", p) THEN EmitSet(Finished(cs, invert, p), NEXTn(1, p)) ELSE seterr("EBRACK", p)
p_bracket(p) ==
  LET Word(c) == SubSeq(p.pat, p.next, p.next + 5) = <<"[", ":", c, ":", "]", "]">>
      word == MORE(p) /\ p.next + 5 <= Len(p.pat)
      invert == SEE("^", p)
      a == IF invert THEN NEXTn(1, p) ELSE p
      first == {c \in {"]", "-"} : SEE(c, a)}
      End(t) == EndOfBracket(IF SEE("-", t[1]) THEN t[2] \cup {"-"} ELSE t[2], invert,
                             IF SEE("-", t[1]) THEN NEXTn(1, t[1]) ELSE t[1])
  IN  IF word /\ Word("<") THEN NEXTn(6, doemit("OBOW", 0, p))
      ELSE IF word /\ Word(">") THEN NEXTn(6, doemit("OEOW", 0, p))
      ELSE End(Terms(first, IF first = {} THEN a ELSE NEXTn(1, a)))

-----------------------------------------------------------------------------
(* The parsers.                                                            *)

\* Returns the parser and the number.
p_count(p) ==
  LET q == SkipWhile(LAMBDA x : isdigit(PEEK(x)), p)
      n == FoldLeft(LAMBDA v, c : 10 * v + SelectInSeq(Digits, LAMBDA x : x = c) - 1, 0, Between(p, q))
  IN  <<REQUIRE(q # p /\ n <= DUPMAX, "BADBR", q), n>>
\* {n}, {n,} and {n,m}, ended by }, or by \} when it is basic
Closed(p) == IF p.extended THEN SEE("}", p) ELSE SEETWO("\\", "}", p)
CloseBound(p) ==
  IF Closed(p) THEN NEXTn(IF p.extended THEN 1 ELSE 2, p)
  ELSE Then(SkipWhile(LAMBDA x : ~Closed(x), p), LAMBDA t :
         seterr("BADBR", REQUIRE(MORE(t), "EBRACE", t)))
UpTo(pos, count, p) ==
  IF ~SEE(",", p) THEN repeat(pos, count, count, p)
  ELSE IF ~isdigit(PEEK(NEXTn(1, p))) THEN repeat(pos, count, INFINITY, NEXTn(1, p))
  ELSE Then(p_count(NEXTn(1, p)), LAMBDA to :
         repeat(pos, count, to[2], REQUIRE(count <= to[2], "BADBR", to[1])))
p_bound(pos, p) == Then(p_count(p), LAMBDA from : CloseBound(UpTo(pos, from[2], from[1])))
\* ( and ) of the n-th group.
BeginGroup(n, p) ==
  doemit("OLPAREN", n, [p EXCEPT !.nsub = n,
    !.pbegin = [i \in DOMAIN @ |-> IF i = n THEN HERE(p) ELSE @[i]]])
EndGroup(n, r) ==
  doemit("ORPAREN", n, [r EXCEPT !.pend = [i \in DOMAIN @ |-> IF i = n THEN HERE(r) ELSE @[i]]])
Anchor(op, p) == IF op = "OBOL" THEN [doemit(op, 0, p) EXCEPT !.nbol = @ + 1]
                 ELSE [doemit(op, 0, p) EXCEPT !.neol = @ + 1]
AnyChar(p) == IF p.newline THEN nonnewline(p) ELSE doemit("OANY", 0, p)
Repetition(p) == PEEK(p) \in {"*", "+", "?"} \/ (SEE("{", p) /\ isdigit(PEEK2(p)))

RECURSIVE p_ere(_, _)
p_ere_atom(p0) ==
  LET c == PEEK(p0)
      p == NEXTn(1, p0)
      Close(q) == IF SEE(")", q) THEN NEXTn(1, q) ELSE seterr("EPAREN", q)
  IN
  CASE c = "(" ->
         Then(BeginGroup(p.nsub + 1, REQUIRE(MORE(p), "EPAREN", p)), LAMBDA q :
           Then(IF SEE(")", q) THEN q ELSE p_ere(")", q), LAMBDA r :
             Close(EndGroup(p.nsub + 1, r))))
    [] c = ")" -> seterr("EPAREN", p)
    [] c = "^" -> Anchor("OBOL", p)
    [] c = "$" -> Anchor("OEOL", p)
    [] c = "|" -> seterr("EMPTY", p)
    [] c \in {"*", "+", "?"} -> seterr("BADRPT", p)
    [] c = "." -> AnyChar(p)
    [] c = "[" -> p_bracket(p)
    [] c = "\\" -> IF MORE(p) THEN ordinary(PEEK(p), NEXTn(1, p)) ELSE seterr("EESCAPE", p)
    [] c = "{" -> IF isdigit(PEEK(p)) THEN seterr("BADRPT", p) ELSE ordinary(c, p)
    [] OTHER -> ordinary(c, p)
Repeated(c, pos, p) ==
  CASE c = "*" -> Star(pos, p)
    [] c = "+" -> Plus(pos, p)
    [] c = "?" -> OrNothing(pos, doinsert("OCH_", pos, p))
    [] c = "{" -> p_bound(pos, p)
RepeatOnce(c, pos, p) == Then(Repeated(c, pos, p), LAMBDA r : IF Repetition(r) THEN seterr("BADRPT", r) ELSE r)
p_ere_exp(p) ==
  Then(p_ere_atom(p), LAMBDA a :
    IF ~Repetition(a) THEN a
    ELSE RepeatOnce(PEEK(a), HERE(p), REQUIRE(PEEK(p) # "^", "BADRPT", NEXTn(1, a))))
RECURSIVE Concatenated(_, _)
Concatenated(stop, p) ==
  IF MORE(p) /\ PEEK(p) \notin {"|", stop} THEN Concatenated(stop, p_ere_exp(p)) ELSE p
RECURSIVE Alternatives(_, _, _, _)
Alternatives(stop, prevback, prevfwd, p) ==
  LET conc == HERE(p)
      first == prevback = 0
      Another(r) == Alternatives(stop, THERE(r), HERE(r),
                                 doemit("OOR2", 0, dofwd(IF first THEN conc ELSE prevfwd, r)))
      Next(r) ==
        IF ~SEE("|", r) THEN IF first THEN r ELSE ASTERN("O_CH", prevback, dofwd(prevfwd, r))
        ELSE IF first THEN Another(ASTERN("OOR1", conc, doinsert("OCH_", conc, NEXTn(1, r))))
        ELSE Another(ASTERN("OOR1", prevback, NEXTn(1, r)))
  IN  Then(Concatenated(stop, p), LAMBDA q : Next(REQUIRE(HERE(q) # conc, "EMPTY", q)))
p_ere(stop, p) == Alternatives(stop, 0, 0, p)

RECURSIVE p_bre(_, _)
\* Returns the parser, and whether this was a bare dollar.
p_simp_atom(starordinary, escaped, c, p) ==
  LET Close(q) == IF SEETWO("\\", ")", q) THEN NEXTn(2, q) ELSE seterr("EPAREN", q)
      i == SelectInSeq(Digits, LAMBDA x : x = c) - 1
      back == doemit("O_BACK", i, dupl(p.pbegin[i] + 1, p.pend[i], doemit("OBACK_", i, p)))
  IN
  CASE escaped /\ c = "{" -> seterr("BADRPT", p)
    [] escaped /\ c = "(" ->
         Then(BeginGroup(p.nsub + 1, p), LAMBDA q :
           Then(IF MORE(q) /\ ~SEETWO("\\", ")", q) THEN p_bre(TRUE, q) ELSE q, LAMBDA r :
             Close(EndGroup(p.nsub + 1, r))))
    [] escaped /\ c \in {")", "}"} -> seterr("EPAREN", p)
    [] escaped /\ i > 0 ->
         [(IF p.pend[i] # 0 THEN back ELSE seterr("ESUBREG", p)) EXCEPT !.backrefs = TRUE]
    [] ~escaped /\ c = "." -> AnyChar(p)
    [] ~escaped /\ c = "[" -> p_bracket(p)
    [] ~escaped /\ c = "*" /\ ~starordinary -> seterr("BADRPT", p)
    [] OTHER -> ordinary(c, p)
p_simp_re(starordinary, p0) ==
  LET pos == HERE(p0)
      escaped == PEEK(p0) = "\\"
      p == IF escaped THEN REQUIRE(MORE2(p0), "EESCAPE", NEXTn(1, p0)) ELSE p0
  IN  Then(IF p.error # "" THEN p ELSE p_simp_atom(starordinary, escaped, PEEK(p), NEXTn(1, p)), LAMBDA a :
        IF SEE("*", a) THEN <<Star(pos, NEXTn(1, a)), FALSE>>
        ELSE IF SEETWO("\\", "{", a) THEN <<p_bound(pos, NEXTn(2, a)), FALSE>>
        ELSE <<a, ~escaped /\ PEEK(p) = "$">>)
RECURSIVE Simple(_, _, _, _)
Simple(inner, first, dollar, p) ==
  IF MORE(p) /\ ~(inner /\ SEETWO("\\", ")", p))
    THEN Then(p_simp_re(first, p), LAMBDA s : Simple(inner, FALSE, s[2], s[1]))
  ELSE IF dollar THEN Anchor("OEOL", DROP(1, p)) ELSE p
p_bre(inner, p) ==
  Then(Simple(inner, TRUE, FALSE, IF SEE("^", p) THEN Anchor("OBOL", NEXTn(1, p)) ELSE p), LAMBDA q :
    REQUIRE(HERE(q) # HERE(p), "EMPTY", q))

p_str(p) ==
  LET Each(q, c) == ordinary(c, NEXTn(1, q)) IN
  IF MORE(p) THEN FoldLeft(Each, p, p.pat) ELSE seterr("EMPTY", p)

\* Characters no operator tells apart get the same category.
categorize(p) ==
  LET Sets(c) == {i \in DOMAIN p.sets : c \in p.sets[i]}
      Each(q, c) == IF q.categories[c] # 0 \/ Sets(c) = {} THEN q
                    ELSE [q EXCEPT !.ncategories = @ + 1,
                            !.categories = [d \in AllChars |->
                               IF @[d] = 0 /\ Ord(d) >= Ord(c) /\ Sets(d) = Sets(c)
                               THEN q.ncategories ELSE @[d]]]
  IN  FoldLeft(Each, p, Order)
\* The longest string that every match contains.
RECURSIVE SkipChoice(_, _)
SkipChoice(strip, pc) ==
  IF OP(strip, pc) \in {"O_QUEST", "O_CH"} THEN pc ELSE SkipChoice(strip, pc + OPND(strip, pc))
RECURSIVE MustFrom(_, _, _, _)
MustFrom(strip, pc, run, must) ==
  LET longer == IF Len(run) > Len(must) THEN run ELSE must
      op == OP(strip, pc)
  IN  CASE op = "OCHAR" -> MustFrom(strip, pc + 1, Append(run, OPND(strip, pc)), must)
        [] op \in {"OPLUS_", "OLPAREN", "ORPAREN"} -> MustFrom(strip, pc + 1, run, must)
        [] op \in {"OQUEST_", "OCH_"} -> MustFrom(strip, SkipChoice(strip, pc), <<>>, longer)
        [] op = "OEND" -> longer
        [] OTHER -> MustFrom(strip, pc + 1, <<>>, longer)
findmust(strip) == MustFrom(strip, 1, <<>>, <<>>)
pluscount(strip) ==
  LET Each(n, s) == IF s[1] = "OPLUS_" THEN [n EXCEPT !.nest = @ + 1, !.max = IF @ > n.nest THEN @ ELSE n.nest + 1]
                    ELSE IF s[1] = "O_PLUS" THEN [n EXCEPT !.nest = @ - 1] ELSE n
  IN  FoldLeft(Each, [nest |-> 0, max |-> 0], strip).max

Compiled(g) ==
  [error |-> "", strip |-> g.strip, sets |-> g.sets, nsub |-> g.nsub, nbol |-> g.nbol,
   neol |-> g.neol, backrefs |-> g.backrefs, categories |-> g.categories,
   newline |-> g.newline, must |-> findmust(g.strip), nplus |-> pluscount(g.strip)]
\* flags \subseteq {"EXTENDED", "ICASE", "NEWLINE", "NOSPEC"}
regcomp(pattern, flags) ==
  LET start == [pat |-> pattern, next |-> 1, error |-> "", strip |-> <<<<"OEND", 0>>>>, sets |-> <<>>,
                nsub |-> 0, pbegin |-> [i \in 1..(NPAREN - 1) |-> 0], pend |-> [i \in 1..(NPAREN - 1) |-> 0],
                nbol |-> 0, neol |-> 0, backrefs |-> FALSE, ncategories |-> 1,
                categories |-> [c \in AllChars |-> 0], extended |-> "EXTENDED" \in flags,
                icase |-> "ICASE" \in flags, newline |-> "NEWLINE" \in flags]
  IN  IF {"EXTENDED", "NOSPEC"} \subseteq flags THEN [error |-> "INVARG"]
      ELSE Then(doemit("OEND", 0, IF "EXTENDED" \in flags THEN p_ere(OUT, start)
                                  ELSE IF "NOSPEC" \in flags THEN p_str(start) ELSE p_bre(FALSE, start)),
             LAMBDA p : IF p.error # "" THEN [error |-> p.error] ELSE Compiled(categorize(p)))

-----------------------------------------------------------------------------
(* The engine.  m.g is what regcomp() made, m.str the string, of which the *)
(* part from m.beginp to m.endp is looked at; a set of states is a set of  *)
(* strip positions.                                                        *)

Nowhere == -1
Char(m, i) == m.str[i + 1]

\* Of the positions bef before ch, or of aft for what matches nothing, where
\* ch leads; a loop body is gone through again when its end reaches its start.
Takes(g, op, n, ch) ==
  CASE op = "OCHAR" -> ch = n
    [] op = "OBOL" -> ch \in {"BOL", "BOLEOL"}
    [] op = "OEOL" -> ch \in {"EOL", "BOLEOL"}
    [] op = "OBOW" -> ch = "BOW"
    [] op = "OEOW" -> ch = "EOW"
    [] op = "OANY" -> ch \in AllChars
    [] op = "OANYOF" -> ch \in AllChars /\ ch \in g.sets[n + 1]
    [] OTHER -> FALSE
Leads(g, op, n, pc) ==
  CASE op \in {"OBACK_", "O_BACK", "OPLUS_", "O_QUEST", "OLPAREN", "ORPAREN", "O_CH"} -> {pc + 1}
    [] op = "O_PLUS" -> {pc + 1, pc - n}
    [] op \in {"OQUEST_", "OCH_"} -> {pc + 1, pc + n}
    [] op = "OOR1" -> {SkipChoice(g.strip, pc + 1)}
    [] op = "OOR2" -> {pc + 1} \cup (IF OP(g.strip, pc + n) # "O_CH" THEN {pc + n} ELSE {})
    [] OTHER -> {}
RECURSIVE stepFrom(_, _, _, _, _, _, _)
stepFrom(g, pc, stop, bef, ch, aft, same) ==
  LET op == OP(g.strip, pc)
      n == OPND(g.strip, pc)
  IN  IF pc = stop THEN aft
      ELSE Then(aft \cup (IF pc \in bef /\ Takes(g, op, n, ch) THEN {pc + 1} ELSE {})
                    \cup (IF pc \in aft THEN Leads(g, op, n, pc) ELSE {}), LAMBDA next :
             stepFrom(g, IF op = "O_PLUS" /\ pc \in aft /\ pc - n \notin aft THEN pc - n ELSE pc + 1,
                      stop, IF same THEN next ELSE bef, ch, next, same))
\* The same set before and after: two copies of it when the states fit in a
\* word, one array otherwise.
Value(S) == CHOOSE v \in S : TRUE
Closure(m, start, stop, ch, st) ==
  Value({stepFrom(m.g, start, stop, s, ch, s, Len(m.g.strip) > WordSize) : s \in {st}})
Consume(m, start, stop, st, ch, aft) ==
  Value({stepFrom(m.g, start, stop, b, ch, a, FALSE) : b \in {st}, a \in {aft}})

\* What lies between two characters of the string: line ends and word ends.
Boundary(m, start, stop, lastc, c, st) ==
  LET bol == (lastc = NL /\ m.g.newline) \/ (lastc = OUT /\ "NOTBOL" \notin m.eflags)
      eol == (c = NL /\ m.g.newline) \/ (c = OUT /\ "NOTEOL" \notin m.eflags)
      flag == IF bol THEN IF eol THEN "BOLEOL" ELSE "BOL" ELSE IF eol THEN "EOL" ELSE NUL
      times == (IF bol THEN m.g.nbol ELSE 0) + (IF eol THEN m.g.neol ELSE 0)
      bow == (flag = "BOL" \/ (lastc # OUT /\ ~ISWORD(lastc))) /\ c # OUT /\ ISWORD(c)
      eow == lastc # OUT /\ ISWORD(lastc) /\ ((~bow /\ flag = "EOL") \/ (c # OUT /\ ~ISWORD(c)))
  IN  Then(IF times = 0 THEN st
           ELSE FoldLeft(LAMBDA s, i : Closure(m, start, stop, flag, s), st, [i \in 1..times |-> i]),
        LAMBDA line : IF eow \/ bow THEN Closure(m, start, stop, IF eow THEN "EOW" ELSE "BOW", line) ELSE line)
At(m, p) == IF p = m.endp THEN OUT ELSE Char(m, p)
Before(m, p) == IF p = m.beginp THEN OUT ELSE Char(m, p - 1)

\* Whether there is a match at all, and coldp, which no match starts before.
RECURSIVE fastFrom(_, _, _, _, _, _, _, _)
fastFrom(m, p, stop, startst, stopst, lastc, st, cold) ==
  LET c == At(m, p)
      Go(fresh, now, coldp) ==
        IF stopst \in now \/ p = stop THEN [found |-> stopst \in now, coldp |-> coldp]
        ELSE fastFrom(m, p + 1, stop, startst, stopst, c,
                      Consume(m, startst, stopst, now, c, fresh), coldp)
  IN  Then(Closure(m, startst, stopst, NUL, {startst}), LAMBDA fresh :
        Go(fresh, Boundary(m, startst, stopst, lastc, c, st), IF st = fresh THEN p ELSE cold))
fast(m, start, stop, startst, stopst) ==
  fastFrom(m, start, stop, startst, stopst, Before(m, start),
           Closure(m, startst, stopst, NUL, {startst}), Nowhere)
\* Where the longest match that starts at start ends.
RECURSIVE slowFrom(_, _, _, _, _, _, _, _)
slowFrom(m, p, stop, startst, stopst, lastc, st, last) ==
  LET c == At(m, p)
      Go(now, matchp) ==
        IF now = {} \/ p = stop THEN matchp
        ELSE slowFrom(m, p + 1, stop, startst, stopst, c, Consume(m, startst, stopst, now, c, {}), matchp)
  IN  Then(Boundary(m, startst, stopst, lastc, c, st), LAMBDA now : Go(now, IF stopst \in now THEN p ELSE last))
slow(m, start, stop, startst, stopst) ==
  slowFrom(m, start, stop, startst, stopst, Before(m, start),
           Closure(m, startst, stopst, NUL, {startst}), Nowhere)

-----------------------------------------------------------------------------
(* Which subexpression matched what, without back references.  d is what   *)
(* is known so far: the subexpressions, and whether an assertion failed.   *)

Fails(d) == [d EXCEPT !.bad = TRUE]
\* Mutant: the longest match of a part, whether the rest can go on from it or not.
FittingLongest(m, sp, stp, stop, ss, es, stopst) == slow(m, sp, stp, ss, es)

\* The longest match of ss..es from sp that the rest can go on from.
RECURSIVE Fitting(_, _, _, _, _, _, _)
Fitting(m, sp, stp, stop, ss, es, stopst) ==
  Then(slow(m, sp, stp, ss, es), LAMBDA rest :
    IF rest = Nowhere \/ slow(m, rest, stop, es, stopst) = stop \/ rest = sp THEN rest
    ELSE Fitting(m, sp, rest - 1, stop, ss, es, stopst))
\* Where the last pass through a loop body starts and ends.
RECURSIVE LastPass(_, _, _, _, _, _)
LastPass(m, ssp, oldssp, rest, ssub, esub) ==
  Then(slow(m, ssp, rest, ssub, esub), LAMBDA sep :
    IF sep = Nowhere THEN <<oldssp, ssp>>
    ELSE IF sep = ssp THEN <<ssp, sep>>
    ELSE LastPass(m, sep, ssp, rest, ssub, esub))
\* The next branch of a choice after the one that ends before esub.
NextBranch(strip, esub) ==
  LET to == esub + 1 + OPND(strip, esub + 1)
  IN  <<esub + 2, IF OP(strip, to) = "OOR2" THEN to - 1 ELSE to>>
RECURSIVE FirstBranch(_, _, _, _)
FirstBranch(m, sp, rest, b) ==
  IF slow(m, sp, rest, b[1], b[2]) = rest THEN b
  ELSE IF OP(m.g.strip, b[2]) = "O_CH" THEN <<0, 0>>
  ELSE FirstBranch(m, sp, rest, NextBranch(m.g.strip, b[2]))
RECURSIVE dissect(_, _, _, _, _, _)
dissect(m, sp, stop, ss, stopst, d) ==
  LET op == OP(m.g.strip, ss)
      n == OPND(m.g.strip, ss)
      es == 1 + CASE op \in {"OPLUS_", "OQUEST_"} -> ss + n
                  [] op = "OCH_" -> SkipChoice(m.g.strip, ss)
                  [] OTHER -> ss
      Inside(from, to, s, e) == dissect(m, from, to, s, e, d)
  IN
  CASE ss >= stopst -> IF sp = stop THEN d ELSE Fails(d)
    [] op \in {"OCHAR", "OANY", "OANYOF"} -> dissect(m, sp + 1, stop, es, stopst, d)
    [] op \in {"OBOL", "OEOL", "OBOW", "OEOW"} -> dissect(m, sp, stop, es, stopst, d)
    [] op = "OLPAREN" -> dissect(m, sp, stop, es, stopst, [d EXCEPT !.so[n] = sp])
    [] op = "ORPAREN" -> dissect(m, sp, stop, es, stopst, [d EXCEPT !.eo[n] = sp])
    [] op \in {"OQUEST_", "OPLUS_", "OCH_"} ->
         Then(Fitting(m, sp, stop, stop, ss, es, stopst), LAMBDA rest :
         IF rest = Nowhere THEN Fails(d)
         ELSE dissect(m, rest, stop, es, stopst,
           CASE op = "OQUEST_" ->
                  IF slow(m, sp, rest, ss + 1, es - 1) # Nowhere THEN Inside(sp, rest, ss + 1, es - 1) ELSE d
             [] op = "OPLUS_" ->
                  Then(LastPass(m, sp, sp, rest, ss + 1, es - 1), LAMBDA pass :
                  Then(Inside(pass[1], pass[2], ss + 1, es - 1), LAMBDA in :
                  IF pass[2] = rest THEN in ELSE Fails(in)))
             [] op = "OCH_" ->
                  Then(FirstBranch(m, sp, rest, <<ss + 1, ss + n - 1>>), LAMBDA b :
                  Inside(sp, rest, b[1], b[2]))))
    [] OTHER -> Fails(d)

-----------------------------------------------------------------------------
(* The same with back references, by backtracking: d.end is where the      *)
(* match ends, or Nowhere, and d.last, which a failure does not restore,      *)
(* where the last pass of each loop began.                                 *)

LineStart(m, p) == (p = m.beginp /\ "NOTBOL" \notin m.eflags)
                   \/ (p < m.endp /\ Before(m, p) = NL /\ m.g.newline)
LineEnd(m, p) == (p = m.endp /\ "NOTEOL" \notin m.eflags)
                 \/ (p < m.endp /\ At(m, p) = NL /\ m.g.newline)
Easy(m, op, n, p, stop) ==
  CASE op = "OCHAR" -> p # stop /\ Char(m, p) = n
    [] op = "OANY" -> p # stop
    [] op = "OANYOF" -> p # stop /\ Char(m, p) \in m.g.sets[n + 1]
    [] op = "OBOL" -> LineStart(m, p)
    [] op = "OEOL" -> LineEnd(m, p)
    [] op = "OBOW" -> /\ LineStart(m, p) \/ (p > m.beginp /\ ~ISWORD(Before(m, p)))
                      /\ p < m.endp /\ ISWORD(At(m, p))
    [] op = "OEOW" -> /\ LineEnd(m, p) \/ (p < m.endp /\ ~ISWORD(At(m, p)))
                      /\ p > m.beginp /\ ISWORD(Before(m, p))
    [] OTHER -> TRUE
Failure(d) == [d EXCEPT !.end = Nowhere]
RECURSIVE backref(_, _, _, _, _, _, _)
RECURSIVE Branches(_, _, _, _, _, _)
\* The first branch b of a choice that ends at stop.
Branches(m, sp, stop, b, lev, d) ==
  Then(backref(m, sp, stop, b[1], b[2], lev, d), LAMBDA r :
    IF r.end # Nowhere \/ OP(m.g.strip, b[2]) = "O_CH" THEN r
    ELSE Branches(m, sp, stop, NextBranch(m.g.strip, b[2]), lev, r))
backref(m, sp, stop, ss, stopst, lev, d) ==
  LET op == OP(m.g.strip, ss)
      n == OPND(m.g.strip, ss)
      Go(p, to, l, e) == backref(m, p, stop, to, stopst, l, e)
      OrElse(r, p, to, l) == IF r.end # Nowhere THEN r ELSE Go(p, to, l, r)
      len == d.eo[n] - d.so[n]
      back == Min({k \in ss..(Len(m.g.strip) - 1) : m.g.strip[k + 1] = <<"O_BACK", n>>})
      same == \A k \in 0..(len - 1) : Char(m, sp + k) = Char(m, d.so[n] + k)
  IN
  CASE ss >= stopst -> IF sp = stop THEN [d EXCEPT !.end = sp] ELSE Failure(d)
    [] op \in {"OCHAR", "OANY", "OANYOF", "OBOL", "OEOL", "OBOW", "OEOW", "O_QUEST"} ->
         IF ~Easy(m, op, n, sp, stop) THEN Failure(d)
         ELSE Go(IF op \in {"OCHAR", "OANY", "OANYOF"} THEN sp + 1 ELSE sp, ss + 1, lev, d)
    [] op = "OOR1" -> Go(sp, SkipChoice(m.g.strip, ss + 1) + 1, lev, d)
    [] op = "OBACK_" -> IF d.eo[n] = Nowhere \/ sp > stop - len THEN Failure(d)
                        ELSE IF same THEN Go(sp + len, back + 1, lev, d) ELSE Failure(d)
    [] op = "OQUEST_" -> OrElse(Go(sp, ss + 1, lev, d), sp, ss + n + 1, lev)
    [] op = "OPLUS_" -> Go(sp, ss + 1, lev + 1, [d EXCEPT !.last[lev + 1] = sp])
    [] op = "O_PLUS" -> IF sp = d.last[lev] THEN Go(sp, ss + 1, lev - 1, d)
                        ELSE OrElse(Go(sp, ss - n + 1, lev, [d EXCEPT !.last[lev] = sp]), sp, ss + 1, lev - 1)
    [] op = "OCH_" -> Branches(m, sp, stop, <<ss + 1, ss + n - 1>>, lev, d)
    [] op = "OLPAREN" -> Then(Go(sp, ss + 1, lev, [d EXCEPT !.so[n] = sp]), LAMBDA r :
                           IF r.end # Nowhere THEN r ELSE [r EXCEPT !.so = d.so])
    [] op = "ORPAREN" -> Then(Go(sp, ss + 1, lev, [d EXCEPT !.eo[n] = sp]), LAMBDA r :
                           IF r.end # Nowhere THEN r ELSE [r EXCEPT !.eo = d.eo])

-----------------------------------------------------------------------------
(* The matcher.                                                            *)

NoMatch == [res |-> "NOMATCH"]
Match(so, eo, d) == [res |-> "ok", so |-> so, eo |-> eo, sub |-> [i \in DOMAIN d.so |-> <<d.so[i], d.eo[i]>>],
                     bad |-> d.bad]
RECURSIVE StartOf(_, _, _)
StartOf(m, coldp, stop) ==
  IF slow(m, coldp, stop, 1, Len(m.g.strip) - 1) # Nowhere THEN coldp ELSE StartOf(m, coldp + 1, stop)
RECURSIVE Backoff(_, _, _, _)
Backoff(m, coldp, endp, d) ==
  LET gl == Len(m.g.strip) - 1
      Again(shorter, r) == IF r.end # Nowhere THEN r ELSE Backoff(m, coldp, shorter, r)
  IN  IF endp <= coldp THEN Failure(d)
      ELSE Then(slow(m, coldp, endp - 1, 1, gl), LAMBDA shorter :
             IF shorter = Nowhere THEN Failure(d)
             ELSE Again(shorter, backref(m, coldp, shorter, 1, gl, 0, d)))
RECURSIVE MatchFrom(_, _, _)
MatchFrom(m, nmatch, start) ==
  LET gl == Len(m.g.strip) - 1
      unset == [i \in 1..m.g.nsub |-> Nowhere]
      d == [so |-> unset, eo |-> unset, last |-> [i \in 1..m.g.nplus |-> Nowhere], end |-> Nowhere, bad |-> FALSE]
  IN
  Then(fast(m, start, m.endp, 1, gl), LAMBDA f :
  IF ~f.found THEN NoMatch
  ELSE IF ~m.g.backrefs /\ nmatch = 0 THEN [res |-> "ok"]
  ELSE
  Then(StartOf(m, f.coldp, m.endp), LAMBDA coldp :
  Then(slow(m, coldp, m.endp, 1, gl), LAMBDA endp :
  IF ~m.g.backrefs THEN Match(coldp, endp, IF nmatch = 1 THEN d ELSE dissect(m, coldp, endp, 1, gl, d))
  ELSE
  Then(backref(m, coldp, endp, 1, gl, 0, d), LAMBDA r :
  Then(IF r.end # Nowhere THEN r ELSE Backoff(m, coldp, endp, r), LAMBDA b :
  IF b.end # Nowhere THEN Match(coldp, b.end, b)
  ELSE IF coldp = m.endp THEN [res |-> "beyond"]
  ELSE MatchFrom(m, nmatch, coldp + 1))))))
\* The string the match must contain is looked for first.
regexec(g, str, nmatch, range, eflags) ==
  LET m == [g |-> g, str |-> str, beginp |-> range[1], endp |-> range[2], eflags |-> eflags]
      there == \E p \in m.beginp..(m.endp - Len(g.must)) : SubSeq(str, p + 1, p + Len(g.must)) = g.must
  IN  IF m.endp < m.beginp THEN [res |-> "INVARG"]
      ELSE IF g.must # <<>> /\ ~there THEN NoMatch
      ELSE MatchFrom(m, nmatch, m.beginp)

-----------------------------------------------------------------------------
(* What a regular expression means.  An expression is a tree; Printed() is *)
(* its pattern, and Ways(x, base, i, env, w) the ends j and the values env *)
(* of the subexpressions, numbered from base, of the ways x matches the    *)
(* string of w from position i.                                            *)

Chr(c) == [k |-> "chr", c |-> c]
Dot == [k |-> "any"]
Bracket(text, cs, neg) == [k |-> "set", text |-> text, cs |-> cs, neg |-> neg]
Mark(op, text) == [k |-> "mark", op |-> op, text |-> text]
Bol == Mark("OBOL", <<"^">>)
Eol == Mark("OEOL", <<"$">>)
Bow == Mark("OBOW", <<"[", "[", ":", "<", ":", "]", "]">>)
Eow == Mark("OEOW", <<"[", "[", ":", ">", ":", "]", "]">>)
Cat(x, y) == [k |-> "cat", x |-> x, y |-> y]
Alt(x, y) == [k |-> "alt", x |-> x, y |-> y]
Rep(x, text, from, to) == [k |-> "rep", x |-> x, text |-> text, from |-> from, to |-> to]
Grp(x) == [k |-> "grp", x |-> x]
Ref(n) == [k |-> "ref", n |-> n]

Escaped(c, ere) == IF ere THEN <<c>> ELSE <<"\\", c>>
RECURSIVE Printed(_, _)
Printed(x, ere) ==
  CASE x.k = "chr" -> <<x.c>>
    [] x.k = "any" -> <<".">>
    [] x.k \in {"set", "mark"} -> x.text
    [] x.k = "cat" -> Printed(x.x, ere) \o Printed(x.y, ere)
    [] x.k = "alt" -> Printed(x.x, ere) \o <<"|">> \o Printed(x.y, ere)
    [] x.k = "rep" -> Printed(x.x, ere)
         \o (IF x.text[1] = "{" THEN Escaped("{", ere) \o Tail(x.text) \o Escaped("}", ere) ELSE x.text)
    [] x.k = "grp" -> Escaped("(", ere) \o Printed(x.x, ere) \o Escaped(")", ere)
    [] x.k = "ref" -> <<"\\", Digits[x.n + 1]>>
RECURSIVE Groups(_)
Groups(x) == CASE x.k \in {"cat", "alt"} -> Groups(x.x) + Groups(x.y)
               [] x.k = "rep" -> Groups(x.x)
               [] x.k = "grp" -> 1 + Groups(x.x)
               [] OTHER -> 0

Fold(c, w) == IF w.icase /\ isalpha(c) THEN {c, othercase(c)} ELSE {c}
Holds(op, i, w) ==
  LET before == IF i = w.beginp THEN OUT ELSE w.str[i]
      after == IF i = w.endp THEN OUT ELSE w.str[i + 1]
      bol == (before = OUT /\ "NOTBOL" \notin w.eflags) \/ (before = NL /\ w.newline)
      eol == (after = OUT /\ "NOTEOL" \notin w.eflags) \/ (after = NL /\ w.newline)
      word(c) == c # OUT /\ ISWORD(c)
  IN  CASE op = "OBOL" -> bol
        [] op = "OEOL" -> eol
        [] op = "OBOW" -> word(after) /\ ~word(before) /\ (before = OUT => bol)
        [] op = "OEOW" -> word(before) /\ ~word(after) /\ (after = OUT => eol)
One(cs, i, env, w) == IF i < w.endp /\ w.str[i + 1] \in cs THEN {<<i + 1, env>>} ELSE {}
RECURSIVE Ways(_, _, _, _, _)
\* What n more rounds add to the ways already found; a round may forget what
\* the subexpressions in it matched before.
RECURSIVE Rounds(_, _, _, _, _)
Rounds(x, base, from, n, w) ==
  LET Forgot(env) == [g \in DOMAIN env |-> IF g \in (base + 1)..(base + Groups(x)) THEN <<Nowhere, Nowhere>> ELSE env[g]]
  IN  IF n = 0 THEN from
      ELSE Rounds(x, base, UNION {Ways(x, base, f[1], e, w) : <<f, e>> \in
                    {<<f, e>> \in from \X ({f[2] : f \in from} \cup {Forgot(f[2]) : f \in from}) :
                       e \in {f[2], Forgot(f[2])}}}, n - 1, w)
RECURSIVE AnyRounds(_, _, _, _)
AnyRounds(x, base, from, w) ==
  LET more == from \cup Rounds(x, base, from, 1, w) IN
  IF more = from THEN from ELSE AnyRounds(x, base, more, w)
Ways(x, base, i, env, w) ==
  LET least == Rounds(x.x, base, {<<i, env>>}, x.from, w)
      len == env[x.n][2] - env[x.n][1]
  IN
  CASE x.k = "chr" -> One(Fold(x.c, w), i, env, w)
    [] x.k = "any" -> One(IF w.newline THEN AllChars \ {NL} ELSE AllChars, i, env, w)
    [] x.k = "set" -> LET cs == UNION {Fold(c, w) : c \in x.cs}
                      IN  One(IF x.neg THEN AllChars \ (cs \cup IF w.newline THEN {NL} ELSE {}) ELSE cs, i, env, w)
    [] x.k = "mark" -> IF Holds(x.op, i, w) THEN {<<i, env>>} ELSE {}
    [] x.k = "cat" -> UNION {Ways(x.y, base + Groups(x.x), f[1], f[2], w) : f \in Ways(x.x, base, i, env, w)}
    [] x.k = "alt" -> Ways(x.x, base, i, env, w) \cup Ways(x.y, base + Groups(x.x), i, env, w)
    [] x.k = "rep" -> IF x.to = INFINITY THEN AnyRounds(x.x, base, least, w)
                      ELSE UNION {Rounds(x.x, base, least, n, w) : n \in 0..(x.to - x.from)}
    [] x.k = "grp" -> {<<f[1], [f[2] EXCEPT ![base + 1] = <<i, f[1]>>]>> : f \in Ways(x.x, base + 1, i, env, w)}
    [] x.k = "ref" -> IF env[x.n][2] # Nowhere /\ i + len <= w.endp
                         /\ SubSeq(w.str, i + 1, i + len) = SubSeq(w.str, env[x.n][1] + 1, env[x.n][2])
                      THEN {<<i + len, env>>} ELSE {}
\* The leftmost match, and the longest of those, if the expression matches.
Right(x, w, r) ==
  LET env == [g \in 1..Groups(x) |-> <<Nowhere, Nowhere>>]
  IN Then([i \in w.beginp..w.endp |-> Ways(x, 0, i, env, w)], LAMBDA from :
  Then({i \in w.beginp..w.endp : from[i] # {}}, LAMBDA starts :
  LET so == Min(starts)
      eo == Max({f[1] : f \in from[so]})
  IN  IF starts = {} THEN r.res = "NOMATCH"
      ELSE r.res = "ok" /\ r.so = so /\ r.eo = eo /\ <<eo, r.sub>> \in from[so]))

\* Where the code departs from this, by the shape of the expression:
\*   "cold"     a branch of a choice that is not the last can match nothing;
\*              fast() takes a match under way for none (engine.h, coldp)
\*   "greedy"   the body of a loop matches strings of two lengths; dissect()
\*              takes the longest each time and may not come out at the end
\*   "choice"   backref() wants a branch to end where the whole match ends
\*   "null"     backref() does not restore lastpos[] and goes round for ever
\*   "unset"    a group that took no part is referred to at the end of the string
\*   "dropped"  \(x\)\{0\} removes what \1 is copied from
\*   "marks"    a word boundary is stepped over once, after the line ends
RECURSIVE Parts(_)
Parts(x) == {x} \cup CASE x.k \in {"cat", "alt"} -> Parts(x.x) \cup Parts(x.y)
                       [] x.k \in {"rep", "grp"} -> Parts(x.x)
                       [] OTHER -> {}
RECURSIVE Lengths(_)
Lengths(x) == \* of its matches, up to 3; a reference may be to anything
  LET Sums(S, T) == {Min({i + j, 3}) : i \in S, j \in T}
      one == Lengths(x.x)
  IN  CASE x.k \in {"chr", "any", "set"} -> {1}
        [] x.k = "mark" -> {0}
        [] x.k = "ref" -> 0..3
        [] x.k = "cat" -> Sums(one, Lengths(x.y))
        [] x.k = "alt" -> one \cup Lengths(x.y)
        [] x.k = "grp" -> one
        [] x.k = "rep" -> UNION {IF n = 0 THEN {0} ELSE IF n = 1 THEN one ELSE IF n = 2 THEN Sums(one, one)
                                 ELSE Sums(one, Sums(one, one)) : n \in x.from..Min({x.to, 3})}
RECURSIVE Skippable(_)   \* groups that may take no part
Skippable(x) == CASE x.k = "cat" -> Skippable(x.x) \/ Skippable(x.y)
                  [] x.k = "grp" -> Skippable(x.x)
                  [] x.k = "alt" -> Groups(x) > 0
                  [] x.k = "rep" -> (x.from = 0 /\ Groups(x) > 0) \/ Skippable(x.x)
                  [] OTHER -> FALSE
ShapeOf(x) ==
  LET loops == {p \in Parts(x) : p.k = "rep" /\ p.to = INFINITY}
      refs == \E p \in Parts(x) : p.k = "ref"
      marks(p) == {q.op : q \in {r \in Parts(p) : r.k = "mark"}}
      Is(name, cond) == IF cond THEN {name} ELSE {}
  IN  Is("cold", \E p \in Parts(x) : p.k = "alt" /\ 0 \in Lengths(p.x))
      \cup Is("greedy", ~refs /\ \E p \in loops : Groups(p) > 0 /\ Cardinality(Lengths(p.x)) > 1)
      \cup Is("choice", refs /\ \E p \in Parts(x) : p.k = "rep" /\ p.from \in 0..1 /\ p.to \in 1..DUPMAX /\ p.to > p.from)
      \cup Is("null", refs /\ \E p \in loops : 0 \in Lengths(p.x))
      \cup Is("unset", refs /\ Skippable(x) /\ 0 \in Lengths(x))
      \cup Is("dropped", refs /\ \E p \in Parts(x) : p.k = "rep" /\ p.to = 0)
      \cup Is("marks", marks(x) \cap {"OBOW", "OEOW"} # {}
                       /\ \E p \in Parts(x) : p.k = "cat" /\ marks(p.x) # {} /\ marks(p.y) # {})

-----------------------------------------------------------------------------
\* Every deviation from sequential flow is marked at both its ends, the way
\* the table of operators in regex2.h says.
StripIsWhole(g) ==
  LET strip == g.strip
  IN  \A k \in DOMAIN strip :
        LET op == strip[k][1]
            n == strip[k][2]
        IN  CASE op = "OPLUS_" -> k + n \in DOMAIN strip /\ strip[k + n] = <<"O_PLUS", n>>
              [] op = "OQUEST_" -> k + n \in DOMAIN strip /\ strip[k + n] = <<"O_QUEST", n>>
              [] op \in {"O_PLUS", "O_QUEST"} -> k - n \in DOMAIN strip /\ strip[k - n][2] = n
              [] op = "OCH_" -> k + n \in DOMAIN strip /\ strip[k + n][1] = "OOR2"
              [] op = "OOR2" -> k + n \in DOMAIN strip /\ strip[k + n][1] \in {"OOR2", "O_CH"}
                                /\ strip[k - 1][1] = "OOR1"
              [] op = "OOR1" -> k - n \in DOMAIN strip /\ strip[k - n][1] \in {"OOR1", "OCH_"}
              [] op = "O_CH" -> k - n \in DOMAIN strip /\ strip[k - n][1] = "OOR1"
              [] op = "OANYOF" -> n + 1 \in DOMAIN g.sets
              [] op \in {"OLPAREN", "ORPAREN", "OBACK_", "O_BACK"} -> n \in 1..g.nsub
              [] OTHER -> TRUE
\* No operator tells two characters of one category apart.
CategoriesAreSound(g) ==
  \A c, d \in AllChars : g.categories[c] = g.categories[d] =>
    /\ \A i \in DOMAIN g.sets : c \in g.sets[i] <=> d \in g.sets[i]
    /\ c # d => \A k \in DOMAIN g.strip : g.strip[k] \notin {<<"OCHAR", c>>, <<"OCHAR", d>>}
=============================================================================
