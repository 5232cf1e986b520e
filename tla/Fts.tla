--------------------------------- MODULE Fts ---------------------------------
(***************************************************************************)
(* static/fts.c: walking a file hierarchy.  fts_open, fts_read, fts_set,   *)
(* fts_children and fts_close over one stream, in a hierarchy that does    *)
(* not change.  Each call of the caller is one step.                       *)
(*                                                                         *)
(* A use is a record: the hierarchy (kind, ents, target, up, dev of its    *)
(* nodes; shut directories cannot be opened, closed ones cannot be made    *)
(* the current directory nor looked into), the directory the caller is in, *)
(* the arguments and options of fts_open, whether there is a comparison    *)
(* routine, the faults that may happen, how many times the caller may      *)
(* call fts_set and fts_children, and with which instructions.             *)
(*                                                                         *)
(* The linked lists of FTSENTs form a stack: one list per level, the first *)
(* entry of a list being the one under way (those before it are freed).    *)
(* An entry's fts_accpath is <<>> when it points to the stream's path      *)
(* buffer and otherwise the names it consists of.                          *)
(***************************************************************************)
EXTENDS Integers, Sequences, SequencesExt, FiniteSets, Bags

CONSTANTS Uses, Nil, Junk,
          PathSlack,   \* by how much more than asked the path buffer grows
          Flaws

Dot == 0
DotDot == 1
Slash == 2
ISDOT(name) == name \in {<<Dot>>, <<DotDot>>}

VARIABLES use,    \* the use, chosen once
          s,      \* the stream, the current directory and the caller's descriptors
          ret,    \* what the last call returned
          seen,   \* how often each path was returned, as what
          asked   \* paths skipped, paths followed, and whether any was read again
vars == <<use, s, ret, seen, asked>>

-----------------------------------------------------------------------------
(* The hierarchy. *)
IsDir(n) == n # Nil /\ use.kind[n] = "dir"
Follow(n) == IF n # Nil /\ use.kind[n] = "link" THEN use.target[n] ELSE n
Entries(d) == <<<<Dot, d>>, <<DotDot, use.up[d]>>>> \o use.ents[d]

Step(n, name) ==
  LET d == Follow(n)
      found == {i \in DOMAIN Entries(d) : Entries(d)[i][1] = name}
  IN  IF name = Slash THEN use.root
      ELSE IF ~IsDir(d) THEN Nil
      ELSE IF d \in use.closed \/ found = {} THEN Nil
      ELSE Entries(d)[CHOOSE i \in found : TRUE][2]

RECURSIVE Lookup(_, _)
Lookup(d, names) == IF names = <<>> THEN d ELSE Lookup(Step(d, Head(names)), Tail(names))

Enterable(n) == IsDir(Follow(n)) /\ Follow(n) \notin use.closed
st_nlink(d) == IF d = use.root THEN 3 ELSE 2

-----------------------------------------------------------------------------
(* The stream. *)
ISSET(t, opt) == opt \in t.opts
Cur(t) == Head(Last(t.stack))
Level(t) == Len(t.stack) - 1
WithCur(t, p) == [t EXCEPT !.stack[Len(t.stack)][1] = p]
Ancestors(t, n) == {Head(t.stack[i]).ino : i \in 1..n}

fts_alloc(name, gen) ==
  [name |-> name, info |-> "INIT", acc |-> name, len |-> 0, ino |-> Nil, err |-> FALSE,
   dont |-> FALSE, symfd |-> Nil, instr |-> "NOINSTR", gen |-> gen]

Accpath(t, p) == IF p.acc # <<>> THEN p.acc ELSE IF p.gen = t.gen THEN t.path ELSE <<Junk>>

(* l is what lstat finds, n what the call meant finds. *)
Statted(p, above, l, n) ==
  IF n = Nil
  THEN (IF l # Nil THEN [p EXCEPT !.info = "SLNONE"] ELSE [p EXCEPT !.info = "NS", !.err = TRUE])
  ELSE IF IsDir(n)
  THEN [p EXCEPT !.ino = n,
                 !.info = IF ISDOT(p.name) THEN "DOT" ELSE IF n \in above THEN "DC" ELSE "D"]
  ELSE [p EXCEPT !.info = IF use.kind[n] = "link" THEN "SL" ELSE "F"]
fts_stat(t, p, above, follow) ==
  LET Found(l) == Statted(p, above, l, IF ISSET(t, "LOGICAL") \/ follow THEN Follow(l) ELSE l)
  IN  Found(Lookup(t.cwd, Accpath(t, p)))

(* Sorted by name with a comparison routine, unless memory is short. *)
fts_sort(list, mem) ==
  IF ~use.compar \/ ~mem THEN list
  ELSE SortSeq(list, LAMBDA a, b : Last(a.name) < Last(b.name))

(* chdir and fchdir: the directory, or Nil. *)
CHDIR(t, n) == IF ISSET(t, "NOCHDIR") THEN t.cwd ELSE IF Enterable(n) THEN Follow(n) ELSE Nil

(* fts_palloc and fts_padjust: the buffer grows and moves, and the entries *)
(* already returned are told; an access path that was not in it is spoilt. *)
Moved(p, gen) == [p EXCEPT !.gen = gen, !.acc = IF p.acc = <<>> THEN <<>> ELSE <<Junk>>]
fts_padjust(t) ==
  [t EXCEPT !.stack = [i \in DOMAIN t.stack |-> [j \in DOMAIN t.stack[i] |-> Moved(t.stack[i][j], t.gen)]],
            !.child = [j \in DOMAIN t.child |-> Moved(t.child[j], t.gen)]]

(* One entry of the directory being read. *)
Listed(t, cur, cderrno, nlinks, nostat, e) ==
  LET acc == IF ISSET(t, "NOCHDIR") THEN <<>> ELSE <<e[1]>>
      p == [fts_alloc(<<e[1]>>, cur.gen) EXCEPT !.len = cur.len + 1, !.acc = acc]
      at == [t EXCEPT !.path = SubSeq(t.path, 1, cur.len) \o <<e[1]>>]
  IN  IF cderrno
      THEN [p EXCEPT !.info = IF nlinks # 0 THEN "NS" ELSE "NSOK", !.err = (nlinks # 0), !.acc = cur.acc]
      ELSE IF nlinks = 0 \/ (nostat /\ use.kind[e[2]] = "file") THEN [p EXCEPT !.info = "NSOK"]
      ELSE fts_stat(at, p, Ancestors(t, Len(t.stack)), FALSE)

RECURSIVE Listing(_, _, _, _, _, _)
Listing(t, cur, cderrno, nlinks, nostat, ents) ==
  IF ents = <<>> THEN <<>>
  ELSE LET p == Listed(t, cur, cderrno, nlinks, nostat, Head(ents))
       IN  <<p>> \o Listing(t, cur, cderrno,
                            IF nlinks > 0 /\ p.info \in {"D", "DC", "DOT"} THEN nlinks - 1 ELSE nlinks,
                            nostat, Tail(ents))

(* Back from a directory that was entered to list it. *)
WayBack(t) == IF Level(t) = 0 THEN t.rfd ELSE use.up[t.cwd]

(* The end of fts_build, for a directory that was opened: t is the stream  *)
(* in it, if descend, and ents are its entries.                            *)
BuildEnd(t, type, mem, descend, cderrno, nlinks, cheat, ents) ==
  LET grown == ents # <<>> /\ Cur(t).len + 1 > t.space
      t2 == IF grown
            THEN fts_padjust([t EXCEPT !.gen = 1 - @, !.space = @ + 1 + PathSlack]) ELSE t
      list == Listing([t EXCEPT !.gen = IF grown THEN 1 - @ ELSE @], Cur(t), cderrno, nlinks, cheat, ents)
      leave == descend /\ (type = "CHILD" \/ ents = <<>>)
      back == CHDIR(t2, WayBack(t2))
      t3 == IF leave THEN [t2 EXCEPT !.cwd = back] ELSE t2
      stop(x) == [WithCur(x, [Cur(x) EXCEPT !.info = "ERR"]) EXCEPT !.opts = @ \cup {"STOP"}, !.child = <<>>]
  IN  IF ents # <<>> /\ ~mem THEN stop(t)
      ELSE IF leave /\ back = Nil THEN stop(t2)
      ELSE IF ents = <<>>
      THEN [(IF type = "READ" THEN WithCur(t3, [Cur(t3) EXCEPT !.info = "DP"]) ELSE t3) EXCEPT !.child = <<>>]
      ELSE [t3 EXCEPT !.child = fts_sort(list, TRUE)]

(* d is the directory that the current entry is. *)
BuildFrom(t, type, mem, cur, d) ==
  LET cheat == type # "NAMES" /\ ISSET(t, "NOSTAT") /\ ISSET(t, "PHYSICAL")
      nlinks == IF type = "NAMES" THEN 0
                ELSE IF cheat THEN st_nlink(cur.ino) - (IF ISSET(t, "SEEDOT") THEN 0 ELSE 2) ELSE -1
      try == nlinks # 0 \/ type = "READ"
      cderrno == try /\ CHDIR(t, d) = Nil
      cur1 == [cur EXCEPT !.err = (@ \/ (cderrno /\ nlinks # 0 /\ type = "READ")), !.dont = (@ \/ cderrno)]
      ents == SelectSeq(Entries(d), LAMBDA e : ISSET(t, "SEEDOT") \/ e[1] \notin {Dot, DotDot})
  IN  IF ~IsDir(d) \/ d \in use.shut
      THEN [(IF type = "READ" THEN WithCur(t, [cur EXCEPT !.info = "DNR", !.err = TRUE]) ELSE t)
            EXCEPT !.child = <<>>]
      ELSE BuildEnd([WithCur(t, cur1) EXCEPT !.cwd = IF try /\ ~cderrno THEN CHDIR(t, d) ELSE @,
                                           !.path = SubSeq(@, 1, cur.len)],
                  type, mem, try /\ ~cderrno, cderrno, nlinks, cheat, ents)

(* The stream after fts_build, with the list in child. *)
fts_build(t, type, mem) ==
  BuildFrom(t, type, mem, Cur(t), Follow(Lookup(t.cwd, Accpath(t, Cur(t)))))

-----------------------------------------------------------------------------
(* fts_read: the stream it leaves; the entry it returns is the current one *)
(* unless the stream has stopped or is at its end.                         *)
fts_load(t, p) ==
  LET q == [p EXCEPT !.len = Len(p.name), !.name = <<Last(p.name)>>, !.acc = <<>>, !.gen = t.gen]
  IN  [WithCur(t, q) EXCEPT !.path = p.name, !.dev = IF p.ino = Nil THEN Junk ELSE use.dev[p.ino]]

(* The path of the entry becomes that of its parent and its name. *)
name(t) == [t EXCEPT !.path = SubSeq(@, 1, Cur(t).len - 1) \o Cur(t).name]

(* A link is followed; the way back is kept open. *)
Followed(t, p, open) ==
  LET q == fts_stat(t, p, Ancestors(t, Level(t)), TRUE)
  IN  IF q.info # "D" \/ ISSET(t, "NOCHDIR") THEN q
      ELSE IF ~open THEN [q EXCEPT !.info = "ERR", !.err = TRUE]
      ELSE [q EXCEPT !.symfd = t.cwd]

Stopped(t) == [t EXCEPT !.opts = @ \cup {"STOP"}]

(* Mutant: ".." even from behind a link. *)
MoveUpDots(t) ==
  LET u == [t EXCEPT !.stack = Front(@)]
      p == Cur(u)
      to == IF Level(u) = 0 THEN CHDIR(u, u.rfd)
            ELSE IF ~p.dont THEN CHDIR(u, use.up[u.cwd]) ELSE u.cwd
      q == [p EXCEPT !.info = IF p.err THEN "ERR" ELSE "DP", !.symfd = IF Level(u) = 0 THEN @ ELSE Nil]
  IN  IF Len(t.stack) = 1 THEN [t EXCEPT !.stack = <<>>]
      ELSE IF to = Nil THEN Stopped(u)
      ELSE [WithCur(u, q) EXCEPT !.path = SubSeq(@, 1, p.len), !.cwd = to]

(* Up to the parent, whose children are done. *)
MoveUp(t) ==
  LET u == [t EXCEPT !.stack = Front(@)]
      p == Cur(u)
      to == IF Level(u) = 0 THEN CHDIR(u, u.rfd)
            ELSE IF p.symfd # Nil THEN CHDIR(u, p.symfd)
            ELSE IF ~p.dont THEN CHDIR(u, use.up[u.cwd]) ELSE u.cwd
      q == [p EXCEPT !.info = IF p.err THEN "ERR" ELSE "DP", !.symfd = IF Level(u) = 0 THEN @ ELSE Nil]
  IN  IF Len(t.stack) = 1 THEN [t EXCEPT !.stack = <<>>]
      ELSE IF to = Nil THEN Stopped(u)
      ELSE [WithCur(u, q) EXCEPT !.path = SubSeq(@, 1, p.len), !.cwd = to]

(* To the next entry of this level. *)
RECURSIVE next(_, _)
next(t, open) ==
  LET u == [t EXCEPT !.stack[Len(t.stack)] = Tail(@)]
      p == Cur(u)
  IN  IF Len(Last(t.stack)) = 1 THEN MoveUp(t)
      ELSE IF Level(t) = 0
      THEN IF CHDIR(u, u.rfd) = Nil THEN Stopped(u)
           ELSE fts_load([u EXCEPT !.cwd = CHDIR(u, u.rfd)], p)
      ELSE IF p.instr = "SKIP" THEN next(u, open)
      ELSE IF p.instr = "FOLLOW"
      THEN name(WithCur(u, [Followed(name(u), p, open) EXCEPT !.instr = "NOINSTR"]))
      ELSE name(u)

Descend(t) == name([t EXCEPT !.stack = Append(@, t.child), !.child = <<>>])

Begin(built) == IF built.child = <<>> THEN built ELSE Descend(built)

(* Mutant: a list of mere names is not built again. *)
EnterNames(t, mem) ==
  LET fresh == t.child = <<>>
      cd == CHDIR(t, Lookup(t.cwd, Accpath(t, Cur(t))))
      whacked == [WithCur(t, [Cur(t) EXCEPT !.err = TRUE, !.dont = TRUE])
                  EXCEPT !.child = [i \in DOMAIN t.child |-> [t.child[i] EXCEPT !.acc = Cur(t).acc]]]
  IN  IF fresh
      THEN Begin(fts_build([t EXCEPT !.child = <<>>, !.opts = IF t.child # <<>> THEN @ \ {"NAMEONLY"} ELSE @],
                           "READ", mem))
      ELSE Descend(IF cd = Nil THEN whacked ELSE [t EXCEPT !.cwd = cd])

(* A directory in pre-order: its children, just listed or listed before. *)
Enter(t, mem) ==
  LET fresh == t.child = <<>> \/ ISSET(t, "NAMEONLY")
      cd == CHDIR(t, Lookup(t.cwd, Accpath(t, Cur(t))))
      whacked == [WithCur(t, [Cur(t) EXCEPT !.err = TRUE, !.dont = TRUE])
                  EXCEPT !.child = [i \in DOMAIN t.child |-> [t.child[i] EXCEPT !.acc = Cur(t).acc]]]
  IN  IF fresh
      THEN Begin(fts_build([t EXCEPT !.child = <<>>, !.opts = IF t.child # <<>> THEN @ \ {"NAMEONLY"} ELSE @],
                           "READ", mem))
      ELSE Descend(IF cd = Nil THEN whacked ELSE [t EXCEPT !.cwd = cd])

fts_read(t0, mem, open) ==
  LET instr == Cur(t0).instr
      p == [Cur(t0) EXCEPT !.instr = "NOINSTR"]
      t == WithCur(t0, p)
  IN  IF t0.stack = <<>> \/ ISSET(t0, "STOP") THEN t0
      ELSE IF instr = "AGAIN" THEN WithCur(t, fts_stat(t, p, Ancestors(t, Level(t)), FALSE))
      ELSE IF instr = "FOLLOW" /\ p.info \in {"SL", "SLNONE"} THEN WithCur(t, Followed(t, p, open))
      ELSE IF p.info # "D" THEN next(t, open)
      ELSE IF instr = "SKIP" \/ (ISSET(t, "XDEV") /\ use.dev[p.ino] # t.dev)
      THEN [WithCur(t, [p EXCEPT !.info = "DP", !.symfd = Nil]) EXCEPT !.child = <<>>]
      ELSE Enter(t, mem)

(* fts_children: the stream with the list in child.  When the current      *)
(* directory cannot be opened the old list is freed but still linked.      *)
fts_children(t, instr, mem) ==
  LET type == IF instr = "NAMEONLY" THEN "NAMES" ELSE "CHILD"
      u == [t EXCEPT !.child = <<>>, !.opts = IF type = "NAMES" THEN @ \cup {"NAMEONLY"} ELSE @]
      stays == Level(t) # 0 \/ Head(Accpath(t, Cur(t))) = Slash \/ ISSET(t, "NOCHDIR")
  IN  IF ISSET(t, "STOP") \/ Cur(t).info # "D" THEN t
      ELSE [fts_build(u, type, mem) EXCEPT !.cwd = IF stays THEN @ ELSE t.cwd]

(* The roots, as fts_open lists them. *)
RECURSIVE Roots(_, _)
Roots(t, argv) ==
  IF argv = <<>> THEN <<>>
  ELSE LET p == fts_stat(t, fts_alloc(Head(argv), 0), {}, ISSET(t, "COMFOLLOW"))
           q == IF p.info = "DOT" THEN [p EXCEPT !.info = "D"] ELSE p
       IN  IF use.compar THEN Roots(t, Tail(argv)) \o <<q>> ELSE <<q>> \o Roots(t, Tail(argv))

fts_open(open, mem) ==
  LET opts == use.opts \cup (IF "LOGICAL" \in use.opts THEN {"NOCHDIR"} ELSE {})
      t == [state |-> "open", opts |-> opts, stack |-> <<>>, child |-> <<>>, path |-> <<>>, dev |-> Junk,
            cwd |-> use.start, rfd |-> Nil, gen |-> 0, space |-> use.space]
      roots == fts_sort(Roots(t, use.argv), mem)
  IN  [t EXCEPT !.stack = <<<<fts_alloc(<<>>, 0)>> \o roots>>,
                !.rfd = IF "NOCHDIR" \in opts \/ ~open THEN Nil ELSE use.start,
                !.opts = IF open THEN opts ELSE opts \cup {"NOCHDIR"}]

-----------------------------------------------------------------------------
(* The caller. *)
Init ==
  /\ use \in Uses
  /\ s = [state |-> "none"]
  /\ ret = "none"
  /\ seen = EmptyBag
  /\ asked = [skipped |-> {}, followed |-> {}, again |-> FALSE, calls |-> 0]

Can(fault) == {TRUE} \cup (IF fault \in use.faults THEN {FALSE} ELSE {})

Open ==
  /\ s.state = "none"
  /\ IF <<>> \in Range(use.argv)
     THEN s' = [state |-> "closed", cwd |-> use.start] /\ ret' = "null"
     ELSE /\ \E open \in Can("open"), mem \in Can("mem") : s' = fts_open(open, mem)
          /\ ret' = "stream"
  /\ UNCHANGED <<use, seen, asked>>

(* The path of a directory's child, as the code goes astray: the way back  *)
(* from a followed link to an empty directory, or to one that is listed,   *)
(* is taken to be its "..".                                                *)
Empty(d) == use.ents[d] = <<>> /\ "SEEDOT" \notin use.opts
Sound(flaw, wrong) == flaw \in Flaws \/ ~wrong
InLink == Level(s) > 0 /\ Cur(s).symfd # Nil /\ ~ISSET(s, "NOCHDIR")
Grows == Cur(s).info = "D" /\ Cur(s).len + 1 > s.space

Class(info) == IF info = "D" THEN "pre" ELSE IF info \in {"DP", "DNR", "ERR"} THEN "post" ELSE "leaf"
Ended(t) == t.stack = <<>> \/ ISSET(t, "STOP")

Read ==
  /\ s.state = "open"
  /\ s.stack # <<>> => /\ Sound("empty", InLink /\ Cur(s).info = "D" /\ Empty(Cur(s).ino))
                       /\ Sound("moved", Grows)
  /\ \E mem \in Can("mem"), open \in Can("open") :
       \E t \in {fts_read(s, mem, open)} :
         /\ s' = t
         /\ ret' = IF Ended(t) THEN "null" ELSE "entry"
         /\ asked' = IF ~Ended(t) /\ Cur(t).info = "ERR" THEN [asked EXCEPT !.followed = @ \ {t.path}] ELSE asked
         /\ seen' = IF Ended(t) THEN seen ELSE seen (+) SetToBag({<<t.path, Class(Cur(t).info)>>})
  /\ UNCHANGED use

Ask == asked.calls < use.calls /\ s.state = "open" /\ s.stack # <<>>

Children ==
  /\ Ask
  /\ \E instr \in use.lists :
       /\ Sound("listed", InLink /\ instr # "NAMEONLY")
       /\ Sound("moved", Grows)
       /\ \E mem \in Can("mem") : s' = fts_children(s, instr, mem)
  /\ ret' = "list"
  /\ LET old == {SubSeq(s.path, 1, Cur(s).len) \o s.child[i].name : i \in DOMAIN s.child}
     IN  asked' = [asked EXCEPT !.calls = @ + 1, !.skipped = @ \ old, !.followed = @ \ old]
  /\ UNCHANGED <<use, seen>>

(* A root that is "." or a link is no longer taken for what it leads to    *)
(* when it is read again.                                                  *)
Spelled == Level(s) = 0 /\ (ISDOT(Cur(s).name) \/ (ISSET(s, "COMFOLLOW") /\ Lookup(use.start, s.path) # Cur(s).ino))

(* fts_set on the entry last read. *)
SetCurrent ==
  /\ Ask
  /\ ret = "entry"
  /\ Cur(s).instr = "NOINSTR"
  /\ \E instr \in use.instrs :
       /\ instr = "FOLLOW" => /\ Cur(s).info \in {"SL", "SLNONE"}
                              /\ Sound("device", ISSET(s, "XDEV") /\ Level(s) = 0)
       /\ instr = "AGAIN" => Sound("again", Spelled)
       /\ s' = WithCur(s, [Cur(s) EXCEPT !.instr = instr])
       /\ asked' = [skipped |-> asked.skipped \cup (IF instr = "SKIP" /\ Cur(s).info = "D" THEN {s.path} ELSE {}),
                    followed |-> CASE instr = "FOLLOW" -> asked.followed \cup {s.path}
                                   [] instr = "AGAIN" -> asked.followed \ {s.path}
                                   [] OTHER -> asked.followed,
                    again |-> asked.again \/ instr = "AGAIN",
                    calls |-> asked.calls + 1]
  /\ UNCHANGED <<use, ret, seen>>

(* fts_set on an entry of the list last returned by fts_children. *)
SetChild ==
  /\ Ask
  /\ ret = "list"
  /\ Cur(s).info = "D"
  /\ Sound("names", ISSET(s, "NAMEONLY"))
  /\ \E i \in DOMAIN s.child, instr \in use.instrs \ {"AGAIN"} :
       LET q == SubSeq(s.path, 1, Cur(s).len) \o s.child[i].name
       IN  /\ s.child[i].instr = "NOINSTR"
           /\ instr = "FOLLOW" => s.child[i].info = "SL"
           /\ s' = [s EXCEPT !.child[i].instr = instr]
           /\ asked' = [asked EXCEPT !.skipped = @ \cup (IF instr = "SKIP" THEN {q} ELSE {}),
                                     !.followed = @ \cup (IF instr = "FOLLOW" THEN {q} ELSE {}),
                                     !.calls = @ + 1]
  /\ UNCHANGED <<use, ret, seen>>

fts_close ==
  /\ s.state = "open"
  /\ s' = [state |-> "closed", cwd |-> IF ISSET(s, "NOCHDIR") THEN s.cwd ELSE s.rfd]
  /\ ret' = "none"
  /\ UNCHANGED <<use, seen, asked>>

Next == Open \/ Read \/ Children \/ SetCurrent \/ SetChild \/ fts_close
Spec == Init /\ [][Next]_vars

-----------------------------------------------------------------------------
(* The access path of the file fts_read returned leads, from the current   *)
(* directory, to the file its path names from the directory the walk was   *)
(* begun in; unless the directory it is in could not be entered.           *)
AccessPathsWork ==
  (ret = "entry" /\ (Level(s) > 0 => ~Head(s.stack[Level(s)]).dont)) =>
    Lookup(s.cwd, Accpath(s, Cur(s))) = Lookup(use.start, s.path)

(* What a walk should return: the paths below an argument, directories     *)
(* that are descended into, those that are not, and other files.           *)
RECURSIVE Walk(_, _, _)
Walk(q, above, root) ==
  LET n == Lookup(use.start, q)
      through == "LOGICAL" \in use.opts \/ (above = {} /\ "COMFOLLOW" \in use.opts) \/ q \in asked.followed
      d == IF through THEN Follow(n) ELSE n
      isdir == IsDir(d) /\ d \notin above /\ (above = {} \/ Last(q) \notin {Dot, DotDot})
      dev == IF root = Nil THEN d ELSE root
      enters == /\ isdir
                /\ d \notin use.shut
                /\ q \notin asked.skipped
                /\ "XDEV" \in use.opts => use.dev[d] = use.dev[dev]
      kids == {Entries(d)[i][1] : i \in DOMAIN Entries(d)} \ (IF "SEEDOT" \in use.opts THEN {} ELSE {Dot, DotDot})
  IN  {<<q, IF isdir THEN "dir" ELSE "leaf">>} \cup
      (IF ~enters THEN {}
       ELSE IF d \in use.closed THEN {<<q \o <<k>>, "leaf">> : k \in kids}
       ELSE UNION {Walk(q \o <<k>>, above \cup {d}, dev) : k \in kids})

(* When a walk has ended without an error, every file below the arguments  *)
(* was returned, a directory before and after what is in it; nothing below *)
(* a skipped one; and each once, unless it was to be read again.           *)
WalkIsComplete ==
  (s.state = "open" /\ s.stack = <<>> /\ ~ISSET(s, "STOP")) =>
    LET all == UNION {Walk(use.argv[i], {}, Nil) : i \in DOMAIN use.argv}
        times(q, c) == CopiesIn(<<q, c>>, seen)
        once(q, c) == times(q, c) = 1 \/ (times(q, c) > 1 /\ (asked.again \/ q \in asked.followed))
    IN  \/ "nostat" \notin Flaws /\ {"NOSTAT", "PHYSICAL"} \subseteq use.opts
        \/ /\ \A x \in all :
                \/ x[1] \in asked.skipped
                \/ x[2] = "leaf" /\ (once(x[1], "leaf") \/ once(x[1], "post"))
                \/ x[2] = "dir" /\ once(x[1], "pre") /\ once(x[1], "post")
           /\ \A y \in BagToSet(seen) : asked.again \/ \E x \in all : x[1] = y[1]

(* fts_close leaves the caller where fts_open found it. *)
HomeAgain == s.state = "closed" => s.cwd = use.start
=============================================================================
