------------------------------ MODULE FileTree ------------------------------
(***************************************************************************)
(* The system calls on names of library/: chdir(), getwd(), mkdir(),       *)
(* symlink(), readlink(), unlink(), rmdir(), rename(), stat(), lstat(),    *)
(* chmod(), chown() and utimes(), and of the calls on an open file those   *)
(* that reach its name: open(), fchmod(), unlink() and close().            *)
(*                                                                         *)
(* They turn a Unix path into an AmigaDOS name (ix_to_ados()) and give it  *)
(* to AmigaDOS, whose root directories are volumes and in whose names a    *)
(* slash after a slash is the parent.  When that finds nothing, the name   *)
(* may have climbed over the root of a volume, and check_root() makes a    *)
(* second name of it.  Names are sequences of characters here, since the   *)
(* conversion is what can go wrong.                                        *)
(*                                                                         *)
(* Each call to AmigaDOS is atomic; only rename() makes several that other *)
(* processes can tell apart.                                               *)
(***************************************************************************)
EXTENDS Integers, SequencesExt, FiniteSetsExt

CONSTANTS Procs,
          Uses,           \* disks to start with, each with the calls that are made
          Umask, MaxNodes,
          Flaws           \* calls that go wrong and are made nevertheless

VARIABLES disk,        \* what AmigaDOS keeps: places and what is there
          cd, is_root, \* the lock on the current directory, u_is_root
          f,           \* the open file, if any
          pc,          \* where rename() is
          call, res,   \* the last call, and what it returned
          use          \* which of Uses this is

vars == <<disk, cd, is_root, f, pc, call, res, use>>

Flaw(name) == name \in Flaws
\* FoldLeft of SequencesExt in a form that TLC evaluates in linear time.
Fold(Op(_, _), base, s) ==
  LET r[i \in 0..Len(s)] ==
        IF i = 0 THEN base ELSE CHOOSE v \in {Op(x, s[i]) : x \in {r[i - 1]}} : TRUE
  IN  r[Len(s)]
Slash == "/"
Dot == "."
Colon == ":"
NUL == "NUL"

-----------------------------------------------------------------------------
(* AmigaDOS: names, and the calls the library makes of it.                 *)

\* Where a name leads: the directory, the last part of the name, the error.
Spot(at, name, err) == [at |-> at, name |-> name, err |-> err]
Step(s, c) ==
  IF s.err # "" THEN s
  ELSE IF c # Slash THEN [s EXCEPT !.name = Append(@, c)]
  ELSE IF s.name = <<>>
       THEN IF Len(s.at) = 1 THEN Spot(s.at, <<>>, "missing")
            ELSE Spot(Front(s.at), <<>>, "")
  ELSE LET next == Append(s.at, s.name) IN
       IF next \notin DOMAIN disk THEN Spot(s.at, s.name, "missing")
       ELSE IF disk[next].kind # "dir" THEN Spot(s.at, s.name, "wrong")
       ELSE Spot(next, <<>>, "")
\* A slash that ends a name adds nothing to it.
Ended(s) == LET n == Len(s) IN IF n > 1 /\ s[n] = Slash /\ s[n - 1] # Slash THEN Front(s) ELSE s
\* i is where the colon is that ends the name of a volume, 0 if there is none.
LocateFrom(name, dir, i) ==
  LET volume == IF i = 1 THEN <<dir[1]>> ELSE <<SubSeq(name, 1, i - 1)>>
      start == IF i = 0 THEN Spot(dir, <<>>, "")
               ELSE IF volume \in DOMAIN disk THEN Spot(volume, <<>>, "")
               ELSE Spot(dir, <<>>, "missing")
  IN  Fold(Step, start, Ended(SubSeq(name, i + 1, Len(name))))
Locate(name, dir) == LocateFrom(name, dir, SelectInSeq(name, LAMBDA c : c = Colon))
PlaceOf(s) == IF s.name = <<>> THEN s.at ELSE Append(s.at, s.name)
\* An object that is there, or why it cannot be had.
ObjectAt(s) ==
  [at |-> PlaceOf(s),
   err |-> IF s.err # "" THEN s.err ELSE IF PlaceOf(s) \notin DOMAIN disk THEN "missing" ELSE ""]
Object(name, dir) == ObjectAt(Locate(name, dir))
\* Lock() follows a link that the name ends in.
Followed(o) ==
  IF o.err = "" /\ disk[o.at].kind = "link" THEN Object(disk[o.at].target, Front(o.at)) ELSE o
Lock(name, dir) == Followed(Object(name, dir))

InUse(place) == \/ \E p \in Procs : cd[p] = place
                \/ f.is /\ f.place = place
Deletable(place) ==
  /\ Len(place) > 1 /\ ~InUse(place)
  /\ \A q \in DOMAIN disk : ~(IsPrefix(place, q) /\ q # place)

-----------------------------------------------------------------------------
(* Names.                                                                  *)

Dots(n) == [i \in 1..n |-> Dot]
ConvertStep(s, c) ==
  LET dots == IF s.dotcnt > 2 THEN Dots(s.dotcnt) ELSE <<>>
      root == IF s.dotcnt > 2 /\ s.root = 1 THEN 2 ELSE s.root
      colon == root = 2 \/ (root = 1 /\ c = NUL)
      slash == /\ ~colon /\ root = 0 /\ ~s.absados
               /\ s.dotcnt = 2 \/ ((s.dotcnt = 0 \/ s.dotcnt > 2) /\ c # NUL)
  IN
  CASE c = Dot -> IF s.allowdot THEN [s EXCEPT !.dotcnt = @ + 1, !.sep = FALSE]
                  ELSE [s EXCEPT !.out = Append(@, Dot), !.sep = FALSE]
    [] c = Slash /\ s.sep -> s
    [] c \in {Slash, NUL} ->
         [s EXCEPT !.out = @ \o dots \o (IF colon THEN <<Colon>> ELSE IF slash THEN <<Slash>> ELSE <<>>),
                   !.root = IF colon THEN 0 ELSE root,
                   !.allowdot = TRUE, !.dotcnt = 0, !.sep = TRUE]
    [] OTHER ->
         [s EXCEPT !.out = @ \o Dots(s.dotcnt) \o <<c>>, !.root = IF @ = 1 THEN 2 ELSE @,
                   !.allowdot = FALSE, !.dotcnt = 0, !.absados = FALSE, !.sep = FALSE]
\* One trailing slash goes, as long as it does not stand for a parent.
TrimSlash(b) ==
  LET n == Len(b) IN
  IF n > 2 /\ b[n] = Slash /\ b[n - 1] \notin {Slash, Colon} THEN Front(b) ELSE b
ix_to_ados(name, atRoot) ==
  LET i == SelectLastInSeq(name, LAMBDA c : c = Colon)
      j == SelectLastInSubSeq(name, 1, i - 1, LAMBDA c : c \in {Colon, Slash})
      prefix == SubSeq(name, j + 1, i)
      rest == IF i > 0 THEN SubSeq(name, i + 1, Len(name))
              ELSE IF ~atRoot /\ name # <<>> /\ name[1] = Slash THEN Tail(name) ELSE name
      start == [out |-> prefix, allowdot |-> TRUE, dotcnt |-> 0, sep |-> FALSE,
                root |-> IF i = 0 /\ (atRoot \/ (name # <<>> /\ name[1] = Slash)) THEN 1 ELSE 0,
                absados |-> i > 0]
  IN  TrimSlash(Fold(ConvertStep, start, Append(rest, NUL)).out)

check_rootShort(name, dir) ==
  LET up == SelectInSeq(Append(name, NUL), LAMBDA c : c # Slash) - 1
      rest == SubSeq(name, up + 1, Len(name))
      i == SelectInSeq(Append(rest, Slash), LAMBDA c : c = Slash)
  IN  IF up <= Len(dir) THEN [null |-> TRUE, name |-> <<>>]
      ELSE [null |-> FALSE,
            name |-> IF rest = <<>> THEN <<>>
                     ELSE SubSeq(rest, 1, i - 1) \o <<Colon>> \o SubSeq(rest, i + 1, Len(rest))]
\* The second name, of a first one that begins by climbing over the root of
\* the volume; null when it does not, empty when it ends in "/".
check_root(name, dir) ==
  LET up == SelectInSeq(Append(name, NUL), LAMBDA c : c # Slash) - 1
      rest == SubSeq(name, up + 1, Len(name))
      i == SelectInSeq(Append(rest, Slash), LAMBDA c : c = Slash)
  IN  IF up < Len(dir) THEN [null |-> TRUE, name |-> <<>>]
      ELSE [null |-> FALSE,
            name |-> IF rest = <<>> THEN <<>>
                     ELSE SubSeq(rest, 1, i - 1) \o <<Colon>> \o SubSeq(rest, i + 1, Len(rest))]

\* What a symbolic link keeps, and how readlink() shows it.
RECURSIVE u2aRest(_)
u2aRest(s) ==
  LET Starts(t) == IsPrefix(t, s)
      After(n) == u2aRest(SubSeq(s, n + 1, Len(s)))
      i == SelectInSeq(Append(s, Slash), LAMBDA c : c = Slash)
  IN
  CASE s = <<>> -> <<>>
    [] Starts(<<Dot, Dot, Slash>>) -> <<Slash>> \o After(3)
    [] Starts(<<Dot, Slash>>) -> After(2)
    [] Starts(<<Slash>>) -> After(1)
    [] s = <<Dot, Dot>> -> <<Slash>>
    [] s = <<Dot>> -> <<>>
    [] OTHER -> SubSeq(s, 1, Min({i, Len(s)})) \o After(i)
u2a(orig) ==
  LET i == SelectInSeq(Append(orig, NUL), LAMBDA c : c # Slash)
      name == SubSeq(orig, i, Len(orig))
      j == SelectInSeq(Append(name, Slash), LAMBDA c : c = Slash)
  IN  IF Colon \in Range(orig) THEN orig
      ELSE IF i > 1 THEN SubSeq(name, 1, j - 1) \o <<Colon>> \o u2aRest(SubSeq(name, j + 1, Len(name)))
      ELSE u2aRest(orig)

RECURSIVE a2uRest(_)
a2uRest(s) ==
  LET i == SelectInSeq(Append(s, Slash), LAMBDA c : c = Slash) IN
  IF s = <<>> THEN <<>>
  ELSE IF s[1] = Slash THEN <<Slash, Dot, Dot>> \o a2uRest(Tail(s))
  ELSE <<Slash>> \o SubSeq(s, 1, i - 1) \o a2uRest(SubSeq(s, i + 1, Len(s)))
a2u(src) ==
  LET i == SelectInSeq(src, LAMBDA c : c = Colon)
      start == IF i > 0 THEN <<Slash>> \o SubSeq(src, 1, i - 1) ELSE <<Dot>>
  IN  start \o a2uRest(SubSeq(src, i + 1, Len(src)))

-----------------------------------------------------------------------------
(* Protection bits, owners and dates.                                      *)

\* Unix permission and the AmigaDOS bits for it; the first four AmigaDOS bits
\* forbid when they are set.
Pairs == { <<"IXUSR", {"EXECUTE"}>>, <<"IWUSR", {"WRITE", "DELETE"}>>, <<"IRUSR", {"READ"}>>,
           <<"IXGRP", {"GRP_EXECUTE"}>>, <<"IWGRP", {"GRP_WRITE", "GRP_DELETE"}>>,
           <<"IRGRP", {"GRP_READ"}>>, <<"IXOTH", {"OTR_EXECUTE"}>>,
           <<"IWOTH", {"OTR_WRITE", "OTR_DELETE"}>>, <<"IROTH", {"OTR_READ"}>>,
           <<"ISTXT", {"HOLD"}>>, <<"ISUID", {"SET_UID"}>>, <<"ISGID", {"SET_GID"}>> }
LowActive == {"READ", "WRITE", "DELETE", "EXECUTE"}
Flip(bits) == (bits \cup LowActive) \ (bits \cap LowActive)
Protection(mode) == Flip(UNION {x[2] : x \in {y \in Pairs : y[1] \in mode}})
Allows(prot, x) == IF x[1] = "IXUSR" THEN prot \cap {"EXECUTE", "SCRIPT"} # {}
                   ELSE IF x[1] = "IWUSR" THEN prot \cap x[2] # {}
                   ELSE x[2] \subseteq prot
Permissions(node) ==
  UNION {{x[1] : x \in {y \in Pairs : Allows(prot, y)}} : prot \in {Flip(node.prot)}}
fill_stat_mode(node) ==
  LET mode == Permissions(node)
      Search == {<<"IRUSR", "IXUSR">>, <<"IRGRP", "IXGRP">>, <<"IROTH", "IXOTH">>}
  IN  IF node.kind = "dir" THEN mode \cup {x[2] : x \in {y \in Search : y[1] \in mode}} ELSE mode

ID == 65536
amiga2unixid(id) == CASE id = ID - 1 -> 0 [] id = ID - 2 -> ID - 1 [] id = 0 -> ID - 2 [] OTHER -> id
unix2amigaid(id) == CASE id = ID - 1 -> ID - 2 [] id = ID - 2 -> 0 [] id = 0 -> ID - 1 [] OTHER -> id

DAY == 24 * 60 * 60
OFFSET_FROM_1970 == 2922
TICKS_PER_SECOND == 50
GmtOffset == -3600      \* ix_get_gmt_offset()
DateStamp(sec) ==
  LET t == sec - GmtOffset
  IN  [days |-> t \div DAY - OFFSET_FROM_1970, minute |-> (t % DAY) \div 60,
       tick |-> (t % 60) * TICKS_PER_SECOND]
st_mtime(ds) == OFFSET_FROM_1970 * DAY + GmtOffset + ds.days * DAY + ds.minute * 60
                  + ds.tick \div TICKS_PER_SECOND
Stat(node) == [kind |-> node.kind, mode |-> fill_stat_mode(node),
               owner |-> amiga2unixid(node.owner), time |-> st_mtime(node.date)]

-----------------------------------------------------------------------------
(* Reaching an object.                                                     *)

Ados(p, path) == ix_to_ados(path, is_root[p])
\* The name a call ends up with: the second one when the first finds nothing.
OneOf(b, second) == IF ~second.null /\ second.name # <<>> THEN second.name ELSE b
Second(p, b) == OneOf(b, check_root(b, cd[p]))
Existing(p, path) ==
  LET Name(b) == IF Object(b, cd[p]).err = "missing" THEN Second(p, b) ELSE b IN Name(Ados(p, path))
Creating(p, path) ==
  LET Name(b) == IF Locate(b, cd[p]).err = "missing" THEN Second(p, b) ELSE b IN Name(Ados(p, path))

IsRoot == [at |-> <<>>, err |-> "root"]
NoLink(o) == IF o.err = "" /\ disk[o.at].kind = "link" THEN [o EXCEPT !.err = "link"] ELSE o
\* What __lock() asks AmigaDOS for, and __llock(), which follows no link.
Get(p, b, follow) == IF follow THEN Lock(b, cd[p]) ELSE NoLink(Object(b, cd[p]))
LockSecond(p, first, second, follow) ==
  IF first.err # "missing" \/ second.null THEN first
  ELSE IF second.name = <<>> THEN IsRoot
  ELSE LET Try(o) == IF o.err = "" THEN o ELSE first IN Try(Get(p, second.name, follow))
TryLock(p, b, follow) ==
  IF b = <<Colon>> THEN IsRoot
  ELSE LockSecond(p, Get(p, b, follow), check_root(b, cd[p]), follow)
__lock(p, path) == TryLock(p, Ados(p, path), TRUE)
__llock(p, path) == TryLock(p, Ados(p, path), FALSE)
\* What SetProtection(), SetOwner() and SetFileDate() change, if anything.
Settable(p, path) ==
  {o.at : o \in {x \in {Lock(Existing(p, path), cd[p])} : x.err = "" /\ Len(x.at) > 1}}

-----------------------------------------------------------------------------
(* The system calls.                                                       *)

NoFile == [is |-> FALSE]
Idle == <<"none">>
\* Climbs over the root of a volume after it has named something.
Climbs(from, text, strict) ==
  LET Climb(s, name) ==
        IF name = <<Dot, Dot>>
        THEN [s EXCEPT !.depth = IF @ = 0 THEN 0 ELSE @ - 1,
                       !.over = @ \/ ((s.named \/ strict) /\ s.depth < 2)]
        ELSE [s EXCEPT !.depth = @ + 1, !.named = TRUE]
      names == SelectSeq(Fold(LAMBDA cs, ch : IF ch = Slash THEN Append(cs, <<>>)
                                    ELSE Append(Front(cs), Append(Last(cs), ch)),
                                  << <<>> >>, text),
                         LAMBDA name : name \notin {<<>>, <<Dot>>})
      start == [depth |-> IF text[1] = Slash THEN 0 ELSE from, named |-> FALSE,
                over |-> strict /\ names = <<>> /\ text[1] = Slash]
  IN  Fold(Climb, start, names).over
Over(p, path) == Climbs(IF is_root[p] THEN 0 ELSE Len(cd[p]), path, FALSE)
NameOps == {"chdir", "mkdir", "symlink", "readlink", "unlink", "rmdir", "rename", "stat",
            "lstat", "chmod", "chown", "utimes", "open"}
\* Calls that are known to go wrong, under the name of what is wrong.
Flawed(p, c) ==
  \/ /\ ~Flaw("over") /\ c[1] \in NameOps
     /\ Over(p, c[2]) \/ (c[1] = "rename" /\ Over(p, c[3]))
  \* chdir("/") keeps the lock on the directory it leaves
  \/ /\ ~Flaw("held") /\ c[1] \in {"unlink", "rmdir", "rename"}
     /\ \E q \in Procs : is_root[q] /\ \E x \in Range(Tail(c)) : Object(Existing(p, x), cd[p]).at = cd[q]
  \* the text of a link gets no second name, nor does a name given to
  \* symlink(); __llock() forgets that the second name led to a link
  \/ /\ ~Flaw("linktext") /\ c[1] = "symlink"
     /\ Climbs(Len(Locate(Ados(p, c[2]), cd[p]).at), c[3], TRUE)
  \/ /\ ~Flaw("linkname") /\ c[1] \in {"symlink", "readlink", "lstat", "unlink"}
     /\ Second(p, Ados(p, c[2])) # Ados(p, c[2])
  \* rmdir() of a link to a directory removes the link
  \/ /\ ~Flaw("linkdir") /\ c[1] = "rmdir"
     /\ LET o == Object(Existing(p, c[2]), cd[p]) IN o.err = "" /\ disk[o.at].kind = "link"
  \* rename() deletes what is in the way without a look at what it is, or
  \* whether the directory it moves is above it; others see it missing
  \/ /\ c[1] = "rename"
     /\ LET o == Object(Existing(p, c[2]), cd[p])  d == Object(Existing(p, c[3]), cd[p])
        IN  /\ o.err = "" /\ d.err = ""
            /\ \/ ~Flaw("types") /\ (disk[o.at].kind = "dir") # (disk[d.at].kind = "dir")
               \/ ~Flaw("itself") /\ IsPrefix(o.at, d.at)
  \/ ~Flaw("gap") /\ \E q \in Procs : pc[q].at # "run"
  \* the open file is known by the name it was opened by
  \/ /\ ~Flaw("spelling") /\ f.is /\ c[1] \in {"unlink", "chmod"} /\ c[2] # f.name
     /\ Object(Existing(p, c[2]), cd[p]).at = f.place
  \/ ~Flaw("moved") /\ f.is /\ c[1] = "chdir" /\ f.name[1] # Slash
Call(p, c) == pc[p].at = "run" /\ call = Idle /\ call' = c
Fail == res' = <<"fail">> /\ UNCHANGED <<disk, cd, is_root, f, pc>>
Disk(d) == res' = <<"ok">> /\ disk' = d /\ UNCHANGED <<cd, is_root, f, pc>>
Tell(r) == res' = r /\ UNCHANGED <<disk, cd, is_root, f, pc>>
With(d, place, node) ==
  [q \in DOMAIN d \cup {place} |-> IF q = place THEN node ELSE d[q]]
Without(d, place) == [q \in DOMAIN d \ {place} |-> d[q]]

New(kind) == [kind |-> kind, prot |-> {}, owner |-> 0, date |-> DateStamp(0), target |-> <<>>]

chdir(p, path) ==
  \E l \in {__lock(p, path)} :
  IF l.err = "root"
  THEN /\ is_root' = [is_root EXCEPT ![p] = TRUE] /\ res' = <<"ok">>
       /\ UNCHANGED <<disk, cd, f, pc>>
  ELSE IF l.err = "" /\ disk[l.at].kind = "dir"
  THEN /\ is_root' = [is_root EXCEPT ![p] = FALSE] /\ cd' = [cd EXCEPT ![p] = l.at]
       /\ res' = <<"ok">> /\ UNCHANGED <<disk, f, pc>>
  ELSE Fail

\* NameFromLock() gives "vol:dir/dir"; the colon becomes a slash.
getwd(p) ==
  Tell(<<"is", IF is_root[p] THEN <<Slash>>
       ELSE <<Slash>> \o cd[p][1] \o <<Slash>>
              \o Fold(LAMBDA s, n : IF s = <<>> THEN n ELSE s \o <<Slash>> \o n,
                          <<>>, Tail(cd[p]))>>)

chmodOf(d, place, mode) == [d EXCEPT ![place].prot = Protection(mode)]
chmod(p, path, mode) ==
  LET marked == IF f.is /\ f.name = path THEN [f EXCEPT !.mode = mode, !.dirty = TRUE] ELSE f IN
  IF Settable(p, path) = {} THEN Fail
  ELSE /\ disk' = chmodOf(disk, CHOOSE x \in Settable(p, path) : TRUE, mode)
       /\ f' = marked /\ res' = <<"ok">> /\ UNCHANGED <<cd, is_root, pc>>

mkdir(p, path, mode) ==
  LET s == Locate(Creating(p, path), cd[p])
      place == PlaceOf(s)
  IN  IF s.err # "" \/ place \in DOMAIN disk THEN Fail
      ELSE Disk(With(disk, place, [New("dir") EXCEPT !.prot = Protection(mode \ Umask),
                                                     !.owner = unix2amigaid(0)]))

symlink(p, path, text) ==
  LET s == Locate(Ados(p, path), cd[p])
      place == PlaceOf(s)
  IN  IF s.err # "" \/ place \in DOMAIN disk THEN Fail
      ELSE Disk(With(disk, place, [New("link") EXCEPT !.target = u2a(text)]))

readlink(p, path) ==
  LET o == Object(Ados(p, path), cd[p])
      text == a2u(disk[o.at].target)
  IN  IF __llock(p, path).err # "link" \/ o.err # "" THEN Fail
      ELSE Tell(<<"is", IF IsPrefix(<<Dot, Slash>>, text) THEN SubSeq(text, 3, Len(text)) ELSE text>>)

\* A file that is protected from deletion is unprotected first.
unlink(p, path) ==
  \E o \in {Object(Existing(p, path), cd[p])} :
  IF f.is /\ f.name = path
  THEN f' = [f EXCEPT !.unlinked = TRUE] /\ res' = <<"ok">> /\ UNCHANGED <<disk, cd, is_root, pc>>
  ELSE IF o.err = "" /\ Deletable(o.at) THEN Disk(Without(disk, o.at)) ELSE Fail

rmdir(p, path) ==
  \E l \in {__lock(p, path)} :
  IF l.err = "root" \/ (l.err = "" /\ disk[l.at].kind = "dir") THEN unlink(p, path) ELSE Fail

stat(p, path) ==
  \E l \in {__lock(p, path)} :
  Tell(IF l.err = "root" \/ (l.err = "" /\ Len(l.at) = 1) THEN <<"ok">>
       ELSE IF l.err = "" THEN <<"is", Stat(disk[l.at])>> ELSE <<"fail">>)
lstat(p, path) ==
  \E l \in {__llock(p, path)} :
  Tell(IF l.err \in {"root", "link"} \/ (l.err = "" /\ Len(l.at) = 1) THEN <<"ok">>
       ELSE IF l.err = "" THEN <<"is", Stat(disk[l.at])>> ELSE <<"fail">>)

utimes(p, path, time) ==
  \E S \in {Settable(p, path)} :
  IF S = {} THEN Fail ELSE Disk([disk EXCEPT ![CHOOSE x \in S : TRUE].date = DateStamp(time)])

All == {x[1] : x \in Pairs} \ {"ISTXT", "ISUID", "ISGID"}
chown(p, path, uid) ==
  \E l \in {__llock(p, path)}, S \in {Settable(p, path)} :
  LET mode == IF l.err = "" THEN fill_stat_mode(disk[l.at]) ELSE All
      kept == mode \ {"ISUID", "ISGID"}
      place == CHOOSE x \in S : TRUE
      change == mode \cap {"IRUSR", "IWUSR"} # {}
      d == IF change THEN chmodOf(disk, place, kept) ELSE disk
  IN  IF l.err \notin {"", "link"} \/ S = {} THEN Fail
      ELSE /\ disk' = [d EXCEPT ![place].owner = unix2amigaid(uid)] /\ res' = <<"ok">>
           /\ f' = IF change /\ f.is /\ f.name = path THEN [f EXCEPT !.mode = kept, !.dirty = TRUE] ELSE f
           /\ UNCHANGED <<cd, is_root, pc>>

\* Rename() of AmigaDOS: what it does, and why it does not.
RenameErrorOf(o, s) ==
  LET place == PlaceOf(s)
  IN  IF "missing" \in {o.err, s.err} THEN "missing"
      ELSE IF o.err # "" \/ s.err # "" \/ Len(o.at) = 1 \/ Len(place) = 1 THEN "wrong"
      ELSE IF o.at[1] # place[1] THEN "device"
      ELSE IF o.at = place THEN ""
      ELSE IF place \in DOMAIN disk THEN "exists"
      ELSE IF IsPrefix(o.at, place) THEN "inuse" ELSE ""
RenameError(p, from, to) == RenameErrorOf(Object(from, cd[p]), Locate(to, cd[p]))
Relocated(place, from, to) ==
  IF IsPrefix(from, place) THEN to \o SubSeq(place, Len(from) + 1, Len(place)) ELSE place
Rename(p, from, to) ==
  \E src \in {Object(from, cd[p]).at}, dst \in {PlaceOf(Locate(to, cd[p]))} :
  /\ disk' = [q \in {Relocated(x, src, dst) : x \in DOMAIN disk} |->
                disk[CHOOSE x \in DOMAIN disk : Relocated(x, src, dst) = q]]
  /\ cd' = [q \in Procs |-> Relocated(cd[q], src, dst)]
  /\ res' = <<"ok">> /\ UNCHANGED <<is_root, f>>

Run == [at |-> "run"]
rename(p, path, path2) ==
  \E b1 \in {Ados(p, path)}, b2 \in {Ados(p, path2)} :
  \E again \in {RenameError(p, b1, b2) = "missing"} :
  \E from \in {IF again THEN Second(p, b1) ELSE b1}, to \in {IF again THEN Second(p, b2) ELSE b2} :
  \E err \in {RenameError(p, from, to)} :
     IF err = "" THEN Rename(p, from, to) /\ UNCHANGED pc
     ELSE IF err # "exists" THEN Fail
     ELSE /\ pc' = [pc EXCEPT ![p] = [at |-> "delete", from |-> from, to |-> to, call |-> call']]
          /\ res' = <<"going">> /\ UNCHANGED <<disk, cd, is_root, f>>
renameDelete(p) ==
  /\ pc[p].at = "delete" /\ call' = pc[p].call
  /\ \E o \in {Object(pc[p].to, cd[p])} :
     IF o.err = "" /\ Deletable(o.at)
     THEN /\ disk' = Without(disk, o.at)
          /\ pc' = [pc EXCEPT ![p] = [@ EXCEPT !.at = "again"] @@ [node |-> disk[o.at], place |-> o.at]]
          /\ res' = <<"going">> /\ UNCHANGED <<cd, is_root, f>>
     ELSE /\ pc' = [pc EXCEPT ![p] = Run] /\ res' = <<"fail">> /\ UNCHANGED <<disk, cd, is_root, f>>
renameAgain(p) ==
  /\ pc[p].at = "again" /\ call' = pc[p].call /\ pc' = [pc EXCEPT ![p] = Run]
  /\ IF RenameError(p, pc[p].from, pc[p].to) = "" THEN Rename(p, pc[p].from, pc[p].to)
     ELSE res' = <<"fail">> /\ UNCHANGED <<disk, cd, is_root, f>>

\* open(O_RDWR | O_CREAT) of a plain file, with O_EXCL or without: the mode
\* and the owner of a new one are set when it is closed.
open(p, path, perms, excl) ==
  \E l \in {__lock(p, path)}, s \in {Locate(Creating(p, path), cd[p])} :
  LET place == PlaceOf(s)
      opened(at, dirty) == [is |-> TRUE, by |-> p, name |-> path, place |-> at,
                            mode |-> perms \ Umask, dirty |-> dirty, new |-> dirty,
                            unlinked |-> FALSE]
  IN
  /\ ~f.is
  /\ IF excl /\ l.err = "" THEN Fail
     ELSE IF l.err = "" /\ disk[l.at].kind = "file"
     THEN /\ f' = opened(l.at, FALSE) /\ res' = <<"ok">> /\ UNCHANGED <<disk, cd, is_root, pc>>
     ELSE IF l.err = "missing" /\ s.err = "" /\ place \notin DOMAIN disk
     THEN /\ f' = opened(place, TRUE) /\ disk' = With(disk, place, New("file")) /\ res' = <<"ok">>
          /\ UNCHANGED <<cd, is_root, pc>>
     ELSE Fail
fchmod(p, mode) ==
  /\ f.is /\ f.by = p
  /\ f' = [f EXCEPT !.mode = mode, !.dirty = TRUE] /\ res' = <<"ok">> /\ UNCHANGED <<disk, cd, is_root, pc>>
\* AmigaDOS deletes no file and sets no mode while it is open, so close()
\* does both, by name.
Closed(d, place, file) ==
  LET e == chmodOf(d, place, file.mode) IN
  IF ~file.new THEN e
  ELSE [(IF fill_stat_mode(e[place]) \cap {"IRUSR", "IWUSR"} = {} THEN e
         ELSE chmodOf(e, place, fill_stat_mode(e[place]) \ {"ISUID", "ISGID"}))
        EXCEPT ![place].owner = unix2amigaid(0)]
close(p) ==
  /\ f.is /\ f.by = p /\ f' = NoFile /\ res' = <<"ok">> /\ UNCHANGED <<cd, is_root, pc>>
  /\ IF f.unlinked
     THEN \E gone \in {Object(Existing(p, f.name), cd[p])} :
          LET free == Len(gone.at) > 1 /\ \A q \in DOMAIN disk : ~(IsPrefix(gone.at, q) /\ q # gone.at)
          IN  disk' = IF gone.err = "" /\ free THEN Without(disk, gone.at) ELSE disk
     ELSE \E S \in {Settable(p, f.name)} :
          disk' = IF f.dirty /\ S # {} THEN Closed(disk, CHOOSE x \in S : TRUE, f) ELSE disk

Init ==
  /\ use \in DOMAIN Uses /\ disk = Uses[use].disk /\ cd = [p \in Procs |-> CHOOSE v \in DOMAIN disk : Len(v) = 1]
  /\ is_root = [p \in Procs |-> FALSE] /\ f = NoFile /\ pc = [p \in Procs |-> Run]
  /\ call = Idle /\ res = <<"ok">>

SystemCall(p, c) ==
  /\ Call(p, c)
  /\ c[1] \in {"mkdir", "symlink", "open"} => Cardinality(DOMAIN disk) < MaxNodes
  /\ c[1] \in {"rename", "chown"} => ~f.is
  /\ \/ c[1] = "chdir" /\ chdir(p, c[2])
     \/ c[1] = "getwd" /\ getwd(p)
     \/ c[1] = "mkdir" /\ mkdir(p, c[2], c[3])
     \/ c[1] = "symlink" /\ symlink(p, c[2], c[3])
     \/ c[1] = "readlink" /\ readlink(p, c[2])
     \/ c[1] = "unlink" /\ unlink(p, c[2])
     \/ c[1] = "rmdir" /\ rmdir(p, c[2])
     \/ c[1] = "rename" /\ rename(p, c[2], c[3])
     \/ c[1] = "stat" /\ stat(p, c[2])
     \/ c[1] = "lstat" /\ lstat(p, c[2])
     \/ c[1] = "chmod" /\ chmod(p, c[2], c[3])
     \/ c[1] = "chown" /\ chown(p, c[2], c[3])
     \/ c[1] = "utimes" /\ utimes(p, c[2], c[3])
     \/ c[1] = "open" /\ open(p, c[2], c[3], c[4])
     \/ c[1] = "fchmod" /\ fchmod(p, c[3])
     \/ c[1] = "close" /\ close(p)
\* The program has seen the result.
Return == /\ call # Idle /\ call' = Idle /\ res' = <<"ok">>
          /\ UNCHANGED <<disk, cd, is_root, f, pc>>
Next == /\ UNCHANGED use
        /\ \/ Return
           \/ \E p \in Procs : \/ \E c \in Uses[use].calls : ~Flawed(p, c) /\ SystemCall(p, c)
                               \/ call = Idle /\ (renameDelete(p) \/ renameAgain(p))
Spec == Init /\ [][Next]_vars

-----------------------------------------------------------------------------
UnixText(target) ==
  LET text == a2u(target)
  IN  IF IsPrefix(<<Dot, Slash>>, text) THEN SubSeq(text, 3, Len(text)) ELSE text
UnixNode(node) == [kind |-> node.kind, mode |-> Permissions(node),
                   owner |-> amiga2unixid(node.owner), time |-> st_mtime(node.date),
                   text |-> UnixText(node.target)]
\* What rename() has deleted on its way counts as there.
Deleted == {p \in Procs : pc[p].at = "again"}
Whole(q) == IF q = <<>> THEN New("dir")
            ELSE IF q \in DOMAIN disk THEN disk[q]
            ELSE (CHOOSE x \in {pc[p] : p \in Deleted} : x.place = q).node
UTree == [q \in DOMAIN disk \cup {<<>>} \cup {pc[p].place : p \in Deleted} |->
           CHOOSE u \in {UnixNode(n) : n \in {Whole(q)}} : TRUE]
UFile == IF ~f.is THEN NoFile
         ELSE [is |-> TRUE, place |-> f.place, unlinked |-> f.unlinked, new |-> f.new,
               mode |-> IF f.dirty THEN f.mode ELSE Permissions(disk[f.place])]
Unix == INSTANCE UnixTree WITH
          tree <- UTree, cwd <- [p \in Procs |-> IF is_root[p] THEN <<>> ELSE cd[p]],
          file <- UFile, call <- IF res = <<"going">> THEN Idle ELSE call,
          res <- IF res = <<"going">> THEN <<"ok">> ELSE res

\* The calls on names do what Unix promises, although AmigaDOS has no root
\* above its volumes and writes the parent as a slash: paths with "..", "."
\* and repeated slashes lead where Unix says, from "/" too, and modes,
\* owners, dates and link texts come back as they were given.
ImplementsUnix == Unix!Spec

\* While rename() replaces a file, either the old or the new one is there
\* under the name `to`, as rename(2) guarantees.
ToAlwaysExists == \A p \in Procs : pc[p].at = "again" => pc[p].place \in DOMAIN disk
=============================================================================
