------------------------------ MODULE UnixTree ------------------------------
(***************************************************************************)
(* What the system calls on names promise: one tree of files whose root is *)
(* "/", and for each process a place in it.  A place is the sequence of    *)
(* names that leads to it from the root, a path a sequence of characters.  *)
(* A call takes effect or fails; it never does something in between.       *)
(***************************************************************************)
EXTENDS Integers, SequencesExt, FiniteSets

CONSTANTS Procs, Umask

VARIABLES tree,       \* the places that exist, and what is there
          cwd,        \* the place of each process
          file,       \* the file it has open
          call, res   \* its last call, and what that returned

vars == <<tree, cwd, file, call, res>>

NoFile == [is |-> FALSE]
Idle == <<"none">>
\* FoldLeft of SequencesExt in a form that TLC evaluates in linear time.
Fold(Op(_, _), base, s) ==
  LET r[i \in 0..Len(s)] ==
        IF i = 0 THEN base ELSE CHOOSE v \in {Op(x, s[i]) : x \in {r[i - 1]}} : TRUE
  IN  r[Len(s)]
Slash == "/"
Dot == "."

Parent(place) == IF place = <<>> THEN <<>> ELSE Front(place)
Children(t, place) == {q \in DOMAIN t : q # <<>> /\ Front(q) = place}

\* The names between the slashes of a path.
Components(path) ==
  LET Step(cs, c) == IF c = Slash THEN Append(cs, <<>>)
                     ELSE Append(Front(cs), Append(Last(cs), c))
  IN  SelectSeq(Fold(Step, << <<>> >>, path),
                LAMBDA name : name \notin {<<>>, <<Dot>>})

IsDir(t, place) == place \in DOMAIN t /\ t[place].kind = "dir"
\* One name further; Nowhere when there is nothing, or no directory to look in.
Nowhere == << <<>> >>
Enter(t, place, name) ==
  IF ~IsDir(t, place) THEN Nowhere
  ELSE IF name = <<Dot, Dot>> THEN Parent(place)
  ELSE Append(place, name)
Walk(t, from, path) ==
  LET start == IF path # <<>> /\ path[1] = Slash THEN <<>> ELSE from
  IN  CHOOSE w \in {Fold(LAMBDA place, name : Enter(x, place, name), start, names) :
                      x \in {t}, names \in {Components(path)}} : TRUE
\* A link that a path ends in is followed once: links to links are not used.
Follow(t, place) ==
  IF place \in DOMAIN t /\ t[place].kind = "link"
  THEN Walk(t, Parent(place), t[place].text) ELSE place
Normal(text) ==
  LET names == Components(text)
      joined == Fold(LAMBDA s, n : IF s = <<>> THEN n ELSE s \o <<Slash>> \o n,
                         <<>>, names)
  IN  IF text[1] = Slash THEN <<Slash>> \o joined
      ELSE IF names = <<>> THEN <<Dot>> ELSE joined

Without(t, place) == [q \in DOMAIN t \ {place} |-> t[q]]
Removable(t, place) ==
  /\ place \in DOMAIN t /\ Len(place) > 1 /\ Children(t, place) = {}
  /\ \A p \in Procs : cwd[p] # place
\* Everything at or below from is found at or below to.
Moved(t, from, to) ==
  LET Rest(q, at) == SubSeq(q, Len(at) + 1, Len(q))
      moving == {q \in DOMAIN t : IsPrefix(from, q)}
      kept == DOMAIN t \ (moving \cup {to})
  IN  [q \in kept \cup {to \o Rest(m, from) : m \in moving} |->
        IF q \in kept THEN t[q] ELSE t[from \o Rest(q, to)]]
Fresh(place) == place \notin DOMAIN tree /\ Len(place) > 1 /\ IsDir(tree, Parent(place))
\* A directory that may be read may be searched.
Shown(node) ==
  LET search == {<<"IRUSR", "IXUSR">>, <<"IRGRP", "IXGRP">>, <<"IROTH", "IXOTH">>}
  IN  [kind |-> node.kind, owner |-> node.owner, time |-> node.time,
       mode |-> IF node.kind = "dir"
                THEN node.mode \cup {b[2] : b \in {x \in search : x[1] \in node.mode}}
                ELSE node.mode]

Fails == res' = <<"fail">> /\ UNCHANGED <<tree, cwd, file>>
Done(t) == res' = <<"ok">> /\ tree' = t /\ UNCHANGED <<cwd, file>>
Tells(r) == res' = r /\ UNCHANGED <<tree, cwd, file>>
Makes(place, kind) ==
  /\ DOMAIN tree' = DOMAIN tree \cup {place}
  /\ \A q \in DOMAIN tree : tree'[q] = tree[q]
  /\ tree'[place].kind = kind /\ res' = <<"ok">> /\ UNCHANGED cwd

Init == /\ \A p \in Procs : cwd[p] \in DOMAIN tree
        /\ file = NoFile /\ call = Idle /\ res = <<"ok">>

\* On a name that leads to place, to found when a link is followed.
OnName(p, op, place, found) ==
  \/ op = "chdir" /\ IF IsDir(tree, found)
                     THEN /\ cwd' = [cwd EXCEPT ![p] = found] /\ res' = <<"ok">>
                          /\ UNCHANGED <<tree, file>>
                     ELSE Fails
  \/ op = "getwd" /\ Walk(tree, cwd[p], res'[2]) = cwd[p] /\ UNCHANGED <<tree, cwd, file>>
  \/ op = "mkdir" /\ IF Fresh(place)
                     THEN Makes(place, "dir") /\ tree'[place].mode = call'[3] \ Umask /\ UNCHANGED file
                     ELSE Fails
  \/ op = "symlink" /\ IF Fresh(place)
                       THEN Makes(place, "link") /\ tree'[place].text = Normal(call'[3]) /\ UNCHANGED file
                       ELSE Fails
  \/ op = "readlink" /\ IF place \in DOMAIN tree /\ tree[place].kind = "link"
                        THEN Tells(<<"is", tree[place].text>>) ELSE Fails
  \* an empty directory may be unlinked; a file that is open goes when it is closed
  \/ op \in {"unlink", "rmdir"}
     /\ IF ~(Removable(tree, place) /\ (op = "rmdir" => tree[place].kind = "dir")) THEN Fails
        ELSE IF file.is /\ file.place = place
        THEN file' = [file EXCEPT !.unlinked = TRUE] /\ res' = <<"ok">> /\ UNCHANGED <<tree, cwd>>
        ELSE Done(Without(tree, place))
  \/ op = "stat" /\ Tells(IF found \notin DOMAIN tree THEN <<"fail">>
                          ELSE IF Len(found) < 2 THEN <<"ok">> ELSE <<"is", Shown(tree[found])>>)
  \/ op = "lstat" /\ Tells(IF place \notin DOMAIN tree THEN <<"fail">>
                           ELSE IF Len(place) < 2 \/ tree[place].kind = "link" THEN <<"ok">>
                           ELSE <<"is", Shown(tree[place])>>)
  \/ op = "utimes" /\ IF found \in DOMAIN tree /\ Len(found) > 1
                      THEN Done([tree EXCEPT ![found].time = call'[3]]) ELSE Fails
  \/ op = "chown" /\ IF found \in DOMAIN tree /\ Len(found) > 1
                     THEN Done([tree EXCEPT ![found].owner = call'[3],
                                            ![found].mode = @ \ {"ISUID", "ISGID"}])
                     ELSE Fails
  \/ op = "chmod" /\ IF found \in DOMAIN tree /\ Len(found) > 1
                     THEN /\ tree' = [tree EXCEPT ![found].mode = call'[3]] /\ res' = <<"ok">>
                          /\ file' = IF file.is /\ file.place = found
                                     THEN [file EXCEPT !.mode = call'[3]] ELSE file
                          /\ UNCHANGED cwd
                     ELSE Fails
  \* the mode and the owner of a new file are there once it is closed
  \/ op = "open"
     /\ IF found \in DOMAIN tree
        THEN IF tree[found].kind # "file" \/ call'[4] THEN Fails
             ELSE /\ file' = [is |-> TRUE, place |-> found, mode |-> tree[found].mode,
                             new |-> FALSE, unlinked |-> FALSE]
                  /\ res' = <<"ok">> /\ UNCHANGED <<tree, cwd>>
        ELSE IF Fresh(place)
        THEN /\ Makes(place, "file")
             /\ file' = [is |-> TRUE, place |-> place, mode |-> call'[3] \ Umask,
                        new |-> TRUE, unlinked |-> FALSE]
        ELSE Fails

rename(place, to) ==
  IF /\ place \in DOMAIN tree /\ Len(place) > 1 /\ Len(to) > 1
     /\ to[1] = place[1] /\ (IsPrefix(place, to) => place = to)
     /\ IF to \in DOMAIN tree
        THEN /\ place # to => Removable(tree, to)
             /\ tree[place].kind = "dir" <=> tree[to].kind = "dir"
        ELSE IsDir(tree, Parent(to))
  THEN /\ res' = <<"ok">> /\ UNCHANGED file
       /\ tree' = IF place = to THEN tree ELSE Moved(tree, place, to)
       /\ cwd' = [q \in Procs |-> IF IsPrefix(place, cwd[q])
                    THEN to \o SubSeq(cwd[q], Len(place) + 1, Len(cwd[q])) ELSE cwd[q]]
  ELSE Fails

fchmod == file.is /\ file' = [file EXCEPT !.mode = call'[3]] /\ res' = <<"ok">> /\ UNCHANGED <<tree, cwd>>
close ==
  /\ file.is /\ file' = NoFile /\ res' = <<"ok">> /\ UNCHANGED cwd
  /\ tree' = IF file.unlinked THEN Without(tree, file.place)
             ELSE [tree EXCEPT ![file.place].mode = file.mode,
                               ![file.place].owner = IF file.new THEN 0 ELSE @]

Do(p) ==
  \/ \E place \in {Walk(tree, cwd[p], call'[2])} : \E found \in {Follow(tree, place)} :
       OnName(p, call'[1], place, found)
  \/ /\ call'[1] = "rename"
     /\ \E place \in {Walk(tree, cwd[p], call'[2])}, to \in {Walk(tree, cwd[p], call'[3])} :
          rename(place, to)
  \/ call'[1] = "fchmod" /\ fchmod
  \/ call'[1] = "close" /\ close

Next == \/ call = Idle /\ call' # Idle /\ \E p \in Procs : Do(p)
        \/ call # Idle /\ call' = Idle /\ res' = <<"ok">> /\ UNCHANGED <<tree, cwd, file>>
Spec == Init /\ [][Next]_vars
=============================================================================
