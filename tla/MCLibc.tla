------------------------------- MODULE MCLibc -------------------------------
(* Small instances of the parts of the C library that keep state of a process. *)
(* They share no state: only one of them moves in a behaviour, and instance    *)
(* says which.                                                                 *)
(*   "stdio"   a program uses a stream in one of four ways                     *)
(*   "table"   a program opens and closes streams and children, and exits      *)
(*   "tree"    a process uses names of files in one of five ways               *)
(*   "fts"     a program walks through a file hierarchy                        *)
EXTENDS Integers, Sequences, TLC

CONSTANTS p1, Nil, Junk

VARIABLES fp, content, koff, stream, sought, iocall, iores
VARIABLES slots, fds, opens, raw, pids, kids, atexit, ran, state
VARIABLES disk, cd, is_root, f, pc, call, res, tree
VARIABLES walk, s, ret, seen, asked
VARIABLE instance

ioVars == <<fp, content, koff, stream, sought, iocall, iores>>
tableVars == <<slots, fds, opens, raw, pids, kids, atexit, ran, state>>
treeVars == <<disk, cd, is_root, f, pc, call, res, tree>>
walkVars == <<walk, s, ret, seen, asked>>

-----------------------------------------------------------------------------
(* stdio: the kernel reads and writes all that it is asked for, or one byte at *)
(* a time, or fails at once or later; and there may be no memory for buffers.  *)

Good == [chunk |-> 9, fuse |-> -1, mem |-> TRUE]
Short == [Good EXCEPT !.chunk = 1]
NoMem == [Good EXCEPT !.mem = FALSE]
Fail == [Good EXCEPT !.fuse = 0]
FailLater == [Short EXCEPT !.fuse = 1]

StreamUses ==
  {[mode |-> "r", tty |-> FALSE, file |-> <<1, 0, 1>>, chars |-> {1},
    kernels |-> {Short, NoMem}, lengths |-> {3}, writes |-> {<<1>>},
    unget |-> 4, buffering |-> {"NBF"}],
   [mode |-> "r+", tty |-> FALSE, file |-> <<1>>, chars |-> {0},
    kernels |-> {Good, Fail}, lengths |-> {2}, writes |-> {<<0, 1>>},
    unget |-> 1, buffering |-> {}],
   [mode |-> "w", tty |-> TRUE, file |-> <<>>, chars |-> {0},
    kernels |-> {Good, Short, FailLater, NoMem}, lengths |-> {},
    writes |-> {<<0, 1>>, <<1, 0, 1>>}, unget |-> 0, buffering |-> {"FBF", "LBF", "NBF"}],
   [mode |-> "a+", tty |-> FALSE, file |-> <<1>>, chars |-> {0},
    kernels |-> {FailLater}, lengths |-> {2}, writes |-> {<<1, 1, 1>>},
    unget |-> 0, buffering |-> {}]}

IO == INSTANCE Stdio WITH
  NL <- 0, Chars <- {0, 1}, BlkSize <- 2, BUFSIZ <- 4, UBUF <- 3, MaxFile <- 3,
  Lengths <- {2, 3}, Writes <- {<<1>>, <<0, 1>>, <<1, 0, 1>>, <<1, 1, 1>>},
  Offsets <- {-1, 1}, Uses <- StreamUses, Flaws <- {},
  file <- content, use <- stream, call <- iocall, res <- iores

Table == INSTANCE StreamTable WITH
  Fds <- 0 .. 2, FOPEN_MAX <- 1, NDYNAMIC <- 1, MaxSlots <- 3, MaxOpens <- 3,
  ATEXIT_SIZE <- 2, MaxAtexit <- 4, Flaws <- {}

-----------------------------------------------------------------------------
(* Names of files.  The use of the tree is a disk, and the calls of a process: *)
(*   1 paths with "..", "." and repeated slashes, from directories and "/"     *)
(*   2 symbolic links          3 rename()                                      *)
(*   4 modes, owners, dates    5 an open file that is changed and unlinked     *)

a == <<"a">>
b == <<"b">>
Places == {a, b, <<"/", "a", "/", "b">>, <<".", ".", "/", "b", "/", "a">>}
Paths == {<<".", ".">>, <<"/">>, <<"a", "/", "b">>, <<".", ".", "/", "a">>,
          <<".", ".", "/", ".", ".">>, <<"a", "/", ".", ".", "/", "b">>, <<".", ".", ".">>,
          <<"/", "/", ".", ".", "/", "b", "/">>, <<".", ".", "/", ".", ".", "/", "b">>}
LinkTexts == {b, <<".", "/", "a">>, <<".", ".">>, <<"/", "b", "/", "a">>,
              <<"a", "/", ".", ".", "/", "b", "/", "/">>}
Readable == {"IRUSR", "IWUSR"}

Tree(uses) == INSTANCE FileTree WITH
  Procs <- {p1}, Umask <- {}, MaxNodes <- 5, Flaws <- {}, Uses <- uses, use <- tree
Disk(dirs, file) ==
  [x \in dirs \cup {file} |-> Tree(<<>>)!New(IF x = file THEN "file" ELSE "dir")]

TreeUses ==
  <<[disk |-> Disk({<<a>>, <<b>>, <<a, a>>}, <<b, a>>),
     calls |-> {<<op, x>> : op \in {"chdir", "stat"}, x \in Paths}
         \cup {<<op, x>> : op \in {"unlink", "rmdir", "lstat"}, x \in {a, <<"a", "/", "a">>}}
         \cup {<<"mkdir", x, {"IRUSR"}>> : x \in {a, <<"b", "/">>}}
         \cup {<<"getwd", <<".">>>>}],
    [disk |-> Disk({<<a>>, <<b>>, <<a, a>>}, <<b, a>>),
     calls |-> {<<op, x>> : op \in {"chdir", "unlink", "stat", "lstat", "readlink"}, x \in Places}
         \cup {<<"symlink", x, t>> : x \in Places, t \in LinkTexts}],
    [disk |-> Disk({<<a>>, <<b>>, <<a, a>>}, <<a, b>>),
     calls |-> {<<"rename", x, y>> : x \in Places \cup {<<"/">>},
                                     y \in Places \cup {<<".">>, <<"a", "/", "/", "b">>}}
         \cup {<<"chdir", x>> : x \in {a, <<".", ".">>}}
         \cup {<<"mkdir", b, {}>>}],
    [disk |-> Disk({<<a>>, <<b>>}, <<a, b>>),
     calls |-> {<<"chmod", x, m>> : x \in Places,
                  m \in {Readable, Readable \cup {"ISUID", "IXOTH"},
                         Readable \cup {"IRGRP", "IWGRP", "IXUSR"}}}
         \cup {<<"chown", x, o>> : x \in Places, o \in {0, 65535, 65534, 5}}
         \cup {<<"utimes", b, t>> : t \in {0, 86399, 300000001}}
         \cup {<<op, x>> : op \in {"stat", "lstat"}, x \in Places}],
    [disk |-> Disk({<<a>>, <<b>>, <<a, a>>}, <<a, b>>),
     calls |-> {<<"open", x, m, e>> : x \in {b, <<"a", "/", "b">>},
                  m \in {{"IROTH"}, Readable \cup {"IXUSR"}}, e \in BOOLEAN}
         \cup {<<op, x>> : op \in {"unlink", "stat"}, x \in {b, <<"a", "/", "b">>, <<".", "/", "b">>}}
         \cup {<<"chmod", x, {"IWUSR"}>> : x \in {b, <<".", "/", "b">>}}
         \cup {<<"fchmod", <<".">>, {"IRUSR"}>>, <<"close", <<".">>>>,
               <<"chdir", a>>, <<"chdir", <<".", ".">>>>}]>>

-----------------------------------------------------------------------------
(* A hierarchy for fts: 1 the root, 2 where the walk is begun, 3 a directory   *)
(* with a file (4), a directory (5) on another device and, in some, a link     *)
(* (10) to the empty directory 8; in 5 a file (6), a link (7) to 3, and 8;     *)
(* next to 3 a link (9) to 5.                                                  *)

World(ents3) ==
  [root |-> 1, start |-> 2, shut |-> {}, closed |-> {}, space |-> 9,
   kind |-> <<"dir", "dir", "dir", "file", "dir", "file", "link", "dir", "link", "link">>,
   ents |-> <<<<<<10, 2>>>>, <<<<12, 9>>, <<11, 3>>>>, ents3, <<>>,
              <<<<30, 6>>, <<31, 7>>, <<32, 8>>>>, <<>>, <<>>, <<>>, <<>>, <<>>>>,
   target |-> <<Nil, Nil, Nil, Nil, Nil, Nil, 3, Nil, 5, 8>>,
   up |-> <<1, 1, 2, Nil, 3, Nil, Nil, 5, Nil, Nil>>,
   dev |-> <<1, 1, 1, 1, 2, 2, 2, 2, 1, 1>>]
WalkOf(world, argv, opts, compar, faults, calls) ==
  world @@ [argv |-> argv, opts |-> opts, compar |-> compar, faults |-> faults,
            calls |-> calls, instrs |-> {"SKIP", "FOLLOW", "AGAIN"},
            lists |-> {"ALL", "NAMEONLY"}]
Plain == World(<<<<21, 5>>, <<20, 4>>>>)
Links == World(<<<<21, 5>>, <<20, 4>>, <<22, 10>>, <<23, 4>>>>)
Below == <<<<11>>>>             \* a relative argument
Absolute == <<<<2, 10, 11, 21>>>>

WalkUses ==
  {WalkOf(Plain, <<<<11>>, <<12>>>>, {"PHYSICAL"}, FALSE, {}, 2),
   WalkOf(Plain, <<<<12>>, <<11>>>>, {"PHYSICAL", "COMFOLLOW"}, TRUE, {"mem", "open"}, 1),
   WalkOf(Plain, <<<<0>>>>, {"LOGICAL"}, FALSE, {"mem"}, 1),
   WalkOf(Plain, <<<<11>>, <<>>>>, {"PHYSICAL"}, FALSE, {}, 1),
   WalkOf(Links, Below, {"PHYSICAL", "COMFOLLOW"}, FALSE, {}, 2)}
  \cup {WalkOf([Plain EXCEPT !.shut = {8}], r, {"PHYSICAL", o}, FALSE, {}, 1) :
          r \in {Below, Absolute}, o \in {"XDEV", "SEEDOT", "NOCHDIR", "NOSTAT"}}
  \cup {WalkOf([Plain EXCEPT !.closed = {5}], r, {"PHYSICAL", o}, FALSE, {}, 1) :
          r \in {Below, Absolute}, o \in {"XDEV", "SEEDOT", "PHYSICAL"}}
  \cup {WalkOf([Plain EXCEPT !.space = 2], Below, {o}, FALSE, {}, 1) :
          o \in {"PHYSICAL", "LOGICAL"}}

Fts == INSTANCE Fts WITH Uses <- WalkUses, PathSlack <- 3, Flaws <- {}, use <- walk

-----------------------------------------------------------------------------
\* What does not move is 0.
IOIdle == /\ fp = 0 /\ content = 0 /\ koff = 0 /\ stream = 0 /\ sought = 0
          /\ iocall = 0 /\ iores = 0
TableIdle == /\ slots = 0 /\ fds = 0 /\ opens = 0 /\ raw = 0 /\ pids = 0 /\ kids = 0
             /\ atexit = 0 /\ ran = 0 /\ state = 0
TreeIdle == /\ disk = 0 /\ cd = 0 /\ is_root = 0 /\ f = 0 /\ pc = 0 /\ call = 0
            /\ res = 0 /\ tree = 0
WalkIdle == walk = 0 /\ s = 0 /\ ret = 0 /\ seen = 0 /\ asked = 0

MCInit ==
  /\ instance \in {"stdio", "table", "tree", "fts"}
  /\ IF instance = "stdio" THEN IO!Init ELSE IOIdle
  /\ IF instance = "table" THEN Table!Init ELSE TableIdle
  /\ IF instance = "tree" THEN Tree(TreeUses)!Init ELSE TreeIdle
  /\ IF instance = "fts" THEN Fts!Init ELSE WalkIdle

MCNext ==
  \/ /\ instance = "stdio" /\ IO!Next
     /\ UNCHANGED <<tableVars, treeVars, walkVars, instance>>
  \/ /\ instance = "table" /\ Table!Next
     /\ UNCHANGED <<ioVars, treeVars, walkVars, instance>>
  \/ /\ instance = "tree" /\ Tree(TreeUses)!Next
     /\ UNCHANGED <<ioVars, tableVars, walkVars, instance>>
  \/ /\ instance = "fts" /\ Fts!Next
     /\ UNCHANGED <<ioVars, tableVars, treeVars, instance>>

MCSpec == MCInit /\ [][MCNext]_<<ioVars, tableVars, treeVars, walkVars, instance>>

-----------------------------------------------------------------------------
(* Properties.                                                                 *)

\* The buffers of stdio do not show: whatever the sequence of calls, of short
\* reads and writes and of failures, the program sees a file and a position in it.
ImplementsStream ==
  /\ instance = "stdio" => IO!Stream!Init
  /\ [][instance = "stdio" => [IO!Stream!Next]_(IO!Stream!vars)]_ioVars

\* The FILEs, descriptors and children of a program belong together, and exit()
\* calls all functions, flushes all streams and leaves no FILE open.
StreamsAreHeld ==
  instance = "table" => Table!DescriptorsAreHeld /\ Table!ExitIsComplete

\* The calls on names do what Unix promises, although AmigaDOS has no root
\* above its volumes and writes the parent as a slash.
ImplementsUnix ==
  /\ instance = "tree" => Tree(TreeUses)!Unix!Init
  /\ [][instance = "tree" => [Tree(TreeUses)!Unix!Next]_(Tree(TreeUses)!Unix!vars)]_treeVars

\* fts_read() returns every file of the hierarchy once, with a path that leads to
\* it from the current directory, and fts_close() goes back to where it began.
WalkIsComplete ==
  instance = "fts" => Fts!AccessPathsWork /\ Fts!WalkIsComplete /\ Fts!HomeAgain
=============================================================================
