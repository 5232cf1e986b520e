------------------------------- MODULE Stdio --------------------------------
(***************************************************************************)
(* The streams of stdio/: one FILE over one open file.  fp holds the       *)
(* fields of struct __sFILE: the flags, the buffer _bf (buf; <<>> when     *)
(* _bf._base is NULL), _p as an offset in the buffer in use, _r, _w,       *)
(* _lbfsize, _offset, and the pushed-back bytes (_ub with _up and _ur).    *)
(* file and koff are the file and the offset the kernel keeps for it.      *)
(*                                                                         *)
(* Every operation is one step.  What the kernel does for it is drawn from *)
(* use.kernels: how many bytes one read() or write() moves at most (chunk),    *)
(* after how many of them one fails (fuse), and whether malloc() answers.  *)
(***************************************************************************)
EXTENDS Integers, Sequences, SequencesExt

CONSTANTS NL, Chars,      \* the newline; the bytes of files
          BlkSize,        \* st_blksize of the file, a power of two
          BUFSIZ,         \* the size of a buffer when there is no st_blksize
          UBUF,           \* sizeof(_ubuf)
          MaxFile,        \* bound: bytes of the file
          Lengths, Writes, Offsets,   \* what programs read, write, seek
          Uses,           \* how a program uses the stream: the mode it opens
                          \* the file with, the file, whether it is a terminal,
                          \* the bytes, lengths and sequences it
                          \* pushes back, reads and writes, how often it pushes
                          \* back, the buffering it asks for, the kernels
          Flaws           \* "mixed", "purged", "pushed": see where they are tested

VARIABLES fp, file, koff, use,
          sought,         \* nothing was read since the last fseek()
          call, res       \* the last call with its argument, what it returned

vars == <<fp, file, koff, use, sought, call, res>>

\* st: what an operation works on
st == [fp |-> fp, file |-> file, koff |-> koff, fuse |-> -1, ret |-> 0, got |-> <<>>]

Garbage == -2
Has(s, f) == f \in s.fp.flags
Raise(s, fs) == [s EXCEPT !.fp.flags = @ \cup fs]
Clear(s, fs) == [s EXCEPT !.fp.flags = @ \ fs]
Return(s, v) == [s EXCEPT !.ret = v]
HASUB(s) == s.fp.hasub
FREEUB(s) == [s EXCEPT !.fp.hasub = FALSE, !.fp.ub = <<>>]
Least(a, b) == IF a < b THEN a ELSE b
From(s, n) == SubSeq(s, n + 1, Len(s))
Overlay(s, at, bytes) == SubSeq(s, 1, at) \o bytes \o From(s, at + Len(bytes))
Appends == use.mode \in {"a", "a+"}

-----------------------------------------------------------------------------
(* The kernel, and the functions of stdio.c that call it *)

Burn(s) == [s EXCEPT !.fuse = @ - 1]

__sread(s, n, k) ==
  IF s.fuse = 0 THEN Return(Clear(Burn(s), {"OFF"}), -1)
  ELSE LET m == Least(Least(n, k.chunk), Len(s.file) - s.koff)
       IN  [Burn(s) EXCEPT !.ret = m, !.koff = @ + m, !.fp.off = @ + m,
                           !.got = SubSeq(s.file, s.koff + 1, s.koff + m)]

__swrite(s, bytes, k) ==
  IF s.fuse = 0 THEN Return(Clear(Burn(s), {"OFF"}), -1)
  ELSE LET m  == Least(Len(bytes), k.chunk)
           at == IF Appends THEN Len(s.file) ELSE s.koff
       IN  [Clear(Burn(s), {"OFF"}) EXCEPT !.ret = m, !.koff = at + m,
              !.file = Overlay(@, at, SubSeq(bytes, 1, m))]

\* lseek() to an offset outside the file fails here
__sseek(s, offset, whence) ==
  LET at == IF whence = "SET" THEN offset
            ELSE IF whence = "END" THEN Len(s.file) + offset ELSE s.koff + offset
  IN  IF at \notin 0..Len(s.file) THEN Return(Clear(s, {"OFF"}), -1)
      ELSE [Raise(s, {"OFF"}) EXCEPT !.koff = at, !.fp.off = at, !.ret = at]

-----------------------------------------------------------------------------
(* Buffers *)

Unbuffered(s) == [Raise(s, {"NBF"}) EXCEPT !.fp.buf = <<Garbage>>, !.fp.p = 0]

__swhatbuf(s) == [size |-> BlkSize, flags |-> IF use.tty THEN {"NPT"} ELSE {"OPT"}]

__smakebuf(s, k) ==
  IF Has(s, "NBF") \/ ~k.mem THEN Unbuffered(s)
  ELSE [Raise(s, __swhatbuf(s).flags \cup {"MBF"}
                 \cup (IF use.tty THEN {"LBF"} ELSE {}))
          EXCEPT !.fp.buf = [i \in 1..__swhatbuf(s).size |-> Garbage], !.fp.p = 0]

NeedBuffer(s, k) == IF s.fp.buf = <<>> THEN __smakebuf(s, k) ELSE s

\* What follows a call, given the stream as the call leaves it
Then(called, Rest(_)) == Rest(called)

RECURSIVE WriteOut(_, _, _)
WriteOut(s, bytes, k) ==
  IF bytes = <<>> THEN Return(s, 0)
  ELSE Then(__swrite(s, bytes, k), LAMBDA t :
       IF t.ret <= 0 THEN Return(Raise(t, {"ERR"}), -1) ELSE WriteOut(t, From(bytes, t.ret), k))

Room(s) == IF s.fp.flags \cap {"LBF", "NBF"} # {} THEN 0 ELSE Len(s.fp.buf)

\* a mutant: the part of a buffer that a short write() left is not written
__sflushOnce(s, k) ==
  IF ~Has(s, "WR") \/ s.fp.buf = <<>> THEN Return(s, 0)
  ELSE LET t == __swrite([s EXCEPT !.fp.p = 0, !.fp.w = Room(s)],
                         SubSeq(s.fp.buf, 1, s.fp.p), k)
       IN  IF s.fp.p = 0 THEN Return([s EXCEPT !.fp.w = Room(s)], 0)
           ELSE IF t.ret <= 0 THEN Return(Raise(t, {"ERR"}), -1) ELSE Return(t, 0)

__sflush(s, k) ==
  IF ~Has(s, "WR") \/ s.fp.buf = <<>> THEN Return(s, 0)
  ELSE WriteOut([s EXCEPT !.fp.p = 0, !.fp.w = Room(s)], SubSeq(s.fp.buf, 1, s.fp.p), k)

fflush(s, k) == IF s.fp.flags \cap {"WR", "RW"} = {} THEN Return(s, -1)
                ELSE __sflush(s, k)

StopWriting(s) == [Clear(s, {"WR"}) EXCEPT !.fp.w = 0, !.fp.lbf = 0]

\* The stream now reads: ret is -1 if it cannot, else 0
ToReading(s, k) ==
  IF Has(s, "RD") THEN Return(s, 0)
  ELSE IF ~Has(s, "RW") THEN Return(s, -1)
  ELSE IF ~Has(s, "WR") THEN Return(Raise(s, {"RD"}), 0)
  ELSE Then(__sflush(s, k), LAMBDA t :
       IF t.ret # 0 THEN Return(t, -1) ELSE Return(Raise(StopWriting(t), {"RD"}), 0))

Filled(t) ==
  IF t.ret > 0
  THEN Return([Clear(t, {"MOD"}) EXCEPT !.fp.r = t.ret, !.fp.buf = t.got \o From(@, t.ret)], 0)
  ELSE Return(Raise([Clear(t, {"MOD"}) EXCEPT !.fp.r = 0],
                    {IF t.ret = 0 THEN "EOF" ELSE "ERR"}), -1)
Fill(s0, k) ==
  Then(NeedBuffer(s0, k), LAMBDA s :
       Filled(__sread([s EXCEPT !.fp.p = 0], Len(s.fp.buf), k)))

__srefill(s0, k) ==
  LET s == [s0 EXCEPT !.fp.r = 0]
  IN  IF Has(s, "EOF") THEN Return(s, -1)
      ELSE Then(ToReading(s, k), LAMBDA t :
           IF t.ret # 0 THEN t
           ELSE IF ~(Has(s, "RD") /\ HASUB(s)) THEN Fill(t, k)
           ELSE IF s.fp.ur = 0 THEN Fill(FREEUB(s), k)
           ELSE Return([FREEUB(s) EXCEPT !.fp.r = s.fp.ur, !.fp.p = s.fp.up], 0))

__swsetup(s0, k) ==
  LET s == IF Has(s0, "WR") THEN s0
           ELSE IF ~Has(s0, "RD") THEN Raise(s0, {"WR"})
           ELSE [Raise(Clear(FREEUB(s0), {"RD", "EOF"}), {"WR"}) EXCEPT !.fp.r = 0, !.fp.p = 0]
      t == NeedBuffer(s, k)
  IN  IF ~Has(s0, "WR") /\ ~Has(s0, "RW") THEN Return(s0, -1)
      ELSE IF Has(t, "LBF") THEN Return([t EXCEPT !.fp.w = 0, !.fp.lbf = -Len(t.fp.buf)], 0)
      ELSE Return([t EXCEPT !.fp.w = Room(t)], 0)

\* cantwrite(): ret is -1 if the stream cannot be written
ToWriting(s, k) == IF Has(s, "WR") /\ s.fp.buf # <<>> THEN Return(s, 0)
                   ELSE __swsetup(s, k)

-----------------------------------------------------------------------------
(* Reading: got collects what the caller receives *)

Here(s) == IF HASUB(s) THEN s.fp.ub ELSE s.fp.buf      \* where _p points into
Ahead(s) == SubSeq(Here(s), s.fp.p + 1, s.fp.p + s.fp.r)
Consume(s, m) == [s EXCEPT !.fp.p = @ + m, !.fp.r = @ - m]
Newline(bytes) == IF NL \in Range(bytes) THEN SelectInSeq(bytes, LAMBDA c : c = NL) ELSE 0

RECURSIVE fread(_, _, _, _)
fread(s, resid, k, buf) ==
  IF resid <= s.fp.r
  THEN [Consume(s, resid) EXCEPT !.got = buf \o SubSeq(Ahead(s), 1, resid)]
  ELSE LET t == __srefill(Consume(s, s.fp.r), k)
           b == buf \o Ahead(s)
       IN  IF t.ret # 0 THEN [t EXCEPT !.got = b]
           ELSE fread(t, resid - s.fp.r, k, b)

RECURSIVE fgets(_, _, _, _)
fgets(s, n, k, buf) ==
  IF n = 0 THEN [s EXCEPT !.got = buf]
  ELSE Then(IF s.fp.r <= 0 THEN __srefill(s, k) ELSE Return(s, 0), LAMBDA t :
       LET seg == SubSeq(Ahead(t), 1, Least(n, t.fp.r))
           nl  == Newline(seg)
       IN  IF t.ret # 0 THEN [t EXCEPT !.got = buf]
           ELSE IF nl > 0 THEN [Consume(t, nl) EXCEPT !.got = buf \o SubSeq(seg, 1, nl)]
           ELSE fgets(Consume(t, Len(seg)), n - Len(seg), k, buf \o seg))

\* The loop of fgetln() for a line that is not all in the buffer
RECURSIVE LongLine(_, _, _)
LongLine(s, k, lb) ==
  LET b  == lb \o Ahead(s)
      t  == __srefill(Consume(s, s.fp.r), k)
      nl == Newline(Ahead(t))
  IN  IF t.ret # 0 THEN [t EXCEPT !.got = b]
      ELSE IF nl = 0 THEN LongLine(t, k, b)
      ELSE [Consume(t, nl) EXCEPT !.got = b \o SubSeq(Ahead(t), 1, nl)]

\* MOD marks a buffer whose text the caller of fgetln() may change
fgetln(s, k) ==
  LET t  == IF s.fp.r <= 0 THEN __srefill(s, k) ELSE Return(s, 0)
      nl == Newline(Ahead(t))
  IN  IF t.ret # 0 THEN [t EXCEPT !.got = <<>>]
      ELSE IF nl > 0 THEN [Raise(Consume(t, nl), {"MOD"}) EXCEPT !.got = SubSeq(Ahead(t), 1, nl)]
      ELSE IF k.mem THEN LongLine(t, k, <<>>) ELSE [t EXCEPT !.got = <<>>]

-----------------------------------------------------------------------------
(* Writing *)

Store(s, bytes) == [s EXCEPT !.fp.buf = Overlay(@, s.fp.p, bytes),
                             !.fp.p = @ + Len(bytes), !.fp.w = @ - Len(bytes)]

__swbuf(s0, c, k) ==
  LET s == ToWriting([s0 EXCEPT !.fp.w = s0.fp.lbf], k)
      t == IF s.fp.p >= Len(s.fp.buf) THEN fflush(s, k) ELSE s
      u == Store(t, <<c>>)
  IN  IF s.ret # 0 THEN s
      ELSE IF t.ret # 0 THEN t
      ELSE IF u.fp.p = Len(u.fp.buf) \/ (Has(u, "LBF") /\ c = NL) THEN fflush(u, k)
      ELSE Return(u, 0)

\* the macro putc()
putc(s0, c, k) ==
  LET s == [s0 EXCEPT !.fp.w = @ - 1]
  IN  IF s.fp.w >= 0 \/ (s.fp.w >= s.fp.lbf /\ c # NL)
      THEN Return([Store(s, <<c>>) EXCEPT !.fp.w = s.fp.w], 0)
      ELSE __swbuf(s, c, k)

\* One turn of the loops of __sfvwrite(); ret is how much of bytes went, or -1
Direct(s, bytes, n, k) == __swrite(s, SubSeq(bytes, 1, n), k)
FillAndFlush(s, bytes, n, k) ==
  LET t == fflush(Store(s, SubSeq(bytes, 1, n)), k) IN IF t.ret # 0 THEN t ELSE Return(t, n)
Turn(s, bytes, room, k) ==
  LET size == Len(s.fp.buf)
  IN  IF s.fp.p > 0 /\ Len(bytes) > room THEN FillAndFlush(s, bytes, room, k)
      ELSE IF Len(bytes) >= size THEN Direct(s, bytes, size, k)
      ELSE Return(Store(s, bytes), Len(bytes))

\* Line buffered: up to the newline, which is then flushed
LineTurn(s, bytes, k) ==
  LET nl   == Newline(bytes)
      part == IF nl > 0 THEN SubSeq(bytes, 1, nl) ELSE bytes
      t    == Turn(s, part, s.fp.w + Len(s.fp.buf), k)
      f    == fflush(t, k)
  IN  IF t.ret > 0 /\ t.ret = nl THEN IF f.ret # 0 THEN f ELSE Return(f, nl) ELSE t

RECURSIVE __sfvwrite(_, _, _)
__sfvwrite(s0, bytes, k) ==
  IF bytes = <<>> THEN Return(s0, 0)
  ELSE Then(ToWriting(s0, k), LAMBDA s :
       IF s.ret # 0 THEN s
       ELSE Then(IF Has(s, "NBF") THEN Direct(s, bytes, Least(Len(bytes), BUFSIZ), k)
                 ELSE IF Has(s, "LBF") THEN LineTurn(s, bytes, k)
                 ELSE Turn(s, bytes, s.fp.w, k), LAMBDA t :
            IF t.ret < 0 THEN Raise(t, {"ERR"}) ELSE __sfvwrite(t, From(bytes, t.ret), k)))

-----------------------------------------------------------------------------
(* Pushing back, seeking, telling *)

__submore(s) ==
  LET more == IF Len(s.fp.ub) = UBUF THEN BUFSIZ - UBUF ELSE Len(s.fp.ub)
  IN  [s EXCEPT !.fp.ub = [i \in 1..more |-> Garbage] \o @, !.fp.p = more]

PushUb(s, c) == Return([s EXCEPT !.fp.p = @ - 1, !.fp.r = @ + 1, !.fp.ub[s.fp.p] = c], c)

ungetc(s0, c, k) ==
  LET s == ToReading(s0, k)
      t == Clear(s, {"EOF"})
  IN  IF s.ret # 0 THEN s
      ELSE IF HASUB(s)
      THEN IF s.fp.r < Len(s.fp.ub) THEN PushUb(s, c)
           ELSE IF k.mem THEN PushUb(__submore(s), c) ELSE Return(s, -1)
      ELSE IF t.fp.p > 0 /\ t.fp.buf[t.fp.p] = c
      THEN Return([t EXCEPT !.fp.p = @ - 1, !.fp.r = @ + 1], c)
      ELSE Return([t EXCEPT !.fp.ur = t.fp.r, !.fp.up = t.fp.p, !.fp.hasub = TRUE,
                            !.fp.ub = [i \in 1..UBUF |-> IF i = UBUF THEN c ELSE Garbage],
                            !.fp.p = UBUF - 1, !.fp.r = 1], c)

\* The offset of the kernel, from _offset when that is known
Offset(s) == IF Has(s, "OFF") THEN Return(s, s.fp.off) ELSE __sseek(s, 0, "CUR")
Unread(s) == s.fp.r + (IF HASUB(s) THEN s.fp.ur ELSE 0)

\* ftell(); fseek() begins with it for SEEK_CUR
ftell(s0, k) ==
  Then(Offset(__sflush(s0, k)), LAMBDA s :
       IF Has(s, "RD") THEN Return(s, s.ret - Unread(s))
       ELSE IF Has(s, "WR") THEN Return(s, s.ret + s.fp.p) ELSE s)

DumbSeek(s0, offset, whence, k) ==
  LET s == __sflush(s0, k)
      t == __sseek(s, offset, whence)
  IN  IF s.ret # 0 THEN s
      ELSE IF t.ret = -1 THEN t
      ELSE Return([Clear(FREEUB(t), {"EOF"}) EXCEPT !.fp.p = 0, !.fp.r = 0], 0)

\* first: the offset in the file of the first of the n bytes of the buffer
InBuffer(s, target, first, n) == ~Has(s, "MOD") /\ target \in first..(first + n - 1)

\* The target is looked for in the buffer, then in its block of the file.
BlockSeek(s, target, offset, whence, k) ==
  LET at == target - (target % BlkSize)
      t  == __sseek(s, at, "SET")
      u  == [Clear(FREEUB(t), {"EOF"}) EXCEPT !.fp.p = 0, !.fp.r = 0]
      v  == __srefill(u, k)
      n  == target - at
  IN  IF t.ret = -1 THEN DumbSeek(t, offset, whence, k)
      ELSE IF n = 0 THEN Return(u, 0)
      ELSE IF v.ret # 0 \/ v.fp.r < n THEN DumbSeek(v, offset, whence, k)
      ELSE Return(Consume(v, n), 0)

BufferSeek(s0, target, offset, whence, k) ==
  LET s     == Offset(s0)
      p     == IF HASUB(s) THEN s.fp.up ELSE s.fp.p
      r     == IF HASUB(s) THEN s.fp.ur ELSE s.fp.r
      first == s.ret - r - p
  IN  IF InBuffer(s, target, first, p + r)
      THEN Return([Clear(FREEUB(s), {"EOF"})
                     EXCEPT !.fp.p = target - first, !.fp.r = p + r - (target - first)], 0)
      ELSE BlockSeek(s, target, offset, whence, k)

fseek(s0, arg, whence0, k) ==
  LET c      == ftell(s0, k)
      s      == NeedBuffer(IF whence0 = "CUR" THEN c ELSE s0, k)
      offset == IF whence0 = "CUR" THEN c.ret + arg ELSE arg
      whence == IF whence0 = "CUR" THEN "SET" ELSE whence0
      target == IF whence = "SET" THEN offset ELSE Len(s.file) + offset
  IN  IF s.fp.flags \cap {"WR", "RW", "NBF", "NPT"} # {}
      THEN DumbSeek(s, offset, whence, k)
      ELSE BufferSeek(Raise(s, {"OPT"}), target, offset, whence, k)

-----------------------------------------------------------------------------
(* Buffering *)

setvbuf(s0, mode, size0, k) ==
  LET s    == [FREEUB(__sflush(s0, k)) EXCEPT !.fp.r = 0, !.fp.lbf = 0]
      t    == Clear(s, {"LBF", "NBF", "MBF", "OPT", "NPT", "EOF"})
      size == IF size0 = 0 THEN BlkSize ELSE size0
      u    == Raise(t, __swhatbuf(t).flags \cup {"MBF"}
                       \cup (IF size # BlkSize THEN {"NPT"} ELSE {})
                       \cup (IF mode = "LBF" THEN {"LBF"} ELSE {}))
      line == Has(u, "WR") /\ mode = "LBF"
  IN  IF mode = "NBF" THEN Return([Unbuffered(t) EXCEPT !.fp.w = 0], 0)
      ELSE IF ~k.mem THEN Return([Unbuffered(Raise(t, __swhatbuf(t).flags)) EXCEPT !.fp.w = 0], -1)
      ELSE Return([u EXCEPT !.fp.buf = [i \in 1..size |-> Garbage], !.fp.p = 0,
                            !.fp.w = IF Has(u, "WR") /\ ~line THEN size ELSE 0,
                            !.fp.lbf = IF line THEN -size ELSE 0], 0)

fpurge(s) == Return([FREEUB(s) EXCEPT !.fp.p = 0, !.fp.r = 0, !.fp.w = Room(s)], 0)

-----------------------------------------------------------------------------
\* Bytes of the buffer, and fields, that no operation looks at any more
Tidy(f) ==
  LET n == IF "WR" \in f.flags THEN f.p
           ELSE IF "RD" \notin f.flags THEN 0
           ELSE IF f.hasub THEN f.up + f.ur ELSE f.p + f.r
  IN  [f EXCEPT !.buf = [i \in 1..Len(@) |-> IF i <= n THEN @[i] ELSE Garbage],
                !.ub  = [i \in 1..Len(@) |-> IF i > f.p THEN @[i] ELSE Garbage],
                !.up  = IF f.hasub THEN @ ELSE 0,
                !.ur  = IF f.hasub THEN @ ELSE 0,
                !.off = IF "OFF" \in f.flags THEN @ ELSE 0]

\* The call c ends with s, and returned what it read or its int; the stream
\* was sought before it, or is now
Ends(c, s, still) ==
  /\ fp' = Tidy(s.fp) /\ file' = s.file /\ koff' = s.koff /\ call' = c
  /\ res' = IF c[1] \in {"read", "line", "getln"} THEN s.got ELSE <<s.ret>>
  /\ sought' = (still \/ (c[1] = "seek" /\ s.ret = 0))
  /\ UNCHANGED use
  /\ Len(s.file) <= MaxFile

With(k) == [st EXCEPT !.fuse = k.fuse]

\* __sflags() and fopen(): the file is truncated for "w", and "a" seeks its end
Opened(mode) == IF mode = "r" THEN {"RD"} ELSE IF mode \in {"w", "a"} THEN {"WR"} ELSE {"RW"}

Init ==
  /\ use \in Uses
  /\ file = IF use.mode \in {"w", "w+"} THEN <<>> ELSE use.file
  /\ koff = IF Appends THEN Len(file) ELSE 0
  /\ fp = [flags |-> Opened(use.mode) \cup (IF Appends THEN {"OFF"} ELSE {}),
           buf |-> <<>>, p |-> 0, r |-> 0, w |-> 0, lbf |-> 0, off |-> koff,
           hasub |-> FALSE, ub |-> <<>>, up |-> 0, ur |-> 0]
  /\ sought = TRUE /\ call = <<"fopen">> /\ res = <<>>

\* A program that has read seeks before it writes, unless it saw end-of-file.
\* fopen(3) asks for no seek: see the flaw "mixed"
MayWrite == fp.flags \cap {"RD", "RW"} = {"RD", "RW"} =>
              sought \/ "EOF" \in fp.flags \/ "mixed" \in Flaws
\* fpurge() leaves _w positive on a stream that reads: see the flaw "purged"
MayPurge == "WR" \in fp.flags \/ "purged" \in Flaws

\* fseek() makes the buffer of a stream that has only pushed-back bytes, and
\* __smakebuf() moves _p from those to it: see the flaw "pushed"
MaySeek == (fp.hasub => fp.buf # <<>>) \/ "pushed" \in Flaws

Getc == \E k \in use.kernels :
  Ends(<<"read", 1>>, fread(With(k), 1, k, <<>>), FALSE)
Fread == \E k \in use.kernels, n \in use.lengths :
  Ends(<<"read", n>>, fread(With(k), n, k, <<>>), FALSE)
Fgets == \E k \in use.kernels, n \in use.lengths :
  Ends(<<"line", n>>, fgets(With(k), n, k, <<>>), FALSE)
Fgetln == \E k \in use.kernels :
  Ends(<<"getln">>, fgetln(With(k), k), FALSE)
\* the caller of fgetln() changes the text it was given
Stomp == \E c \in use.chars :
  /\ call[1] = "getln" /\ "MOD" \in fp.flags /\ ~fp.hasub /\ fp.p > 0
  /\ fp.buf[fp.p] = NL
  /\ fp' = [fp EXCEPT !.buf[fp.p] = c]
  /\ UNCHANGED <<file, koff, use, sought, call, res>>
Putc == \E k \in use.kernels, c \in use.chars :
  /\ MayWrite
  /\ Ends(<<"write", <<c>>>>, putc(With(k), c, k), sought)
Fwrite == \E k \in use.kernels, b \in use.writes :
  /\ MayWrite
  /\ Ends(<<"write", b>>, __sfvwrite(With(k), b, k), sought)
Ungetc == \E k \in use.kernels, c \in use.chars :
  /\ fp.r + (IF fp.hasub THEN 0 ELSE -BlkSize) < use.unget
  /\ Ends(<<"unget", c>>, ungetc(With(k), c, k), FALSE)
Fseek == \E k \in use.kernels, w \in {"SET", "CUR", "END"}, offset \in Offsets :
  /\ ~use.tty /\ MaySeek
  /\ Ends(<<"seek", <<w, offset>>>>, fseek(With(k), offset, w, k), sought)
Ftell == \E k \in use.kernels :
  ~use.tty /\ Ends(<<"tell">>, ftell(With(k), k), sought)
Fflush == \E k \in use.kernels :
  Ends(<<"flush">>, fflush(With(k), k), sought)
Setvbuf == \E k \in use.kernels, m \in use.buffering, n \in {0, 1} :
  Ends(<<"setbuf">>, setvbuf(With(k), m, n, k), sought)
Fpurge == MayPurge /\ Ends(<<"purge">>, fpurge(st), sought)
Clearerr == /\ fp' = [fp EXCEPT !.flags = @ \ {"EOF", "ERR"}]
            /\ call' = <<"clearerr">> /\ res' = <<0>>
            /\ UNCHANGED <<file, koff, use, sought>>

Next == \/ Getc \/ Fread \/ Fgets \/ Fgetln \/ Stomp \/ Putc \/ Fwrite \/ Ungetc
        \/ Fseek \/ Ftell \/ Fflush \/ Setvbuf \/ Fpurge \/ Clearerr

Spec == Init /\ [][Next]_vars

-----------------------------------------------------------------------------
(* What the program sees of the stream *)

Pending == IF "WR" \in fp.flags THEN SubSeq(fp.buf, 1, fp.p) ELSE <<>>
Position == IF Appends /\ Pending # <<>> THEN Len(file) ELSE koff
Seen == Overlay(file, Position, Pending)
Told == IF "RD" \in fp.flags THEN koff - Unread(st) ELSE Position + Len(Pending)
Coming ==
  IF "RD" \notin fp.flags THEN From(Seen, Told)
  ELSE Ahead(st) \o (IF fp.hasub THEN SubSeq(fp.buf, fp.up + 1, fp.up + fp.ur) ELSE <<>>)
       \o From(file, koff)

Stream == INSTANCE ByteStream WITH
  content <- Seen, tell <- Told, rest <- Coming, res <- res, mode <- use.mode,
  eof <- "EOF" \in fp.flags, err <- "ERR" \in fp.flags

\* The buffers do not show: whatever the sequence of calls, of short reads and
\* writes and of failures, the program sees a file and a position in it
ImplementsStream == Stream!Init /\ [][Stream!Next]_(Stream!vars)
=============================================================================
