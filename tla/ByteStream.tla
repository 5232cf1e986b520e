----------------------------- MODULE ByteStream -----------------------------
(***************************************************************************)
(* What the functions of <stdio.h> promise about one stream: the program   *)
(* sees a file and a position in it, and no buffer.  tell is the position, *)
(* rest the bytes the next reads return (pushed-back ones first), content  *)
(* the file as the program left it.  Only an error may lose bytes, and an  *)
(* error raises the stream's error indicator.                              *)
(***************************************************************************)
EXTENDS Integers, Sequences, FiniteSetsExt

CONSTANTS NL,          \* the newline
          Lengths, Writes, Chars, Offsets   \* what programs ask for

VARIABLES content, tell, rest, eof, err,
          call, res,   \* the last call with its argument, what it returned
          mode         \* of the fopen()

vars == <<content, tell, rest, eof, err, call, res, mode>>

Bytes == Seq(Int)
From(s, n) == SubSeq(s, n + 1, Len(s))
Overlay(s, at, bytes) ==
  SubSeq(s, 1, at) \o bytes \o From(s, at + Len(bytes))

Init == /\ content \in Bytes /\ rest \in Bytes /\ tell \in Nat
        /\ ~eof /\ ~err /\ call = <<"fopen">> /\ res = <<>> /\ mode \in {"r", "w", "a", "r+", "w+", "a+"}

Lost == err' /\ content' \in Bytes /\ rest' \in Bytes /\ tell' \in Int

\* m bytes are read; a read that returns fewer than it could says why
Take(m) ==
  /\ res' = SubSeq(rest, 1, m) /\ rest' = From(rest, m) /\ tell' = tell + m
  /\ UNCHANGED content
  /\ eof' => rest' = <<>>
  /\ err => err'

Line == Min({i \in 1..Len(rest) : rest[i] = NL} \cup {Len(rest)})

\* fread(), getc(): up to n bytes
Read(n) ==
  \/ \E m \in 0..Min({n, Len(rest)}) :
        /\ Take(m)
        /\ m < n => eof' \/ err'
        /\ m < Len(rest) => err' \/ m = n
  \/ Lost /\ res' = <<>> /\ eof' = eof
\* fgets(): up to n bytes, and no further than a newline; fgetln(): any n
ReadLine(n) ==
  \/ \E m \in 0..Min({n, Line}) :
        Take(m) /\ (m < Min({n, Line}) => err')
  \/ Lost /\ res' = <<>> /\ eof' = eof

Write(bytes) ==
  \/ /\ res' = <<0>>
     /\ \E at \in {IF mode \in {"a", "a+"} THEN Len(content) ELSE tell} :
           /\ content' = Overlay(content, at, bytes)
           /\ tell' = at + Len(bytes)
           /\ rest' = From(content', tell')
     /\ eof' = FALSE /\ err' = err
  \/ res' = <<-1>> /\ Lost /\ eof' \in BOOLEAN

Unget(c) ==
  \/ /\ res' = <<c>> /\ rest' = <<c>> \o rest /\ tell' = tell - 1
     /\ eof' = FALSE /\ err' = err /\ UNCHANGED content
  \/ /\ res' = <<-1>>
     /\ UNCHANGED <<content, tell, rest, eof, err>> \/ (Lost /\ eof' = eof)

Seek(target) ==
  \/ /\ res' = <<0>> /\ tell' = target /\ rest' = From(content, target)
     /\ eof' = FALSE /\ err' = err /\ UNCHANGED content
  \/ /\ res' = <<-1>>
     /\ \/ UNCHANGED <<content, tell, rest, eof, err>> 
        \/ Lost /\ eof' \in BOOLEAN
  \/ res' = <<0>> /\ Lost /\ eof' = FALSE

Tell == \/ res' = <<tell>> /\ UNCHANGED <<content, tell, rest, eof, err>>
        \/ Lost /\ res' = <<tell'>> /\ eof' = eof

Flush == \/ res' = <<0>> /\ UNCHANGED <<content, tell, rest, eof, err>>
         \/ res' = <<-1>> /\ (Lost \/ UNCHANGED <<content, tell, rest, err>>) /\ eof' = eof

\* setvbuf() on a stream in use discards what was read ahead
SetBuffer ==
  \/ /\ \E m \in 0..Len(rest) : rest' = From(rest, m)
     /\ rest' = From(content, tell') /\ tell' \in tell..Len(content)
     /\ eof' = FALSE /\ err' = err /\ res' \in {<<0>>, <<-1>>} /\ UNCHANGED content
  \/ Lost /\ eof' = FALSE /\ res' \in {<<0>>, <<-1>>}

ClearErr == /\ eof' = FALSE /\ err' = FALSE /\ res' = <<0>>
            /\ UNCHANGED <<content, tell, rest>>

\* fpurge() drops output that was not written yet
Purge == res' = <<0>> /\ content' \in Bytes /\ tell' \in Nat /\ rest' = From(content', tell')
         /\ UNCHANGED <<eof, err>>

Target(w, offset) == offset + (IF w = "SET" THEN 0 ELSE IF w = "CUR" THEN tell ELSE Len(content))

\* fgetln() had no memory for the line, which is still to be read
NoMemory == res' = <<>> /\ UNCHANGED <<content, tell, rest, eof, err>>

Refused == /\ \/ mode = "r" /\ call'[1] \in {"write", "flush"} /\ res' = <<-1>>
              \/ mode \in {"w", "a"} /\ call'[1] = "unget" /\ res' = <<-1>>
              \/ mode \in {"w", "a"} /\ call'[1] \in {"read", "line", "getln"} /\ res' = <<>>
           /\ UNCHANGED <<content, tell, rest, eof, err>>

Next ==
  /\ UNCHANGED mode
  /\ \/ \E n \in Lengths \cup {1} : call' = <<"read", n>> /\ Read(n)
     \/ \E n \in Lengths : call' = <<"line", n>> /\ ReadLine(n)
     \/ call' = <<"getln">> /\ (ReadLine(Len(rest)) \/ NoMemory)
     \/ \E b \in Writes \cup {<<c>> : c \in Chars} : call' = <<"write", b>> /\ Write(b)
     \/ \E c \in Chars : call' = <<"unget", c>> /\ Unget(c)
     \/ \E w \in {"SET", "CUR", "END"}, o \in Offsets :
           call' = <<"seek", <<w, o>>>> /\ Seek(Target(w, o))
     \/ call' = <<"tell">> /\ Tell
     \/ call' = <<"flush">> /\ Flush
     \/ call' = <<"setbuf">> /\ SetBuffer
     \/ call' = <<"purge">> /\ Purge
     \/ Refused
     \/ call' = <<"clearerr">> /\ ClearErr
=============================================================================
