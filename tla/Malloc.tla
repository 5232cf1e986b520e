-------------------------------- MODULE Malloc ------------------------------
(* library/malloc.c and library/kmalloc.c over the buddy allocator: the memory *)
(* of a process is on a list that all_free() empties when it ends. A thread    *)
(* uses the list of its process. A child of vfork() uses the list of its       *)
(* parent, which waits, until vfork_own_malloc() gives it its own. Signals are *)
(* blocked through all of this, so nothing runs in the middle of a call but    *)
(* other tasks.                                                                *)
EXTENDS Integers, Sequences, SequencesExt, FiniteSetsExt

-----------------------------------------------------------------------------
(* The allocator of library/buddy-alloc.c under malloc() and kmalloc(): chunks *)
(* of 2^MAXLOG2 from exec are split into blocks of powers of two, and two      *)
(* free buddies become the block they were split from. Sizes and addresses     *)
(* count long words. Every call runs under Forbid() and is one step.           *)

CONSTANTS
  MINLOG2, MAXLOG2,
  BUDDY_LIMIT,           \* requests from here on go to exec
  NCHUNKS,               \* what exec has: chunks of 2^MAXLOG2
  Pools                  \* PRIVATE_POOL and PUBLIC_POOL

BuddyAssumption ==
  /\ {MINLOG2, MAXLOG2, BUDDY_LIMIT, NCHUNKS} \subseteq Nat
  /\ MINLOG2 < MAXLOG2 /\ 2^MINLOG2 < BUDDY_LIMIT /\ BUDDY_LIMIT <= 2^MAXLOG2

NULL == -1
HEADER == 1              \* offsetof (struct free_block, next)
MINSIZE == 2^MINLOG2
MAXSIZE == 2^MAXLOG2
Top == MAXLOG2 - MINLOG2
Chunks == {c * MAXSIZE : c \in 0 .. NCHUNKS - 1}

VARIABLES
  execmem,   \* what each chunk of exec is in use for
  header,    \* the struct free_block of every block, in use or free
  buckets,   \* free_list[pool].buckets[index]
  used       \* the blocks in use: the index they were asked for

buddyVars == <<execmem, header, buckets, used>>

\* init_buddy()
BuddyInit ==
  /\ execmem = [c \in Chunks |-> "free"]
  /\ header = <<>>
  /\ buckets = [p \in Pools |-> [i \in 0 .. Top - 1 |-> <<>>]]
  /\ used = <<>>

\* The size of a block, and its buddy in the chunk it is from.
BlockSize(index) == 2^(index + MINLOG2)
BuddyOf(block, exec, index) ==
  IF ((block - exec) \div BlockSize(index)) % 2 = 0 THEN block + BlockSize(index)
                                                    ELSE block - BlockSize(index)

\* A faulty log2: rounds down.
log2Down(size) == Max({p \in 0 .. MAXLOG2 : 2^p <= size})

\* The next power of two.
log2(size) == Min({p \in 0 .. MAXLOG2 : size <= 2^p})

AtLeastMin(size) == Max({size, MINSIZE})
ToExec(size) == AtLeastMin(size) >= BUDDY_LIMIT - HEADER
Bucket(size) == log2(AtLeastMin(size) + HEADER) - MINLOG2

InUse(pool, exec) == [pool |-> pool + 1, exec_block |-> exec, index |-> 0]
Free(index, exec) == [pool |-> 0, exec_block |-> exec, index |-> index]

\* AllocMem() of exec takes the first memory that is free.
Available == {c \in Chunks : execmem[c] = "free"}
First == Min(Available)
AllocMem(use) == [execmem EXCEPT ![First] = use]
NoMemory ==
  [mem |-> NULL, execmem |-> execmem, header |-> header, buckets |-> buckets, used |-> used]

\* get_block(): the head of the smallest bucket that has a block, or a chunk of
\* exec, is split until it fits; the upper buddies are freed. Nothing is changed
\* when exec has no memory. The value is what it returns and what it leaves.
get_block(pool, index) ==
  LET from == Min({i \in index .. Top - 1 : buckets[pool][i] # <<>>} \cup {Top})
      Split(fb, exec, chunks) ==
        LET Upper(i) == fb + BlockSize(i)
            upper == {Upper(i) : i \in index .. from - 1}
        IN
        [mem |-> fb + HEADER,
         execmem |-> chunks,
         header |-> [a \in DOMAIN header \cup upper \cup {fb} |->
           IF a = fb THEN InUse(pool, exec)
           ELSE IF a \in upper
             THEN Free(CHOOSE i \in index .. from - 1 : a = Upper(i), exec)
           ELSE header[a]],
         buckets |-> [buckets EXCEPT ![pool] = [i \in 0 .. Top - 1 |->
           IF i = from THEN Tail(@[i])
           ELSE IF i \in index .. from - 1 THEN <<Upper(i)>> \o @[i]
           ELSE @[i]]],
         used |-> [a \in DOMAIN used \cup {fb} |-> IF a = fb THEN index ELSE used[a]]]
  IN
  IF from < Top
    THEN LET fb == Head(buckets[pool][from]) IN Split(fb, header[fb].exec_block, execmem)
  ELSE IF Available # {} THEN Split(First, First, AllocMem("buddy"))
  ELSE NoMemory

\* b_alloc(). A chunk stands for whatever exec gives for a large request.
b_alloc(size, pool) ==
  IF ~ToExec(size) THEN get_block(pool, Bucket(size))
  ELSE IF Available # {} THEN [NoMemory EXCEPT !.mem = First, !.execmem = AllocMem("direct")]
  ELSE NoMemory

Allocated(r) ==
  execmem' = r.execmem /\ header' = r.header /\ buckets' = r.buckets /\ used' = r.used

\* A faulty Mergeable: the buddy may have been split.
MergeableIfFree(buddy, index) == header[buddy].pool = 0

\* The buddy is on a free list, and as large as the block.
Mergeable(buddy, index) == header[buddy].pool = 0 /\ header[buddy].index = index

\* free_block(): the block is joined with its buddy as long as that is free, and
\* what results goes to its bucket, or back to exec. The block of index i around
\* fb starts at Block(i); it stops growing at the first index that has no free
\* buddy.
free_block(pool, index, fb) ==
  LET exec == header[fb].exec_block
      Block(i) == fb - ((fb - exec) % BlockSize(i))
      Other(i) == BuddyOf(Block(i), exec, i)
      top == Min({i \in index .. Top - 1 : ~Mergeable(Other(i), i)} \cup {Top})
      block == Block(top)
      joined == {fb} \cup {Other(i) : i \in index .. top - 1}
      left == IF top = Top THEN {} ELSE {block}
  IN
  /\ header' = [a \in (DOMAIN header \ joined) \cup left |->
       IF a = block THEN Free(top, exec) ELSE header[a]]
  /\ buckets' = [buckets EXCEPT ![pool] = [i \in 0 .. Top - 1 |->
       IF i \in index .. top - 1 THEN SelectSeq(@[i], LAMBDA a : a # Other(i))
       ELSE IF i = top THEN <<block>> \o @[i]
       ELSE @[i]]]
  /\ execmem' = IF top = Top THEN [execmem EXCEPT ![block] = "free"] ELSE execmem
  /\ used' = [a \in DOMAIN used \ {fb} |-> used[a]]

\* b_free(): the pool comes from the header, the bucket from the size.
b_free(mem, size) ==
  IF ToExec(size)
    THEN /\ execmem' = [execmem EXCEPT ![mem] = "free"]
         /\ UNCHANGED <<header, buckets, used>>
    ELSE LET fb == mem - HEADER
         IN  free_block(header[fb].pool - 1, Bucket(size), fb)

FreeBlocks == {b \in DOMAIN header : header[b].pool = 0}
IndexOf(b) == IF b \in DOMAIN used THEN used[b] ELSE header[b].index
Extent(b) == b .. b + BlockSize(IndexOf(b)) - 1

\* The blocks in use and the free ones tile the chunks that come from exec: they
\* do not overlap, none of the memory is lost between them, and no two free
\* buddies are left apart, so a chunk with nothing in use goes back to exec. A
\* free block is on the one list of its pool and size.
BlocksTileChunks ==
  /\ \A b, c \in DOMAIN header : b # c => Extent(b) \cap Extent(c) = {}
  /\ UNION {Extent(b) : b \in DOMAIN header} =
       UNION {c .. c + MAXSIZE - 1 : c \in {d \in Chunks : execmem[d] = "buddy"}}
  /\ \A b \in FreeBlocks :
       /\ ~Mergeable(BuddyOf(b, header[b].exec_block, IndexOf(b)), IndexOf(b))
       /\ \E p \in Pools : b \in ToSet(buckets[p][IndexOf(b)])
  /\ FoldSet(LAMBDA p, n : n + FoldFunction(LAMBDA l, k : Len(l) + k, 0, buckets[p]),
             0, Pools) = Cardinality(FreeBlocks)

-----------------------------------------------------------------------------
(* malloc() and kmalloc().                                                     *)

CONSTANTS
  Tasks, Process, Thread, Child,    \* the process, its thread, its child
  Sizes,                            \* what is asked for
  Alignment,                        \* of memalign()
  ReallocAligned,                   \* whether realloc() is asked to grow what
                                    \* memalign() gave
  MaxBlocks                         \* how many blocks there are at a time

MEM_BLOCK == 6                      \* sizeof (struct mem_block)
REALBLOCK == 5                      \* offsetof (struct mem_block, realblock)
PRIVATE == 0
PUBLIC == 1

VARIABLES
  mdp,       \* u_mdp: whose list a task uses
  list,      \* u_md.md_list of a task
  size,      \* size of every struct mem_block
  ptr,       \* the pointers that malloc(), memalign() and realloc() gave: how
             \* far into the block memalign() moved it, and the size asked for
  kptr,      \* the pointers that kmalloc() gave: the size
  pc, block, old, want     \* where a task is in a call; want is its result

mallocVars == <<mdp, list, size, ptr, kptr>>
callVars == <<pc, block, old, want>>
vars == <<buddyVars, mallocVars, callVars>>

NoWant == [offset |-> 0, asked |-> 0]

MallocInit ==
  /\ BuddyInit
  /\ mdp = [t \in Tasks |-> IF t = Thread THEN Process ELSE t]
  /\ list = [t \in Tasks |-> <<>>]
  /\ size = <<>> /\ ptr = <<>> /\ kptr = <<>>
  /\ pc = [t \in Tasks |-> IF t = Child THEN "none" ELSE "run"]
  /\ block = [t \in Tasks |-> NULL] /\ old = [t \in Tasks |-> NULL]
  /\ want = [t \in Tasks |-> NoWant]

MayAsk == Cardinality(DOMAIN size) + Cardinality(DOMAIN kptr) < MaxBlocks

Without(f, a) == [x \in DOMAIN f \ {a} |-> f[x]]
With(f, a, v) == [x \in DOMAIN f \cup {a} |-> IF x = a THEN v ELSE f[x]]

\* The block a pointer is in: memalign() left the way back in front of it.
BlockOf(p) == p - REALBLOCK - ptr[p].offset

Return(t) ==
  /\ pc' = [pc EXCEPT ![t] = "run"]
  /\ block' = [block EXCEPT ![t] = NULL] /\ old' = [old EXCEPT ![t] = NULL]
  /\ want' = [want EXCEPT ![t] = NoWant]

\* malloc() up to the allocation. The user may be asked to free memory when there
\* is none, which comes to trying again.
Allocate(t, n, asked, aligned, from) ==
  LET r == b_alloc(n + MEM_BLOCK, PRIVATE)
      p == r.mem + REALBLOCK
      start == ((p + Alignment - 1) \div Alignment) * Alignment
  IN
  /\ MayAsk
  /\ Allocated(r)
  /\ IF r.mem = NULL
       THEN UNCHANGED <<size, callVars>>
       ELSE /\ size' = With(size, r.mem, n)
            /\ pc' = [pc EXCEPT ![t] = "link"]
            /\ block' = [block EXCEPT ![t] = r.mem]
            /\ old' = [old EXCEPT ![t] = from]
            /\ want' = [want EXCEPT ![t] =
                 [offset |-> IF aligned THEN start - p ELSE 0, asked |-> asked]]
  /\ UNCHANGED <<mdp, list, ptr, kptr>>

malloc(t, n) == pc[t] = "run" /\ Allocate(t, n, n, FALSE, NULL)

\* A faulty memalign: no room to move the block.
memalignExact(t, n) == pc[t] = "run" /\ Allocate(t, n, n, TRUE, NULL)

\* memalign() asks for room to move the block and for the way back.
memalign(t, n) == pc[t] = "run" /\ Allocate(t, n + Alignment + 1, n, TRUE, NULL)

\* malloc() puts the block on the list. realloc() goes on from there.
Link(t) ==
  LET p == block[t] + REALBLOCK + want[t].offset IN
  /\ pc[t] = "link"
  /\ list' = [list EXCEPT ![mdp[t]] = Append(@, block[t])]
  /\ ptr' = With(ptr, p, want[t])
  /\ IF old[t] = NULL
       THEN Return(t)
       ELSE /\ pc' = [pc EXCEPT ![t] = "unlink"]
            /\ UNCHANGED <<block, old, want>>
  /\ UNCHANGED <<buddyVars, mdp, size, kptr>>

\* A task has a pointer to hand over: nobody is busy with it, and it is from the
\* list the task uses.
Mine(t, p) ==
  /\ BlockOf(p) \in ToSet(list[mdp[t]])
  /\ \A s \in Tasks : p # old[s] /\ BlockOf(p) # block[s]

\* A faulty Unlinked: takes the first block off the list.
UnlinkedFirst(t, b) == list' = [list EXCEPT ![mdp[t]] = Tail(@)]

Unlinked(t, b) == list' = [list EXCEPT ![mdp[t]] = SelectSeq(@, LAMBDA a : a # b)]

free(t, p) ==
  LET b == BlockOf(p) IN
  /\ pc[t] = "run" /\ Mine(t, p)
  /\ Unlinked(t, b)
  /\ b_free(b, size[b] + MEM_BLOCK)
  /\ size' = Without(size, b) /\ ptr' = Without(ptr, p)
  /\ UNCHANGED <<mdp, kptr, callVars>>

\* A faulty Fits: one more word is taken to be there.
FitsAlmost(p, n) == size[BlockOf(p)] + 1 >= n

\* realloc() looks at the size of the whole block.
Fits(p, n) == size[BlockOf(p)] >= n

realloc(t, p, n) ==
  /\ pc[t] = "run" /\ Mine(t, p)
  /\ ptr[p].offset = 0 \/ ReallocAligned
  /\ IF Fits(p, n)
       THEN /\ ptr' = With(ptr, p, [ptr[p] EXCEPT !.asked = n])
            /\ UNCHANGED <<buddyVars, mdp, list, size, kptr, callVars>>
       ELSE Allocate(t, n, n, FALSE, p)

\* realloc(): the old block leaves the list, then its memory is given back.
Unlink(t) ==
  /\ pc[t] = "unlink"
  /\ Unlinked(t, BlockOf(old[t]))
  /\ pc' = [pc EXCEPT ![t] = "release"]
  /\ UNCHANGED <<buddyVars, mdp, size, ptr, kptr, block, old, want>>

Release(t) ==
  LET b == BlockOf(old[t]) IN
  /\ pc[t] = "release"
  /\ b_free(b, size[b] + MEM_BLOCK)
  /\ size' = Without(size, b) /\ ptr' = Without(ptr, old[t])
  /\ Return(t)
  /\ UNCHANGED <<mdp, list, kptr>>

kmalloc(t, n, from) ==
  LET r == b_alloc(n + 1, PUBLIC) IN
  /\ MayAsk
  /\ Allocated(r)
  /\ IF r.mem = NULL
       THEN UNCHANGED <<kptr, pc, old>>
       ELSE /\ kptr' = With(kptr, r.mem, n)
            /\ old' = [old EXCEPT ![t] = from]
            /\ pc' = [pc EXCEPT ![t] = IF from = NULL THEN "run" ELSE "kfree"]
  /\ UNCHANGED <<mdp, list, size, ptr, block, want>>

\* krealloc() lets the old block go when it has the new one.
krealloc(t, p, n) ==
  /\ pc[t] = "run" /\ \A s \in Tasks : old[s] # p
  /\ kptr[p] < n
  /\ kmalloc(t, n, p)

kfree(t, p) ==
  /\ \/ pc[t] = "run" /\ \A s \in Tasks : old[s] # p
     \/ pc[t] = "kfree" /\ old[t] = p
  /\ b_free(p, kptr[p] + 1)
  /\ kptr' = Without(kptr, p)
  /\ Return(t)
  /\ UNCHANGED <<mdp, list, size, ptr>>

\* vfork(): the child borrows the list of the parent, which waits.
vfork ==
  /\ pc[Process] = "run" /\ pc[Child] = "none"
  /\ pc' = [pc EXCEPT ![Process] = "vfork", ![Child] = "run"]
  /\ mdp' = [mdp EXCEPT ![Child] = Process]
  /\ UNCHANGED <<buddyVars, list, size, ptr, kptr, block, old, want>>

\* vfork_own_malloc(), on the way to vfork_resume() or to the end of the child.
\* Its copies of environ and errno are like any other memory.
vfork_own_malloc ==
  /\ pc[Child] = "run" /\ mdp[Child] = Process
  /\ mdp' = [mdp EXCEPT ![Child] = Child]
  /\ pc' = [pc EXCEPT ![Process] = "run"]
  /\ UNCHANGED <<buddyVars, list, size, ptr, kptr, block, old, want>>

\* A task ends: a thread leaves its memory to its process, and a process ends
\* after its thread.
exit(t) ==
  /\ pc[t] = "run" /\ (mdp[t] = t \/ t = Thread)
  /\ t = Process => pc[Thread] = "dead" /\ pc[Child] # "run"
  /\ pc' = [pc EXCEPT ![t] = IF t = Thread THEN "dead" ELSE "all_free"]
  /\ UNCHANGED <<buddyVars, mallocVars, block, old, want>>

\* all_free(): block after block of its own list, not under Forbid().
all_free(t) ==
  LET b == Head(list[t]) IN
  /\ pc[t] = "all_free"
  /\ IF list[t] = <<>>
       THEN /\ pc' = [pc EXCEPT ![t] = "dead"]
            /\ UNCHANGED <<buddyVars, list, size, ptr>>
       ELSE /\ b_free(b, size[b] + MEM_BLOCK)
            /\ list' = [list EXCEPT ![t] = Tail(@)]
            /\ size' = Without(size, b)
            /\ ptr' = [p \in {q \in DOMAIN ptr : BlockOf(q) # b} |-> ptr[p]]
            /\ UNCHANGED pc
  /\ UNCHANGED <<mdp, kptr, block, old, want>>

Next ==
  \/ vfork \/ vfork_own_malloc
  \/ \E t \in Tasks :
       \/ \E n \in Sizes :
            \/ malloc(t, n) \/ memalign(t, n)
            \/ pc[t] = "run" /\ kmalloc(t, n, NULL)
            \/ \E p \in DOMAIN ptr : realloc(t, p, n)
            \/ \E p \in DOMAIN kptr : krealloc(t, p, n)
       \/ Link(t) \/ Unlink(t) \/ Release(t)
       \/ \E p \in DOMAIN ptr : free(t, p)
       \/ \E p \in DOMAIN kptr : kfree(t, p)
       \/ exit(t) \/ all_free(t)

Spec == MallocInit /\ [][Next]_vars

-----------------------------------------------------------------------------
(* Properties.                                                                 *)

\* The blocks that malloc() and kmalloc() handed out, and those in the hands of
\* a call.
Tracked == UNION {ToSet(list[t]) : t \in Tasks}
InCall == {block[t] : t \in {s \in Tasks : pc[s] = "link"}}
            \cup {BlockOf(old[t]) : t \in {s \in Tasks : pc[s] = "release"}}
Given == {a \in DOMAIN used : header[a].pool = PRIVATE + 1}

\* All the memory of a process is on its list, so all_free() leaves nothing
\* behind: every private block in use is on exactly one list or in the hands of
\* the call that is about to link or to release it, and what is on a list is in
\* use. With all tasks gone and no kmalloc() left, exec has all its memory back.
NothingIsLost ==
  /\ \A t \in Tasks : \A i, j \in DOMAIN list[t] : list[t][i] = list[t][j] => i = j
  /\ \A s, t \in Tasks : s # t => ToSet(list[s]) \cap ToSet(list[t]) = {}
  /\ Tracked \cap InCall = {} /\ Tracked \cup InCall = DOMAIN size
  /\ \A b \in DOMAIN size : IF ToExec(size[b] + MEM_BLOCK)
                              THEN execmem[b] = "direct" ELSE b - HEADER \in Given
  /\ \A a \in Given : a + HEADER \in DOMAIN size
  /\ (\A t \in Tasks : pc[t] \in {"none", "dead"}) /\ DOMAIN kptr = {} =>
       \A c \in Chunks : execmem[c] = "free"

\* Behind a pointer is the memory that was asked for, to the end of its block,
\* however it came about: by malloc(), memalign(), or realloc() that returned
\* the old block because it was large enough.
\* The block is as large as its size says.
AskedIsThere ==
  /\ \A p \in DOMAIN ptr : ptr[p].offset + ptr[p].asked <= size[BlockOf(p)]
  /\ \A b \in DOMAIN size : b - HEADER \in DOMAIN used =>
       HEADER + MEM_BLOCK + size[b] <= BlockSize(used[b - HEADER])
=============================================================================
