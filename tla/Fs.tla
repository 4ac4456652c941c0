--------------------------------- MODULE Fs ---------------------------------
(***************************************************************************)
(* The file system of fs/fs.c: the free block bitmap, the block cache with *)
(* its dirty bits, the block maps of files, directories and paths, as the  *)
(* requests of fs/serv.c call them.                                        *)
(*                                                                         *)
(* The server serves one request at a time, so a request is one step.  A   *)
(* function of fs.c is an operator that takes the memory m before the call *)
(* to the memory after it, with the value it returns in m.r (negative for  *)
(* an error, as in the code) and the file it finds in m.loc.               *)
(*                                                                         *)
(* A block has no type: what a directory, an index of block numbers or a   *)
(* program's data left in it is read as whatever it is next used for.  A   *)
(* data block is one word repeated.  A file is named by the place of its   *)
(* `struct File', as in the code: a block and a slot in it.                *)
(***************************************************************************)
EXTENDS Integers, Sequences, FiniteSets, FiniteSetsExt

CONSTANTS NBLOCKS,            \* s_nblocks
          BY2BLK,             \* file sizes per block
          NDIRECT, NINDIRECT, FILE2BLK,
          Names, Paths,       \* paths are sequences of names
          Words,              \* what programs write into their blocks, 0 among it
          Sizes,              \* bound: what programs set the size of a file to
          MaxOpen,            \* bound: files open at once
          Careful,            \* programs blank a block before they give it up
          NIL

ASSUME FsAssumption ==
  /\ NBLOCKS \in Nat /\ NBLOCKS > 4
  /\ BY2BLK \in Nat \ {0} /\ FILE2BLK \in Nat \ {0}
  /\ NDIRECT \in Nat \ {0} /\ NINDIRECT \in Nat /\ NINDIRECT >= NDIRECT

ASSUME ProgramAssumption ==
  /\ Names # {} /\ "" \notin Names /\ Paths \subseteq Seq(Names)
  /\ 0 \in Words /\ Words \subseteq Nat
  /\ Sizes \subseteq Nat /\ MaxOpen \in Nat /\ Careful \in BOOLEAN

\* Block 0 is the boot block, which nothing below uses.
Blocks == 1 .. NBLOCKS - 1
SUPER  == 1
BITMAP == 2
Slots  == 1 .. FILE2BLK
Locs   == {<<SUPER, 1>>} \cup (BITMAP + 1 .. NBLOCKS - 1) \X Slots
ROOT   == <<SUPER, 1>>

E_INVAL == 3
E_NO_MEM == 4
E_NO_DISK == 8
E_NOT_FOUND == 10
E_FILE_EXISTS == 12
PANIC == 99          \* user_panic: the call does not return

FTYPE_REG == 0
FTYPE_DIR == 1

\* What a block can hold: a word, over and over; struct Files (the super block has
\* one); block numbers, of which those below NDIRECT are not used; the bitmap.
FileRecs == [name : Names \cup {"", "junk", "/"}, size : Nat, type : Nat,
             ptr : [0 .. NDIRECT - 1 -> Nat], ind : Nat]
Contents ==
  [k : {"word"}, w : Nat]
    \cup [k : {"dir"}, f : [Slots -> FileRecs] \cup [{1} -> FileRecs]]
    \cup [k : {"ptr"}, p : [0 .. NINDIRECT - 1 -> Nat]]
    \cup [k : {"bits"}, free : SUBSET Blocks]

ASSUME NilAssumption == NIL \notin Contents /\ NIL \notin Locs

VARIABLES
  cache,   \* the contents of the blocks in the server's memory, NIL if not mapped
  unsaved, \* the data blocks whose contents there are not on disk
  dirty,   \* the blocks whose cache page has PTE_DIRTY
  fds,     \* open files: f_dir, and the blocks that close has marked dirty so far
  panic

vars == <<cache, unsaved, dirty, fds, panic>>

-----------------------------------------------------------------------------
(***************************************************************************)
(* What is in a block.                                                     *)
(***************************************************************************)
Word(w) == [k |-> "word", w |-> w]
Dir(f)  == [k |-> "dir", f |-> f]
Ptr(p)  == IF \A i \in DOMAIN p : p[i] = 0 THEN Word(0) ELSE [k |-> "ptr", p |-> p]
Bits(S) == [k |-> "bits", free |-> S]

\* struct File read from a block full of w; blank if w is 0.
FileOf(w) == [name |-> IF w = 0 THEN "" ELSE "junk", size |-> w, type |-> w,
              ptr |-> [i \in 0 .. NDIRECT - 1 |-> w], ind |-> w]

\* The word another block is read as where it does not belong.
WordOf(c) == IF c.k = "word" THEN c.w ELSE NBLOCKS

AsDir(c) == IF c.k = "dir" THEN c.f ELSE [s \in Slots |-> FileOf(WordOf(c))]
AsPtr(c) == IF c.k = "ptr" THEN c.p ELSE [i \in 0 .. NINDIRECT - 1 |-> WordOf(c)]

\* The memory of a request; mem are the blocks for whose page page_alloc succeeds.
Memory(mem) == [cache |-> cache, unsaved |-> unsaved, dirty |-> dirty, panic |-> panic,
                mem |-> mem, r |-> 0, loc |-> ROOT, par |-> NIL]

File(m, l) == AsDir(m.cache[l[1]])[l[2]]

\* A store by the server into its own data: b is not, or no longer, a data block.
SetMeta(m, b, c) == [m EXCEPT !.cache[b] = c, !.unsaved = @ \ {b}]

SetFile(m, l, f) == SetMeta(m, l[1], Dir([AsDir(m.cache[l[1]]) EXCEPT ![l[2]] = f]))

Return(m, r) == [m EXCEPT !.r = r]

Free(m) == m.cache[BITMAP].free

\* The blocks that alloc_block_num hands out: the free ones behind the bitmap.
Spare(m) == Free(m) \ {SUPER, BITMAP}

\* What follows a call, unless it has failed.
Then(m, f(_)) == IF m.r < 0 THEN m ELSE f(m)

\* A loop: f(...f(f(m, a), a + 1)..., b - 1).
Loop(f(_, _), m, a, b) ==
  LET after[i \in a .. b] == IF i = a THEN m ELSE f(after[i - 1], i - 1)
  IN  IF a < b THEN after[b] ELSE m

\* The disk at boot: one file, of one block, that tools/fsformat.c has written.
\* What is written later is never read from it: a block stays in the cache.
Image ==
  LET file == [FileOf(0) EXCEPT !.name = CHOOSE n \in Names : TRUE, !.size = 1, !.ptr[0] = 4]
      root == [FileOf(0) EXCEPT !.name = "/", !.type = FTYPE_DIR, !.size = BY2BLK, !.ptr[0] = 3]
  IN  [b \in Blocks |->
         CASE b = SUPER  -> Dir(<<root>>)
           [] b = BITMAP -> Bits(5 .. NBLOCKS - 1)
           [] b = 3      -> Dir([s \in Slots |-> IF s = 1 THEN file ELSE FileOf(0)])
           [] b > 3      -> Word(0)]

-----------------------------------------------------------------------------
(***************************************************************************)
(* Blocks.                                                                 *)
(***************************************************************************)
block_is_mapped(m, b) == b \in Blocks /\ m.cache[b] # NIL

\* read_block: loads b into the cache and returns it.
read_block(m, b) ==
  IF b >= NBLOCKS \/ b \in Free(m) THEN [m EXCEPT !.r = -PANIC, !.panic = TRUE]
  ELSE IF block_is_mapped(m, b) THEN Return(m, b)
  ELSE Return([m EXCEPT !.cache[b] = Image[b]], b)

write_block(m, b) == [m EXCEPT !.unsaved = @ \ {b}]

block_is_dirty(m, b) == b \in m.dirty

\* Mutant: the block stays marked in use.
free_block_keep(m, b) == m

free_block(m, b) ==
  IF b = 0 \/ b >= NBLOCKS THEN m
  ELSE [SetMeta(m, BITMAP, Bits(Free(m) \cup {b})) EXCEPT !.unsaved = @ \ {b}]

\* The first free block; its new bit is written to disk at once.
alloc_block_num(m) ==
  IF Spare(m) = {} THEN Return(m, -E_NO_DISK)
  ELSE LET b == Min(Spare(m)) IN
       Return(write_block(SetMeta(m, BITMAP, Bits(Free(m) \ {b})), BITMAP), b)

\* A block that is still in the cache keeps what it held.
map_block(m, b) ==
  IF block_is_mapped(m, b) THEN Return(m, 0)
  ELSE IF b \notin m.mem THEN Return(m, -E_NO_MEM)
  ELSE Return([m EXCEPT !.cache[b] = Word(0)], 0)

\* Mutant: the bit of the block is not cleared.
alloc_block_unmarked(m) ==
  IF Spare(m) = {} THEN Return(m, -E_NO_DISK)
  ELSE LET b == Min(Spare(m)) IN Return([map_block(m, b) EXCEPT !.unsaved = @ \cup {b}], b)

alloc_block(m) ==
  Then(alloc_block_num(m), LAMBDA a :
    IF map_block(a, a.r).r < 0 THEN Return(free_block(a, a.r), map_block(a, a.r).r)
    ELSE Return([map_block(a, a.r) EXCEPT !.unsaved = @ \cup {a.r}], a.r))

-----------------------------------------------------------------------------
(***************************************************************************)
(* The block map of a file.                                                *)
(***************************************************************************)
\* The number in the place file_block_walk finds, and storing another there.
Entry(m, l, bno) ==
  IF bno < NDIRECT THEN File(m, l).ptr[bno] ELSE AsPtr(m.cache[File(m, l).ind])[bno]

SetEntry(m, l, bno, b) ==
  IF bno < NDIRECT THEN SetFile(m, l, [File(m, l) EXCEPT !.ptr[bno] = b])
  ELSE LET i == File(m, l).ind IN
       SetMeta(m, i, Ptr([AsPtr(m.cache[i]) EXCEPT ![bno] = b]))

file_block_walk(m, l, bno, alloc) ==
  IF bno < NDIRECT THEN Return(m, 0)
  ELSE IF bno >= NINDIRECT THEN Return(m, -E_INVAL)
  ELSE IF File(m, l).ind # 0 THEN read_block(m, File(m, l).ind)
  ELSE IF ~alloc THEN Return(m, -E_NOT_FOUND)
  ELSE Then(alloc_block(m), LAMBDA a :
         read_block(SetFile(a, l, [File(a, l) EXCEPT !.ind = a.r]), a.r))

file_map_block(m, l, bno, alloc) ==
  Then(file_block_walk(m, l, bno, alloc), LAMBDA w :
    IF Entry(w, l, bno) # 0 THEN Return(w, Entry(w, l, bno))
    ELSE IF ~alloc THEN Return(w, -E_NOT_FOUND)
    ELSE Then(alloc_block(w), LAMBDA a : SetEntry(a, l, bno, a.r)))

\* Mutant: the block is freed but its number stays in the file.
file_clear_block_keep(m, l, bno) ==
  Then(file_block_walk(m, l, bno, FALSE), LAMBDA w :
    IF Entry(w, l, bno) = 0 THEN w ELSE free_block(w, Entry(w, l, bno)))

file_clear_block(m, l, bno) ==
  Then(file_block_walk(m, l, bno, FALSE), LAMBDA w :
    IF Entry(w, l, bno) = 0 THEN w
    ELSE SetEntry(free_block(w, Entry(w, l, bno)), l, bno, 0))

file_get_block(m, l, bno) ==
  Then(file_map_block(m, l, bno, TRUE), LAMBDA a : read_block(a, a.r))

\* Mutant: a block that is not in the cache is marked.
file_dirty_unmapped(m, l, bno) ==
  Then(file_map_block(m, l, bno, FALSE), LAMBDA a : [a EXCEPT !.dirty = @ \cup {a.r}])

file_dirty(m, l, bno) ==
  Then(file_map_block(m, l, bno, FALSE), LAMBDA a :
    IF block_is_mapped(a, a.r) THEN [a EXCEPT !.dirty = @ \cup {a.r}] ELSE a)

\* The blocks of l before block `end' that are marked dirty.
flush_to(m, l, end) ==
  Loop(LAMBDA n, bno :
         Then(file_map_block(n, l, bno, FALSE), LAMBDA a :
           IF block_is_dirty(a, a.r) THEN write_block(a, a.r) ELSE a),
       m, 0, end)

\* Mutant: the last, partial block is left out.
file_flush_short(m, l) == flush_to(m, l, File(m, l).size \div BY2BLK)

file_flush(m, l) == flush_to(m, l, File(m, l).size \div BY2BLK + 1)

\* f_dir, here d, is what dir_lookup stored into the file when it was last looked
\* up; only the root has none.
flush_dir(m, d) == IF d = NIL THEN m ELSE file_flush(m, d)

SetSize(m, l, size) == SetFile(m, l, [File(m, l) EXCEPT !.size = size])

free_indirect(m, l) ==
  IF File(m, l).ind = 0 THEN m
  ELSE SetFile(free_block(m, File(m, l).ind), l, [File(m, l) EXCEPT !.ind = 0])

\* How many blocks truncation to newsize leaves.
new_nblocks(newsize) == IF newsize = 0 THEN 0 ELSE newsize \div BY2BLK + 1

clear_blocks(m, l, new, old) == Loop(LAMBDA n, bno : file_clear_block(n, l, bno), m, new, old)

file_truncate(m, l, newsize) ==
  LET old == File(m, l).size \div BY2BLK + 1
      new == new_nblocks(newsize)
      cut == clear_blocks(m, l, new, old)
  IN  SetSize(IF new <= NDIRECT THEN free_indirect(cut, l) ELSE cut, l, newsize)

file_set_size(m, l, d, newsize) ==
  LET cut == IF File(m, l).size > newsize THEN file_truncate(m, l, newsize) ELSE m
  IN  Return(flush_dir(SetSize(cut, l, newsize), d), 0)

file_close(m, l, d) == flush_dir(file_flush(m, l), d)

fs_sync(m) ==
  Loop(LAMBDA n, b : IF block_is_dirty(n, b) THEN write_block(n, b) ELSE n, m, 1, NBLOCKS)

-----------------------------------------------------------------------------
(***************************************************************************)
(* Directories and paths.                                                  *)
(***************************************************************************)
nblock(m, d) == File(m, d).size \div BY2BLK

\* The search of dir_lookup and of dir_alloc_file: the first slot of d that
\* holds the name, blocks that d lacks being allocated on the way.
scan(m, d, name) ==
  LET look(g) ==
        LET S == {s \in Slots : AsDir(g.cache[g.r])[s].name = name} IN
        IF S = {} THEN Return(g, -E_NOT_FOUND) ELSE Return([g EXCEPT !.loc = <<g.r, Min(S)>>], 0)
  IN  Loop(LAMBDA n, i : IF n.r = -E_NOT_FOUND THEN Then(file_get_block(n, d, i), look) ELSE n,
           Return(m, -E_NOT_FOUND), 0, nblock(m, d))

dir_lookup(m, d, name) == scan(m, d, name)

\* The size of the directory grows before the block for it is found.
grow_dir(m, d) ==
  IF m.r # -E_NOT_FOUND THEN m
  ELSE Then(file_get_block(SetSize(m, d, File(m, d).size + BY2BLK), d, nblock(m, d)),
            LAMBDA g : Return([g EXCEPT !.loc = <<g.r, 1>>], 0))

dir_alloc_file(m, d) == grow_dir(scan(m, d, ""), d)

\* m.loc is the file; m.par its directory, also if only the last name is missing.
SetPar(m, d, last) ==
  [m EXCEPT !.par = IF m.r = 0 \/ (m.r = -E_NOT_FOUND /\ last) THEN d ELSE NIL]

walk_path(m, path) ==
  Loop(LAMBDA n, i :
         IF n.r < 0 THEN n
         ELSE IF File(n, n.loc).type # FTYPE_DIR THEN SetPar(Return(n, -E_NOT_FOUND), NIL, FALSE)
         ELSE SetPar(dir_lookup(n, n.loc, path[i]), n.loc, i = Len(path)),
       [m EXCEPT !.r = 0, !.loc = ROOT, !.par = NIL], 1, Len(path) + 1)

file_open(m, path) == walk_path(m, path)

\* Whatever dir_alloc_file fails with, the caller of file_create gets an error.
new_file(w, name, type) ==
  Then(dir_alloc_file(w, w.par), LAMBDA a :
    SetFile(a, a.loc, [File(a, a.loc) EXCEPT !.name = name, !.type = type]))

create_at(w, name, type) ==
  IF w.r = 0 THEN Return(w, -E_FILE_EXISTS)
  ELSE IF w.r # -E_NOT_FOUND \/ w.par = NIL THEN w
  ELSE new_file(w, name, type)

file_create(m, path, type) == create_at(walk_path(m, path), path[Len(path)], type)

file_remove(m, path) ==
  LET unname(t, l) == SetFile(t, l, [File(t, l) EXCEPT !.name = ""])
  IN  Then(walk_path(m, path), LAMBDA w :
        Return(file_close(unname(file_truncate(w, w.loc, 0), w.loc), w.loc, w.par), 0))

-----------------------------------------------------------------------------
(***************************************************************************)
(* What programs do through user/lib/file.c: each step is one request.     *)
(* They keep to one descriptor per file at a time, write, truncate and     *)
(* remove regular files only, and remove no file they have open.           *)
(***************************************************************************)
Become(m) ==
  /\ cache' = m.cache
  /\ unsaved' = m.unsaved
  /\ dirty' = m.dirty
  /\ panic' = m.panic

\* What is in block b now; past the end of the disk there is nothing.
Content(b) == IF b \notin Blocks THEN Word(0) ELSE IF cache[b] = NIL THEN Image[b] ELSE cache[b]

FileAt(l) == AsDir(Content(l[1]))[l[2]]

\* The number file l holds for its block bno, 0 if none.
BlockOf(l, bno) ==
  IF bno < NDIRECT THEN FileAt(l).ptr[bno]
  ELSE IF FileAt(l).ind = 0 THEN 0 ELSE AsPtr(Content(FileAt(l).ind))[bno]

InSize(l, bno) == bno * BY2BLK < FileAt(l).size

\* The blocks of l from block bno on are blank.
Blanked(l, bno) ==
  \A i \in bno .. NINDIRECT - 1 : BlockOf(l, i) # 0 => WordOf(Content(BlockOf(l, i))) = 0

InUse(l) == ~panic /\ l \in DOMAIN fds /\ fds[l].marked = 0

\* The kernel may have no page for any of the blocks that a request can need one for.
Mem == {Blocks \ S : S \in SUBSET {b \in cache[BITMAP].free : cache[b] = NIL}}

create(path, type) ==
  /\ ~panic
  /\ \E mem \in Mem : Become(file_create(Memory(mem), path, type))
  /\ UNCHANGED fds

open(path) ==
  /\ ~panic
  /\ \E m \in {file_open(Memory(mem), path) : mem \in Mem} :
       /\ m.r = 0 => m.loc \notin DOMAIN fds /\ Cardinality(DOMAIN fds) < MaxOpen
       /\ Become(m)
       /\ fds' = IF m.r = 0 THEN [l \in DOMAIN fds \cup {m.loc} |->
                                      IF l = m.loc THEN [dir |-> m.par, marked |-> 0] ELSE fds[l]]
                  ELSE fds

map(l, bno) ==
  /\ InUse(l) /\ InSize(l, bno)
  /\ \E mem \in Mem : Become(file_get_block(Memory(mem), l, bno))
  /\ UNCHANGED fds

\* A store by the program, into a block of the cache that it has mapped.
write(l, bno, w) ==
  /\ InUse(l) /\ InSize(l, bno) /\ FileAt(l).type = FTYPE_REG
  /\ block_is_mapped(Memory(Blocks), BlockOf(l, bno))
  /\ Become([Memory(Blocks) EXCEPT !.cache[BlockOf(l, bno)] = Word(w),
                                   !.unsaved = @ \cup {BlockOf(l, bno)}])
  /\ UNCHANGED fds

set_size(l, newsize) ==
  /\ InUse(l) /\ FileAt(l).type = FTYPE_REG
  /\ Careful => newsize >= FileAt(l).size \/ Blanked(l, new_nblocks(newsize))
  /\ Become(file_set_size(Memory(Blocks), l, fds[l].dir, newsize))
  /\ UNCHANGED fds

\* file_close of user/lib: FSREQ_DIRTY for every block, then FSREQ_CLOSE.
mark(l) ==
  /\ ~panic /\ l \in DOMAIN fds /\ InSize(l, fds[l].marked)
  /\ Become(file_dirty(Memory(Blocks), l, fds[l].marked))
  /\ fds' = [fds EXCEPT ![l].marked = @ + 1]

\* The program's idea of the size of a directory may be older.
close(l) ==
  /\ ~panic /\ l \in DOMAIN fds
  /\ InSize(l, fds[l].marked) => FileAt(l).type = FTYPE_DIR
  /\ Become(file_close(Memory(Blocks), l, fds[l].dir))
  /\ fds' = [f \in DOMAIN fds \ {l} |-> fds[f]]

remove(path) ==
  /\ ~panic
  /\ \E mem \in Mem : \E w \in {walk_path(Memory(mem), path)} :
       /\ w.r = 0 => /\ w.loc \notin DOMAIN fds /\ File(w, w.loc).type = FTYPE_REG
                     /\ Careful => Blanked(w.loc, 0)
       /\ Become(file_remove(Memory(mem), path))
  /\ UNCHANGED fds

sync ==
  /\ ~panic
  /\ Become(fs_sync(Memory(Blocks)))
  /\ UNCHANGED fds

\* fs_init has read the super block and the bitmap.
Init ==
  /\ cache = [b \in Blocks |-> IF b \in {SUPER, BITMAP} THEN Image[b] ELSE NIL]
  /\ unsaved = {}
  /\ dirty = {}
  /\ fds = [l \in {} |-> 0]
  /\ panic = FALSE

Next ==
  \/ \E path \in Paths, type \in {FTYPE_REG, FTYPE_DIR} : create(path, type)
  \/ \E path \in Paths : open(path)
  \/ \E l \in DOMAIN fds, bno \in 0 .. NINDIRECT : map(l, bno)
  \/ \E l \in DOMAIN fds, bno \in 0 .. NINDIRECT - 1, w \in Words : write(l, bno, w)
  \/ \E l \in DOMAIN fds, size \in Sizes : set_size(l, size)
  \/ \E l \in DOMAIN fds : mark(l)
  \/ \E l \in DOMAIN fds : close(l)
  \/ \E path \in Paths : remove(path)
  \/ sync

Spec == Init /\ [][Next]_vars

-----------------------------------------------------------------------------
(***************************************************************************)
(* Properties.                                                             *)
(***************************************************************************)
\* Every file, named or not: the slots of the blocks of the root directory, of the
\* directories there, and so on.
SlotsOf(D) == Locs \cap ({BlockOf(x[1], x[2]) : x \in D \X (0 .. NINDIRECT - 1)} \X Slots)
Below(D)   == SlotsOf({ROOT} \cup {l \in D : FileAt(l).type = FTYPE_DIR})
closure[D \in SUBSET Locs] == LET more == Below(D) \ D IN IF more = {} THEN D ELSE closure[D \cup more]
Files      == closure[{}]
Regular == {l \in Files : FileAt(l).type = FTYPE_REG /\ FileAt(l).name # ""}

\* The places that hold block numbers (the last one is f_indirect), with them.
Places ==
  {<<l, i, BlockOf(l, i)>> : l \in {ROOT} \cup Files, i \in 0 .. NINDIRECT - 1}
    \cup {<<l, NINDIRECT, FileAt(l).ind>> : l \in {ROOT} \cup Files}
Owned == {x \in Places : x[3] # 0}
InUseBlocks == (BITMAP + 1 .. NBLOCKS - 1) \ Content(BITMAP).free

\* Every variable keeps its type, and only blocks in the cache are dirty or unsaved.
TypeOK ==
  /\ cache \in [Blocks -> Contents \cup {NIL}]
  /\ unsaved \cup dirty \subseteq {b \in Blocks : cache[b] # NIL}
  /\ DOMAIN fds \subseteq Locs
  /\ \A l \in DOMAIN fds : fds[l].dir \in Locs \cup {NIL} /\ fds[l].marked \in Nat
  /\ panic \in BOOLEAN

\* No block has two owners, and none that has one is free: neither a file nor
\* an index nor a directory is ever laid over another one, also where growing
\* it stops half way because the disk or the memory is full.
BlocksOwnedOnce ==
  LET owned == Owned
      blocks == {x[3] : x \in owned}
  IN  blocks \subseteq InUseBlocks /\ Cardinality(blocks) = Cardinality(owned)

\* Every block in use has an owner: truncating, removing and failing leak none.
NoBlockLost == InUseBlocks \subseteq {x[3] : x \in Owned}

\* read_block never finds that the block it is to read is free or does not
\* exist, and so never panics (fs.c:96 and fs.c:105).
NoPanic == ~panic

\* The data of a file that nobody has open is on disk: close marks and writes
\* every block, whatever happened to the file while it was open.
ClosedDataOnDisk ==
  \A l \in Regular \ DOMAIN fds, bno \in 0 .. NINDIRECT - 1 :
    InSize(l, bno) => BlockOf(l, bno) \notin unsaved

\* What a file is: its size, and what is in its blocks.
View(l) == [size |-> FileAt(l).size,
            data |-> [bno \in 0 .. NINDIRECT - 1 |->
                        IF BlockOf(l, bno) = 0 THEN NIL ELSE Content(BlockOf(l, bno))]]

\* A request changes at most one of the files that exist before and after it:
\* no data moves, and nothing that is stored or cut off belongs to another.
OneFilePerStep ==
  [][cache' # cache =>
       Cardinality({l \in Regular \cap Regular' : View(l)' # View(l)}) <= 1]_vars
=============================================================================
