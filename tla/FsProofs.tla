------------------------------ MODULE FsProofs ------------------------------
(***************************************************************************)
(* Proofs about Fs, for any number of blocks, direct and indirect numbers, *)
(* slots, names, paths, words and sizes: what the functions of fs/fs.c do  *)
(* to the disk and to the cache, an inductive invariant of the requests,   *)
(* and from it the types, that no block is owned twice or lost, that what  *)
(* a closed file holds is on disk and that a request changes one file at   *)
(* most.                                                                   *)
(*                                                                         *)
(* The theorems are about programs that blank a block before they give it  *)
(* up (Careful).  Others get a block that alloc_block has not cleared, as  *)
(* an index of numbers that are data, and the server may panic: that is    *)
(* not excluded here, and run fs_reuse shows it.                           *)
(***************************************************************************)
EXTENDS Fs, FiniteSetTheorems, NaturalsInduction, TLAPS

-----------------------------------------------------------------------------
(***************************************************************************)
(* Sizes in blocks of B.                                                   *)
(***************************************************************************)
\* What does not hang over is a whole number of blocks.
LEMMA WholeBlocks ==
  ASSUME NEW B \in Nat, B > 0, NEW s \in Nat, B * (s \div B) = s
  PROVE  B * ((s + B) \div B) = s + B /\ (s + B) \div B = s \div B + 1
<1>1. (s + B) \div B = s \div B + 1
  OBVIOUS
<1>2. s \div B \in Nat
  OBVIOUS
<1>3. B * (s \div B + 1) = B * (s \div B) + B
  BY <1>2
<1> QED BY <1>1, <1>3

\* A size in whole blocks is a number.
LEMMA DivType ==
  ASSUME NEW B \in Nat, B > 0, NEW s \in Nat
  PROVE  s \div B \in Nat
OBVIOUS

\* A larger file has no fewer blocks.
LEMMA DivGrows ==
  ASSUME NEW B \in Nat, B > 0, NEW s \in Nat, NEW t \in Nat, s <= t
  PROVE  s \div B <= t \div B
OBVIOUS

\* The block of a byte below s is the last one of s at most, and before it if s
\* is a whole number of blocks.
LEMMA InLast ==
  ASSUME NEW B \in Nat, B > 0, NEW s \in Nat, NEW i \in Nat, i * B < s
  PROVE  i <= s \div B /\ (B * (s \div B) = s => i < s \div B)
<1>1. i <= s \div B
  OBVIOUS
<1>2. ASSUME B * (s \div B) = s PROVE i < s \div B
  BY <1>2
<1> QED BY <1>1, <1>2

\* A block within a size is before one that is not.
LEMMA FewerBlocks ==
  ASSUME NEW B \in Nat, B > 0, NEW s \in Nat, NEW i \in Nat, NEW j \in Nat, i * B < s, ~(j * B < s)
  PROVE  i < j
OBVIOUS

-----------------------------------------------------------------------------
(***************************************************************************)
(* What the disk is: the contents of the blocks, c, those in the cache and *)
(* those that have not been read yet.                                      *)
(***************************************************************************)
Data  == BITMAP + 1 .. NBLOCKS - 1
Idx   == 0 .. NINDIRECT - 1
Held  == 0 .. NINDIRECT       \* the numbers a file holds; the last one is f_indirect
Conts == [Blocks -> Contents]

Cont(m) == [b \in Blocks |-> IF m.cache[b] = NIL THEN Image[b] ELSE m.cache[b]]

In(c, b)     == IF b \in Blocks THEN c[b] ELSE Word(0)
Rec(c, l)    == AsDir(c[l[1]])[l[2]]
Num(c, l, i) == IF i < NDIRECT THEN Rec(c, l).ptr[i]
                ELSE IF Rec(c, l).ind = 0 THEN 0 ELSE AsPtr(In(c, Rec(c, l).ind))[i]
At(c, l, i)  == IF i = NINDIRECT THEN Rec(c, l).ind ELSE Num(c, l, i)
FreeOf(c)    == c[BITMAP].free

\* The least set of files that has the root, and the slots of its directories.
IsDir(c, l)  == Rec(c, l).type = FTYPE_DIR
Kids(c, l)   == {x \in Locs : \E i \in Idx : Num(c, l, i) = x[1]}
Closed(c, D) == ROOT \in D /\ \A l \in D : IsDir(c, l) => Kids(c, l) \subseteq D
AllOf(c)     == {l \in Locs : \A D \in SUBSET Locs : Closed(c, D) => l \in D}

-----------------------------------------------------------------------------
(***************************************************************************)
(* The inductive invariant, of the disk.  X are blocks that alloc_block    *)
(* has handed out and that nobody owns yet; there are none between steps.  *)
(***************************************************************************)
\* The super block has the root, the bitmap its bits, and no other block less than
\* a full set of slots if it has slots.
Boot(c) ==
  /\ c \in Conts
  /\ c[SUPER].k = "dir" /\ c[SUPER].f \in [{1} -> FileRecs]
  /\ IsDir(c, ROOT) /\ Rec(c, ROOT).name # ""
  /\ c[BITMAP].k = "bits" /\ FreeOf(c) \subseteq Data
  /\ \A b \in Data : c[b].k = "dir" => c[b].f \in [Slots -> FileRecs]

\* A number in a file is that of a block in use; it is there once; and every block in
\* use is in a file.
Owns(c, X) == \A l \in AllOf(c), i \in Held : At(c, l, i) # 0 => At(c, l, i) \in Data \ (FreeOf(c) \cup X)
Once(c)    == \A l, k \in AllOf(c), i, j \in Held :
                At(c, l, i) # 0 /\ At(c, l, i) = At(c, k, j) => l = k /\ i = j
Kept(c, X) == \A b \in Data \ (FreeOf(c) \cup X) : \E l \in AllOf(c), i \in Held : At(c, l, i) = b

\* Blocks that nobody owns are blank: what alloc_block hands out can be an index with
\* no numbers or slots of no files.
Blank(c, X) == X \subseteq Data \ FreeOf(c) /\ \A b \in FreeOf(c) \cup X : c[b] = Word(0)

\* Every block is read as what it was written as.
DirBlock(x) == x = Word(0) \/ x.k = "dir"
PtrBlock(x) == \/ x = Word(0)
               \/ /\ x.k = "ptr" /\ (\A i \in 0 .. NDIRECT - 1 : x.p[i] = 0)
                  /\ \E i \in Idx : x.p[i] # 0
Kind(c, l)  ==
  /\ Rec(c, l).type \in {FTYPE_REG, FTYPE_DIR}
  /\ \A i \in Idx : Num(c, l, i) # 0 => IF IsDir(c, l) THEN DirBlock(c[Num(c, l, i)]) ELSE c[Num(c, l, i)].k = "word"
  /\ Rec(c, l).ind # 0 => PtrBlock(c[Rec(c, l).ind])
Kinds(c)    == \A l \in AllOf(c) : Kind(c, l)

\* No number lies behind the size: truncation starts at the size, and dir_alloc_file
\* takes the block there for a new one.
Low(i)        == IF i = NINDIRECT THEN NDIRECT ELSE i
Whole(s)      == BY2BLK * (s \div BY2BLK) = s
Room(c, l, i) == IF IsDir(c, l) THEN Low(i) < Rec(c, l).size \div BY2BLK
                                ELSE Low(i) <= Rec(c, l).size \div BY2BLK
Sized(c)      == \A l \in AllOf(c) : /\ IsDir(c, l) => Whole(Rec(c, l).size)
                                     /\ \A i \in Held : At(c, l, i) # 0 => Room(c, l, i)

\* A slot whose name is blank has no blocks.
Empty(c, l) == Rec(c, l).size = 0 /\ \A i \in Held : At(c, l, i) = 0
Named(c)    == \A l \in AllOf(c) \ {ROOT} : /\ Rec(c, l).name \in Names \cup {""}
                                            /\ Rec(c, l).name = "" => Empty(c, l)

Sound(c, X) == /\ Boot(c) /\ Owns(c, X) /\ Once(c) /\ Kept(c, X) /\ Blank(c, X)
               /\ Kinds(c) /\ Sized(c) /\ Named(c)

-----------------------------------------------------------------------------
(***************************************************************************)
(* Types.                                                                  *)
(***************************************************************************)
LEMMA Numbers ==
  /\ NBLOCKS \in Nat /\ NBLOCKS > 4 /\ BY2BLK \in Nat /\ BY2BLK > 0 /\ FILE2BLK \in Nat /\ FILE2BLK > 0
  /\ NDIRECT \in Nat /\ NDIRECT > 0 /\ NINDIRECT \in Nat /\ NINDIRECT >= NDIRECT
BY FsAssumption

\* Where the super block, the bitmap and the root are.
LEMMA BlockSets ==
  /\ SUPER \in Blocks /\ BITMAP \in Blocks /\ Data \subseteq Blocks /\ SUPER \notin Data /\ BITMAP \notin Data
  /\ 0 \notin Blocks /\ Blocks \subseteq Nat /\ SUPER # BITMAP /\ 1 \in Slots /\ ROOT \in Locs
  /\ \A b \in Blocks : b < NBLOCKS /\ (b = SUPER \/ b = BITMAP \/ b \in Data)
BY Numbers DEF Blocks, Data, SUPER, BITMAP, Slots, ROOT, Locs

\* The two types of a file differ.
LEMMA Types == FTYPE_REG # FTYPE_DIR
BY DEF FTYPE_REG, FTYPE_DIR

\* The block and the slot of a file.
LEMMA PlaceOf ==
  ASSUME NEW l \in Locs
  PROVE  /\ l = <<l[1], l[2]>> /\ l[1] \in Blocks /\ l[2] \in Slots /\ l[1] # BITMAP
         /\ l[1] = SUPER => l = ROOT
         /\ l # ROOT => l[1] \in Data
         /\ l = ROOT => l[1] = SUPER /\ l[2] = 1
<1>1. ROOT[1] = SUPER /\ ROOT[2] = 1
  BY DEF ROOT
<1>2. CASE l = ROOT
  <2>1. l = <<l[1], l[2]>>
    BY <1>2 DEF ROOT
  <2> QED BY <1>1, <1>2, <2>1, BlockSets
<1>3. CASE l \in (BITMAP + 1 .. NBLOCKS - 1) \X Slots
  <2>1. l = <<l[1], l[2]>> /\ l[1] \in Data /\ l[2] \in Slots
    BY <1>3 DEF Data
  <2>2. l[1] \in Blocks /\ l[1] # SUPER /\ l[1] # BITMAP
    BY <2>1, BlockSets
  <2>3. l # ROOT
    BY <2>2, <1>1
  <2> QED BY ONLY <2>1, <2>2, <2>3
<1> QED BY <1>2, <1>3 DEF Locs, ROOT

\* Every slot of a data block is a place for a file.
LEMMA MakePlace ==
  ASSUME NEW b \in Data, NEW s \in Slots
  PROVE  <<b, s>> \in Locs /\ <<b, s>> # ROOT
BY BlockSets DEF Locs, Data, ROOT

\* What the constructors make are contents.
LEMMA ContentKinds ==
  /\ \A w \in Nat : Word(w) \in Contents
  /\ \A f \in [Slots -> FileRecs] : Dir(f) \in Contents
  /\ \A f \in [{1} -> FileRecs] : Dir(f) \in Contents
  /\ \A S \in SUBSET Blocks : Bits(S) \in Contents
  /\ \A p \in [Idx -> Nat] : Ptr(p) \in Contents
<1>1. \A w \in Nat : Word(w) \in Contents
  BY DEF Word, Contents
<1>2. \A f \in [Slots -> FileRecs] : Dir(f) \in Contents
  BY DEF Dir, Contents
<1>3. \A f \in [{1} -> FileRecs] : Dir(f) \in Contents
  BY DEF Dir, Contents
<1>4. \A S \in SUBSET Blocks : Bits(S) \in Contents
  BY DEF Bits, Contents
<1>5. \A p \in [Idx -> Nat] : Ptr(p) \in Contents
  BY <1>1 DEF Ptr, Contents, Idx
<1> QED BY <1>1, <1>2, <1>3, <1>4, <1>5

\* A block is read as words that are numbers.
LEMMA WordType ==
  ASSUME NEW x \in Contents
  PROVE  WordOf(x) \in Nat
BY Numbers DEF Contents, WordOf

\* A struct File read from words is one.
LEMMA FileOfType ==
  ASSUME NEW w \in Nat
  PROVE  FileOf(w) \in FileRecs
BY DEF FileOf, FileRecs

\* Any block but the super block and the bitmap is read as a full set of slots.
LEMMA AsDirType ==
  ASSUME NEW x \in Contents, x.k = "dir" => x.f \in [Slots -> FileRecs]
  PROVE  AsDir(x) \in [Slots -> FileRecs]
BY WordType, FileOfType DEF AsDir

\* Any block is read as numbers.
LEMMA AsPtrType ==
  ASSUME NEW x \in Contents
  PROVE  AsPtr(x) \in [Idx -> Nat]
<1>1. CASE x.k = "ptr"
  <2>1. x.p \in [Idx -> Nat]
    BY <1>1 DEF Contents, Idx
  <2> QED BY <1>1, <2>1 DEF AsPtr
<1>2. CASE x.k # "ptr"
  BY <1>2, WordType DEF AsPtr, Idx
<1> QED BY <1>1, <1>2

\* There is something at every number, also past the end of the disk.
LEMMA InType ==
  ASSUME NEW c \in Conts, NEW b
  PROVE  In(c, b) \in Contents
BY ContentKinds DEF In, Conts

\* The types of the fields of a struct File.
LEMMA RecFields ==
  ASSUME NEW f \in FileRecs
  PROVE  /\ f.size \in Nat /\ f.type \in Nat /\ f.ind \in Nat /\ f.ptr \in [0 .. NDIRECT - 1 -> Nat]
         /\ f.name \in Names \cup {"", "junk", "/"}
BY DEF FileRecs

\* There is a struct File at every place.
LEMMA RecType ==
  ASSUME NEW c, Boot(c), NEW l \in Locs
  PROVE  Rec(c, l) \in FileRecs
<1>1. c \in Conts
  BY DEF Boot
<1>2. CASE l = ROOT
  <2>1. AsDir(c[SUPER]) = c[SUPER].f
    BY DEF Boot, AsDir
  <2> QED BY <1>2, <2>1 DEF Rec, Boot, ROOT
<1>3. CASE l # ROOT
  <2>1. l[1] \in Data /\ l[2] \in Slots
    BY <1>3, PlaceOf
  <2>2. c[l[1]] \in Contents /\ (c[l[1]].k = "dir" => c[l[1]].f \in [Slots -> FileRecs])
    BY <1>1, <2>1, BlockSets DEF Boot, Conts
  <2>3. AsDir(c[l[1]]) \in [Slots -> FileRecs]
    BY <2>2, AsDirType
  <2> QED BY <2>1, <2>3 DEF Rec
<1> QED BY <1>2, <1>3

\* The numbers of a file are numbers.
LEMMA NumType ==
  ASSUME NEW c, Boot(c), NEW l \in Locs, NEW i \in Idx
  PROVE  Num(c, l, i) \in Nat
<1>1. Rec(c, l).ind \in Nat /\ Rec(c, l).ptr \in [0 .. NDIRECT - 1 -> Nat]
  BY RecType, RecFields
<1>2. AsPtr(In(c, Rec(c, l).ind)) \in [Idx -> Nat]
  BY InType, AsPtrType DEF Boot
<1>3. CASE i < NDIRECT
  <2>1. i \in 0 .. NDIRECT - 1
    BY <1>3, Numbers DEF Idx
  <2> QED BY <1>1, <1>3, <2>1 DEF Num
<1>4. CASE ~(i < NDIRECT)
  BY <1>2, <1>4 DEF Num
<1> QED BY <1>3, <1>4

\* The numbers of a file: those of its blocks, and f_indirect.
LEMMA HeldIs ==
  /\ NINDIRECT \in Held /\ NINDIRECT \notin Idx /\ Idx \subseteq Held
  /\ \A i \in Held : i = NINDIRECT \/ i \in Idx
  /\ \A c, l : At(c, l, NINDIRECT) = Rec(c, l).ind
  /\ \A c, l : \A i \in Idx : At(c, l, i) = Num(c, l, i)
<1>1. NINDIRECT \in Held /\ NINDIRECT \notin Idx /\ Idx \subseteq Held
  BY Numbers DEF Held, Idx
<1>2. \A i \in Held : i = NINDIRECT \/ i \in Idx
  BY Numbers DEF Held, Idx
<1>3. \A c, l : \A i \in Idx : At(c, l, i) = Num(c, l, i)
  BY <1>1 DEF At
<1> QED BY <1>1, <1>2, <1>3 DEF At

-----------------------------------------------------------------------------
(***************************************************************************)
(* The files.                                                              *)
(***************************************************************************)
LEMMA AllIn ==
  ASSUME NEW c
  PROVE  AllOf(c) \subseteq Locs /\ ROOT \in AllOf(c)
BY BlockSets DEF AllOf, Closed

\* The slots of a directory are among all files.
LEMMA AllClosed ==
  ASSUME NEW c
  PROVE  Closed(c, AllOf(c))
<1>1. ASSUME NEW l \in AllOf(c), IsDir(c, l), NEW x \in Kids(c, l) PROVE x \in AllOf(c)
  <2>1. ASSUME NEW D \in SUBSET Locs, Closed(c, D) PROVE x \in D
    BY <1>1, <2>1 DEF AllOf, Closed
  <2>2. x \in Locs
    BY <1>1 DEF Kids
  <2> QED BY <2>1, <2>2 DEF AllOf
<1> QED BY <1>1, AllIn DEF Closed

\* Every set with the root and the slots of its directories has all files.
LEMMA AllLeast ==
  ASSUME NEW c, NEW D \in SUBSET Locs, Closed(c, D)
  PROVE  AllOf(c) \subseteq D
BY DEF AllOf

\* Every file but the root is in a block of a directory.
LEMMA InDirectory ==
  ASSUME NEW c, NEW l \in AllOf(c), l # ROOT
  PROVE  \E d \in AllOf(c) : IsDir(c, d) /\ \E i \in Idx : Num(c, d, i) = l[1]
<1> SUFFICES ASSUME \A d \in AllOf(c) : IsDir(c, d) => \A i \in Idx : Num(c, d, i) # l[1] PROVE FALSE
  OBVIOUS
<1> DEFINE D == AllOf(c) \ {l}
<1>1. D \in SUBSET Locs /\ ROOT \in D
  BY AllIn
<1>2. ASSUME NEW d \in D, IsDir(c, d), NEW x \in Kids(c, d) PROVE x \in D
  <2>1. x \in AllOf(c)
    BY <1>2, AllClosed DEF Closed
  <2>2. x # l
    BY <1>2 DEF Kids
  <2> QED BY <2>1, <2>2
<1>3. Closed(c, D)
  BY <1>1, <1>2 DEF Closed
<1>4. l \in D
  BY <1>1, <1>3, AllLeast
<1> QED BY <1>4

\* The slots of a directory's block are files.
LEMMA SlotIsFile ==
  ASSUME NEW c, NEW d \in AllOf(c), IsDir(c, d), NEW i \in Idx, NEW x \in Locs, Num(c, d, i) = x[1]
  PROVE  x \in AllOf(c)
<1>1. x \in Kids(c, d)
  BY DEF Kids
<1> QED BY <1>1, AllClosed DEF Closed

-----------------------------------------------------------------------------
(***************************************************************************)
(* Stores into the disk's structures.                                      *)
(***************************************************************************)
PutRec(c, l, f)    == [c EXCEPT ![l[1]] = Dir([AsDir(c[l[1]]) EXCEPT ![l[2]] = f])]
PutInd(c, q, j, b) == [c EXCEPT ![q] = Ptr([AsPtr(c[q]) EXCEPT ![j] = b])]
PutFree(c, S)      == [c EXCEPT ![BITMAP] = Bits(S)]
Put(c, l, i, b)    == IF i = NINDIRECT THEN PutRec(c, l, [Rec(c, l) EXCEPT !.ind = b])
                      ELSE IF i < NDIRECT THEN PutRec(c, l, [Rec(c, l) EXCEPT !.ptr[i] = b])
                      ELSE PutInd(c, Rec(c, l).ind, i, b)

\* A struct File is stored in its slot; all others are as before.
Stored(c, c2, l, f) ==
  /\ c2 \in Conts
  /\ \A k \in Locs : Rec(c2, k) = IF k = l THEN f ELSE Rec(c, k)
  /\ \A b \in Blocks : b # l[1] => c2[b] = c[b]
  /\ c2[l[1]].k = "dir"
  /\ l # ROOT => c2[l[1]].f \in [Slots -> FileRecs]
  /\ l = ROOT => c2[l[1]].f \in [{1} -> FileRecs]

\* A store of a struct File changes this one and its block only.
LEMMA StoreRec ==
  ASSUME NEW c, Boot(c), NEW l \in Locs, NEW f \in FileRecs
  PROVE  Stored(c, PutRec(c, l, f), l, f)
<1>1. PICK c2 : c2 = PutRec(c, l, f)
  OBVIOUS
<1>2. PICK g : g = AsDir(c[l[1]])
  OBVIOUS
<1>3. PICK h : h = [g EXCEPT ![l[2]] = f]
  OBVIOUS
<1>4. /\ c \in Conts /\ l[1] \in Blocks /\ l[2] \in Slots /\ (l # ROOT => l[1] \in Data) /\ (l[1] = SUPER => l = ROOT)
      /\ (l = ROOT => l[1] = SUPER /\ l[2] = 1)
  BY PlaceOf DEF Boot
<1>5. l # ROOT => g \in [Slots -> FileRecs]
  BY <1>2, <1>4, AsDirType, BlockSets DEF Boot, Conts
<1>6. l = ROOT => g \in [{1} -> FileRecs]
  <2>1. l = ROOT => g = c[SUPER].f
    BY <1>2, <1>4 DEF AsDir, Boot
  <2> QED BY <2>1 DEF Boot
<1>7. (l # ROOT => h \in [Slots -> FileRecs]) /\ (l = ROOT => h \in [{1} -> FileRecs])
  BY <1>3, <1>4, <1>5, <1>6
<1>8. Dir(h) \in Contents /\ Dir(h).k = "dir" /\ Dir(h).f = h /\ AsDir(Dir(h)) = h
  BY <1>7, ContentKinds DEF Dir, AsDir
<1>9. c2 = [c EXCEPT ![l[1]] = Dir(h)]
  BY <1>1, <1>2, <1>3 DEF PutRec
<1>10. c2 \in Conts /\ c2[l[1]] = Dir(h) /\ \A b \in Blocks : b # l[1] => c2[b] = c[b]
  BY <1>4, <1>8, <1>9 DEF Conts
<1>11. ASSUME NEW k \in Locs PROVE Rec(c2, k) = IF k = l THEN f ELSE Rec(c, k)
  <2>1. k = <<k[1], k[2]>> /\ l = <<l[1], l[2]>> /\ k[1] \in Blocks /\ k[2] \in Slots /\ (k[1] = SUPER => k = ROOT)
    BY PlaceOf
  <2>2. CASE k[1] # l[1]
    BY <1>10, <2>1, <2>2 DEF Rec
  <2>3. CASE k[1] = l[1]
    <3>1. Rec(c2, k) = h[k[2]] /\ Rec(c, k) = g[k[2]]
      BY <1>2, <1>8, <1>10, <2>3 DEF Rec
    <3>2. CASE l = ROOT
      <4>1. k = l
        BY <1>4, <2>1, <2>3, <3>2
      <4>2. h[l[2]] = f
        BY <1>3, <1>4, <1>6, <3>2
      <4> QED BY <3>1, <4>1, <4>2
    <3>3. CASE l # ROOT
      <4>1. h[k[2]] = IF k[2] = l[2] THEN f ELSE g[k[2]]
        BY <1>3, <1>5, <2>1, <3>3
      <4>2. k[2] = l[2] <=> k = l
        BY <2>1, <2>3
      <4> QED BY <3>1, <4>1, <4>2
    <3> QED BY <3>2, <3>3
  <2> QED BY <2>2, <2>3
<1>12. Stored(c, c2, l, f)
  BY <1>7, <1>8, <1>10, <1>11 DEF Stored
<1> QED BY <1>1, <1>12

\* The disk stays one that can be read.
LEMMA StoreBoot ==
  ASSUME NEW c, Boot(c), NEW l \in Locs, NEW f \in FileRecs, l = ROOT => f.type = FTYPE_DIR /\ f.name # "",
         NEW c2, Stored(c, c2, l, f)
  PROVE  Boot(c2) /\ c2[BITMAP] = c[BITMAP]
<1>1. l[1] \in Blocks /\ l[1] # BITMAP /\ (l # ROOT => l[1] \in Data) /\ (l = ROOT => l[1] = SUPER)
  BY PlaceOf
<1>2. c2[BITMAP] = c[BITMAP]
  BY <1>1, BlockSets DEF Stored
<1>3. c2[SUPER].k = "dir" /\ c2[SUPER].f \in [{1} -> FileRecs]
  <2>1. CASE l = ROOT
    BY <1>1, <2>1 DEF Stored
  <2>2. CASE l # ROOT
    <3>1. c2[SUPER] = c[SUPER]
      BY <1>1, <2>2, BlockSets DEF Stored
    <3> QED BY <3>1 DEF Boot
  <2> QED BY <2>1, <2>2
<1>4. IsDir(c2, ROOT) /\ Rec(c2, ROOT).name # ""
  BY BlockSets DEF Stored, Boot, IsDir
<1>5. ASSUME NEW b \in Data, c2[b].k = "dir" PROVE c2[b].f \in [Slots -> FileRecs]
  <2>1. CASE b = l[1]
    <3>1. l # ROOT
      BY <1>1, <2>1, BlockSets
    <3> QED BY <2>1, <3>1 DEF Stored
  <2>2. CASE b # l[1]
    <3>1. c2[b] = c[b]
      BY <2>2, BlockSets DEF Stored
    <3> QED BY <3>1, <1>5 DEF Boot
  <2> QED BY <2>1, <2>2
<1>6. c2 \in Conts /\ c2[BITMAP].k = "bits" /\ FreeOf(c2) \subseteq Data
  BY <1>2 DEF Stored, Boot, FreeOf
<1> QED BY <1>2, <1>3, <1>4, <1>5, <1>6 DEF Boot

\* A number is stored in an index.
LEMMA StoreInd ==
  ASSUME NEW c, Boot(c), NEW q \in Data, PtrBlock(c[q]), NEW j \in NDIRECT .. NINDIRECT - 1, NEW b \in Nat,
         NEW c2, c2 = PutInd(c, q, j, b)
  PROVE  /\ c2 \in Conts /\ PtrBlock(c2[q])
         /\ \A x \in Blocks : x # q => c2[x] = c[x]
         /\ \A k \in Idx : AsPtr(c2[q])[k] = IF k = j THEN b ELSE AsPtr(c[q])[k]
<1>1. PICK p : p = AsPtr(c[q])
  OBVIOUS
<1>2. PICK p2 : p2 = [p EXCEPT ![j] = b]
  OBVIOUS
<1>3. c \in Conts /\ q \in Blocks /\ c[q] \in Contents
  BY BlockSets DEF Boot, Conts
<1>4. p \in [Idx -> Nat]
  BY <1>1, <1>3, AsPtrType
<1>5. p2 \in [Idx -> Nat] /\ \A k \in Idx : p2[k] = IF k = j THEN b ELSE p[k]
  BY <1>2, <1>4
<1>6. Ptr(p2) \in Contents
  BY <1>5, ContentKinds
<1>7. c2 = [c EXCEPT ![q] = Ptr(p2)]
  BY <1>1, <1>2 DEF PutInd
<1>8. c2 \in Conts /\ c2[q] = Ptr(p2) /\ \A x \in Blocks : x # q => c2[x] = c[x]
  BY <1>3, <1>6, <1>7 DEF Conts
<1>9. \A k \in Idx : AsPtr(Ptr(p2))[k] = p2[k]
  <2>1. CASE \A i \in DOMAIN p2 : p2[i] = 0
    <3>1. \A k \in Idx : p2[k] = 0
      BY <1>5, <2>1
    <3>2. \A k \in Idx : AsPtr(Word(0))[k] = 0
      BY DEF AsPtr, Word, WordOf, Idx
    <3> QED BY <2>1, <3>1, <3>2 DEF Ptr
  <2>2. CASE ~\A i \in DOMAIN p2 : p2[i] = 0
    BY <2>2 DEF Ptr, AsPtr
  <2> QED BY <2>1, <2>2
<1>10. \A k \in 0 .. NDIRECT - 1 : p[k] = 0
  <2>1. CASE c[q] = Word(0)
    <3>1. AsPtr(c[q]) = [i \in 0 .. NINDIRECT - 1 |-> 0]
      BY <2>1 DEF AsPtr, Word, WordOf
    <3>2. \A k \in 0 .. NDIRECT - 1 : k \in 0 .. NINDIRECT - 1
      BY Numbers
    <3> QED BY <3>1, <3>2, <1>1
  <2>2. CASE c[q].k = "ptr" /\ \A i \in 0 .. NDIRECT - 1 : c[q].p[i] = 0
    BY <2>2, <1>1 DEF AsPtr
  <2> QED BY <2>1, <2>2 DEF PtrBlock
<1>11. \A k \in 0 .. NDIRECT - 1 : p2[k] = 0
  <2>1. \A k \in 0 .. NDIRECT - 1 : k \in Idx /\ k # j
    BY Numbers DEF Idx
  <2> QED BY <1>5, <1>10, <2>1
<1>12. PtrBlock(Ptr(p2))
  <2>1. CASE \A i \in DOMAIN p2 : p2[i] = 0
    BY <2>1 DEF PtrBlock, Ptr
  <2>2. CASE ~\A i \in DOMAIN p2 : p2[i] = 0
    <3>1. Ptr(p2) = [k |-> "ptr", p |-> p2]
      BY <2>2 DEF Ptr
    <3>2. \E i \in Idx : p2[i] # 0
      BY <1>5, <2>2
    <3> QED BY <1>11, <3>1, <3>2 DEF PtrBlock
  <2> QED BY <2>1, <2>2
<1> QED BY <1>1, <1>5, <1>8, <1>9, <1>12

-----------------------------------------------------------------------------
(***************************************************************************)
(* Blocks are apart.                                                       *)
(***************************************************************************)
LEMMA OnlyOnce ==
  ASSUME NEW c, Once(c), NEW l \in AllOf(c), NEW k \in AllOf(c), NEW i \in Held, NEW j \in Held,
         At(c, l, i) # 0, At(c, l, i) = At(c, k, j)
  PROVE  l = k /\ i = j
BY DEF Once

\* An index, and a data block, is not one with files in it.
LEMMA Apart ==
  ASSUME NEW c, NEW X, Owns(c, X), Once(c), NEW l \in AllOf(c), NEW k \in AllOf(c), NEW j \in Held,
         At(c, k, j) # 0, j = NINDIRECT \/ ~IsDir(c, k)
  PROVE  At(c, k, j) # l[1]
<1>1. CASE l = ROOT
  <2>1. At(c, k, j) \in Data
    BY DEF Owns
  <2> QED BY <1>1, <2>1, BlockSets, PlaceOf
<1>2. CASE l # ROOT
  <2>1. PICK d \in AllOf(c) : IsDir(c, d) /\ \E i \in Idx : Num(c, d, i) = l[1]
    BY <1>2, InDirectory
  <2>2. PICK i \in Idx : Num(c, d, i) = l[1]
    BY <2>1
  <2>3. i \in Held /\ At(c, d, i) = l[1] /\ i # NINDIRECT
    BY <2>2, HeldIs
  <2> QED BY <2>1, <2>3 DEF Once
<1> QED BY <1>1, <1>2

\* Where a file is: in the super block, or in a block of a directory.
LEMMA FileBlock ==
  ASSUME NEW c, NEW X, Owns(c, X), NEW l \in AllOf(c), l # ROOT
  PROVE  l[1] \in Data \ (FreeOf(c) \cup X)
<1>1. PICK d \in AllOf(c) : IsDir(c, d) /\ \E i \in Idx : Num(c, d, i) = l[1]
  BY InDirectory
<1>2. PICK i \in Idx : Num(c, d, i) = l[1]
  BY <1>1
<1>3. i \in Held /\ At(c, d, i) = l[1]
  BY <1>2, HeldIs
<1>4. l[1] # 0
  BY AllIn, PlaceOf, BlockSets
<1> QED BY <1>1, <1>3, <1>4 DEF Owns

-----------------------------------------------------------------------------
(***************************************************************************)
(* One number of a file is replaced.                                       *)
(***************************************************************************)
SameRec(c, c2, k) == /\ Rec(c2, k).name = Rec(c, k).name
                     /\ Rec(c2, k).size = Rec(c, k).size
                     /\ Rec(c2, k).type = Rec(c, k).type
SameAt(c, c2, k)  == \A j \in Held : At(c2, k, j) = At(c, k, j)

Replaced(c, c2, l, i, v) ==
  /\ Boot(c2) /\ c2[BITMAP] = c[BITMAP]
  /\ \A k \in AllOf(c) : SameRec(c, c2, k)
  /\ \A k \in AllOf(c) : k # l => SameAt(c, c2, k)
  /\ \A j \in Held : At(c2, l, j) = IF j = i THEN v ELSE At(c, l, j)
  /\ \A x \in Data : \/ c2[x] = c[x]
                     \/ x = l[1] /\ c2[x].k = "dir"
                     \/ i # NINDIRECT /\ x = Rec(c, l).ind /\ PtrBlock(c2[x])

\* The numbers of a file whose struct File and index are unchanged.
LEMMA SameNumbers ==
  ASSUME NEW c, Boot(c), NEW c2, NEW k \in Locs, Rec(c2, k) = Rec(c, k),
         Rec(c, k).ind # 0 => c2[Rec(c, k).ind] = c[Rec(c, k).ind]
  PROVE  SameAt(c, c2, k)
<1>1. Rec(c, k).ind # 0 => In(c2, Rec(c, k).ind) = In(c, Rec(c, k).ind)
  BY DEF In
<1> QED BY <1>1 DEF SameAt, At, Num

\* What keeps the other files' numbers when the struct File of l changes.
LEMMA OthersKept ==
  ASSUME NEW c, NEW X, Boot(c), Owns(c, X), Once(c), NEW l \in AllOf(c), NEW f, NEW c2, Stored(c, c2, l, f),
         NEW k \in AllOf(c), k # l
  PROVE  SameAt(c, c2, k) /\ SameRec(c, c2, k)
<1>1. k \in Locs /\ l \in Locs
  BY AllIn
<1>2. Rec(c2, k) = Rec(c, k)
  BY <1>1 DEF Stored
<1>3. Rec(c, k).ind # 0 => c2[Rec(c, k).ind] = c[Rec(c, k).ind]
  <2> SUFFICES ASSUME Rec(c, k).ind # 0 PROVE c2[Rec(c, k).ind] = c[Rec(c, k).ind]
    OBVIOUS
  <2>1. At(c, k, NINDIRECT) = Rec(c, k).ind /\ NINDIRECT \in Held
    BY HeldIs
  <2>2. Rec(c, k).ind # l[1]
    BY <2>1, Apart
  <2>3. Rec(c, k).ind \in Blocks
    BY <2>1, BlockSets DEF Owns
  <2> QED BY <2>2, <2>3 DEF Stored
<1>4. SameAt(c, c2, k)
  BY <1>1, <1>2, <1>3, SameNumbers
<1> QED BY <1>2, <1>4 DEF SameRec

\* A number stored in f_direct replaces one number.
LEMMA PutDirect ==
  ASSUME NEW c, NEW X, Sound(c, X), NEW l \in AllOf(c), NEW i \in 0 .. NDIRECT - 1, NEW v \in Nat,
         NEW c2, c2 = Put(c, l, i, v)
  PROVE  Replaced(c, c2, l, i, v)
<1>1. /\ Boot(c) /\ Owns(c, X) /\ Once(c) /\ l \in Locs
  BY AllIn DEF Sound
<1>2. PICK f : f = [Rec(c, l) EXCEPT !.ptr[i] = v]
  OBVIOUS
<1>3. Rec(c, l) \in FileRecs
  BY <1>1, RecType
<1>4. /\ f \in FileRecs /\ f.name = Rec(c, l).name /\ f.size = Rec(c, l).size /\ f.type = Rec(c, l).type
      /\ f.ind = Rec(c, l).ind /\ \A j \in 0 .. NDIRECT - 1 : f.ptr[j] = IF j = i THEN v ELSE Rec(c, l).ptr[j]
  BY <1>2, <1>3 DEF FileRecs
<1>5. i # NINDIRECT /\ i < NDIRECT
  BY Numbers
<1>6. Stored(c, c2, l, f)
  BY <1>1, <1>2, <1>4, <1>5, StoreRec DEF Put
<1>7. l = ROOT => f.type = FTYPE_DIR /\ f.name # ""
  BY <1>1, <1>4 DEF Boot, IsDir
<1>8. Boot(c2) /\ c2[BITMAP] = c[BITMAP]
  BY <1>1, <1>4, <1>6, <1>7, StoreBoot
<1>9. Rec(c2, l) = f
  BY <1>1, <1>6 DEF Stored
<1>10. \A k \in AllOf(c) : k # l => SameAt(c, c2, k) /\ SameRec(c, c2, k)
  BY <1>1, <1>6, OthersKept
<1>11. SameRec(c, c2, l)
  BY <1>4, <1>9 DEF SameRec
<1>12. Rec(c, l).ind # 0 => In(c2, Rec(c, l).ind) = In(c, Rec(c, l).ind)
  <2> SUFFICES ASSUME Rec(c, l).ind # 0 PROVE In(c2, Rec(c, l).ind) = In(c, Rec(c, l).ind)
    OBVIOUS
  <2>1. At(c, l, NINDIRECT) = Rec(c, l).ind /\ NINDIRECT \in Held
    BY HeldIs
  <2>2. Rec(c, l).ind # l[1]
    BY <1>1, <2>1, Apart
  <2> QED BY <1>6, <2>2 DEF Stored, In
<1>13. ASSUME NEW j \in Held PROVE At(c2, l, j) = IF j = i THEN v ELSE At(c, l, j)
  <2>1. CASE j = NINDIRECT
    BY <1>4, <1>5, <1>9, <2>1 DEF At
  <2>2. CASE j < NDIRECT
    <3>1. j \in 0 .. NDIRECT - 1 /\ j # NINDIRECT
      BY <2>2, Numbers DEF Held
    <3> QED BY <1>4, <1>9, <2>2, <3>1 DEF At, Num
  <2>3. CASE j # NINDIRECT /\ ~(j < NDIRECT)
    <3>1. j # i
      BY <1>5, <2>3
    <3> QED BY <1>4, <1>9, <1>12, <2>3, <3>1 DEF At, Num
  <2> QED BY <2>1, <2>2, <2>3
<1>14. \A x \in Data : c2[x] = c[x] \/ (x = l[1] /\ c2[x].k = "dir")
  BY <1>6, BlockSets DEF Stored
<1> QED BY <1>8, <1>10, <1>11, <1>13, <1>14 DEF Replaced

\* There are no numbers in a blank index.
LEMMA BlankIndex ==
  ASSUME NEW c, NEW l \in Locs, NEW q \in Blocks, Rec(c, l).ind = q, c[q] = Word(0), NEW j \in Idx, ~(j < NDIRECT)
  PROVE  Num(c, l, j) = 0
<1>1. In(c, q) = Word(0) /\ q # 0
  BY BlockSets DEF In
<1>2. AsPtr(Word(0))[j] = 0
  BY DEF AsPtr, Word, WordOf, Idx
<1> QED BY <1>1, <1>2 DEF Num

\* f_indirect goes from 0 to a blank block, or back.
LEMMA PutIndex ==
  ASSUME NEW c, NEW X, Sound(c, X), NEW l \in AllOf(c), NEW v,
         \/ v \in X /\ At(c, l, NINDIRECT) = 0
         \/ v = 0 /\ At(c, l, NINDIRECT) # 0 /\ c[At(c, l, NINDIRECT)] = Word(0),
         NEW c2, c2 = Put(c, l, NINDIRECT, v)
  PROVE  Replaced(c, c2, l, NINDIRECT, v)
<1>1. /\ Boot(c) /\ Owns(c, X) /\ Once(c) /\ l \in Locs /\ NINDIRECT \in Held
      /\ At(c, l, NINDIRECT) = Rec(c, l).ind /\ v \in Nat /\ X \subseteq Data
  <2>1. X \subseteq Data
    BY DEF Sound, Blank
  <2>2. v \in X \/ v = 0
    OBVIOUS
  <2>3. X \subseteq Nat
    BY <2>1, BlockSets
  <2>4. v \in Nat
    <3>1. CASE v \in X
      BY ONLY <3>1, <2>3
    <3>2. CASE v = 0
      BY ONLY <3>2
    <3> QED BY <2>2, <3>1, <3>2
  <2> QED BY <2>1, <2>4, AllIn, HeldIs DEF Sound
<1>2. PICK f : f = [Rec(c, l) EXCEPT !.ind = v]
  OBVIOUS
<1>3. Rec(c, l) \in FileRecs
  BY <1>1, RecType
<1>4. /\ f \in FileRecs /\ f.name = Rec(c, l).name /\ f.size = Rec(c, l).size /\ f.type = Rec(c, l).type
      /\ f.ind = v /\ f.ptr = Rec(c, l).ptr
  BY <1>1, <1>2, <1>3 DEF FileRecs
<1>5. Stored(c, c2, l, f)
  BY <1>1, <1>2, <1>4, StoreRec DEF Put
<1>6. l = ROOT => f.type = FTYPE_DIR /\ f.name # ""
  BY <1>1, <1>4 DEF Boot, IsDir
<1>7. Boot(c2) /\ c2[BITMAP] = c[BITMAP]
  BY <1>1, <1>4, <1>5, <1>6, StoreBoot
<1>8. Rec(c2, l) = f
  BY <1>1, <1>5 DEF Stored
<1>9. \A k \in AllOf(c) : k # l => SameAt(c, c2, k) /\ SameRec(c, c2, k)
  BY <1>1, <1>5, OthersKept
<1>10. SameRec(c, c2, l)
  BY <1>4, <1>8 DEF SameRec
<1>11. \A j \in Idx : ~(j < NDIRECT) => Num(c, l, j) = 0
  <2>1. CASE Rec(c, l).ind = 0
    BY <2>1 DEF Num
  <2>2. CASE Rec(c, l).ind # 0
    <3>1. c[Rec(c, l).ind] = Word(0)
      BY <1>1, <2>2
    <3>2. Rec(c, l).ind \in Blocks
      BY <1>1, <2>2, BlockSets DEF Owns
    <3> QED BY <1>1, <3>1, <3>2, BlankIndex
  <2> QED BY <2>1, <2>2
<1>12. \A j \in Idx : ~(j < NDIRECT) => Num(c2, l, j) = 0
  <2>1. CASE v = 0
    BY <2>1, <1>4, <1>8 DEF Num
  <2>2. CASE v # 0
    <3>1. v \in X /\ v \in Blocks
      BY <1>1, <2>2, BlockSets
    <3>2. v # l[1]
      <4>1. CASE l = ROOT
        BY <1>1, <3>1, <4>1, PlaceOf, BlockSets
      <4>2. CASE l # ROOT
        BY <1>1, <3>1, <4>2, FileBlock
      <4> QED BY <4>1, <4>2
    <3>3. c2[v] = Word(0)
      BY <1>5, <3>1, <3>2 DEF Stored, Sound, Blank
    <3> QED BY <1>1, <1>4, <1>8, <3>1, <3>3, BlankIndex
  <2> QED BY <2>1, <2>2
<1>13. ASSUME NEW j \in Held PROVE At(c2, l, j) = IF j = NINDIRECT THEN v ELSE At(c, l, j)
  <2>1. CASE j = NINDIRECT
    BY <1>4, <1>8, <2>1 DEF At
  <2>2. CASE j # NINDIRECT /\ j < NDIRECT
    BY <1>4, <1>8, <2>2 DEF At, Num
  <2>3. CASE j # NINDIRECT /\ ~(j < NDIRECT)
    <3>1. j \in Idx
      BY <2>3, HeldIs
    <3> QED BY <1>11, <1>12, <2>3, <3>1 DEF At
  <2> QED BY <2>1, <2>2, <2>3
<1>14. \A x \in Data : c2[x] = c[x] \/ (x = l[1] /\ c2[x].k = "dir")
  BY <1>5, BlockSets DEF Stored
<1> QED BY <1>7, <1>9, <1>10, <1>13, <1>14 DEF Replaced

\* A number stored in the index block replaces one number.
LEMMA PutIndirect ==
  ASSUME NEW c, NEW X, Sound(c, X), NEW l \in AllOf(c), NEW i \in NDIRECT .. NINDIRECT - 1, NEW v \in Nat,
         Rec(c, l).ind # 0, NEW c2, c2 = Put(c, l, i, v)
  PROVE  Replaced(c, c2, l, i, v)
<1>1. /\ Boot(c) /\ Owns(c, X) /\ Once(c) /\ l \in Locs /\ NINDIRECT \in Held /\ ROOT \in AllOf(c)
      /\ At(c, l, NINDIRECT) = Rec(c, l).ind
  BY AllIn, HeldIs DEF Sound
<1>2. PICK q : q = Rec(c, l).ind
  OBVIOUS
<1>3. q \in Data /\ PtrBlock(c[q]) /\ q # 0 /\ q \in Blocks
  BY <1>1, <1>2, BlockSets DEF Owns, Sound, Kinds, Kind
<1>4. i # NINDIRECT /\ ~(i < NDIRECT) /\ i \in Idx
  BY Numbers DEF Idx
<1>5. c2 = PutInd(c, q, i, v)
  BY <1>2, <1>4 DEF Put
<1>6. /\ c2 \in Conts /\ PtrBlock(c2[q])
      /\ \A x \in Blocks : x # q => c2[x] = c[x]
      /\ \A k \in Idx : AsPtr(c2[q])[k] = IF k = i THEN v ELSE AsPtr(c[q])[k]
  BY <1>1, <1>3, <1>5, StoreInd
<1>7. ASSUME NEW k \in AllOf(c) PROVE Rec(c2, k) = Rec(c, k)
  <2>1. k[1] # q
    BY <1>1, <1>2, Apart
  <2>2. k[1] \in Blocks
    BY AllIn, PlaceOf
  <2> QED BY <1>6, <2>1, <2>2 DEF Rec
<1>8. ASSUME NEW k \in AllOf(c), k # l PROVE SameAt(c, c2, k)
  <2>1. ASSUME Rec(c, k).ind # 0 PROVE c2[Rec(c, k).ind] = c[Rec(c, k).ind]
    <3>1. At(c, k, NINDIRECT) = Rec(c, k).ind
      BY HeldIs
    <3>2. Rec(c, k).ind # q
      BY <1>1, <1>2, <1>8, <2>1, <3>1 DEF Once
    <3>3. Rec(c, k).ind \in Blocks
      BY <1>1, <2>1, <3>1, BlockSets DEF Owns
    <3> QED BY <1>6, <3>2, <3>3
  <2> QED BY <1>1, <1>7, <2>1, AllIn, SameNumbers
<1>9. ASSUME NEW j \in Held PROVE At(c2, l, j) = IF j = i THEN v ELSE At(c, l, j)
  <2>1. CASE j = NINDIRECT
    BY <1>4, <1>7, <2>1 DEF At
  <2>2. CASE j # NINDIRECT /\ j < NDIRECT
    BY <1>4, <1>7, <2>2 DEF At, Num
  <2>3. CASE j # NINDIRECT /\ ~(j < NDIRECT)
    <3>1. j \in Idx
      BY <2>3, HeldIs
    <3>2. In(c, q) = c[q] /\ In(c2, q) = c2[q]
      BY <1>3 DEF In
    <3>3. Num(c, l, j) = AsPtr(c[q])[j] /\ Num(c2, l, j) = AsPtr(c2[q])[j]
      BY <1>2, <1>3, <1>7, <2>3, <3>2 DEF Num
    <3> QED BY <1>6, <2>3, <3>1, <3>3 DEF At
  <2> QED BY <2>1, <2>2, <2>3
<1>10. /\ c2[BITMAP] = c[BITMAP] /\ c2[SUPER] = c[SUPER]
  BY <1>3, <1>6, BlockSets
<1>11. \A x \in Data : c2[x] = c[x] \/ (x = q /\ PtrBlock(c2[x]))
  BY <1>6, BlockSets
<1>12. Boot(c2)
  <2>1. IsDir(c2, ROOT) /\ Rec(c2, ROOT).name # ""
    BY <1>1, <1>7 DEF IsDir, Boot
  <2>2. ASSUME NEW b \in Data, c2[b].k = "dir" PROVE c2[b].f \in [Slots -> FileRecs]
    <3>1. b # q
      BY <1>6, <2>2 DEF PtrBlock, Word
    <3> QED BY <1>1, <1>11, <2>2, <3>1 DEF Boot
  <2> QED BY <1>1, <1>6, <1>10, <2>1, <2>2 DEF Boot, FreeOf
<1>13. \A k \in AllOf(c) : SameRec(c, c2, k)
  BY <1>7 DEF SameRec
<1> QED BY <1>2, <1>4, <1>8, <1>9, <1>10, <1>11, <1>12, <1>13 DEF Replaced

-----------------------------------------------------------------------------
(***************************************************************************)
(* The invariant when a number is replaced.                                *)
(***************************************************************************)
\* The files are the same if the directories are.
LEMMA SameFiles ==
  ASSUME NEW c, NEW c2,
         \A k \in AllOf(c) : (IsDir(c2, k) <=> IsDir(c, k)) /\ (IsDir(c, k) => Kids(c2, k) = Kids(c, k))
  PROVE  AllOf(c2) = AllOf(c)
<1>1. Closed(c2, AllOf(c))
  BY AllClosed DEF Closed
<1>2. AllOf(c2) \subseteq AllOf(c)
  BY <1>1, AllIn, AllLeast
<1>3. Closed(c, AllOf(c2))
  BY <1>2, AllClosed DEF Closed
<1>4. AllOf(c) \subseteq AllOf(c2)
  BY <1>3, AllIn, AllLeast
<1> QED BY <1>2, <1>4

\* Directories with the same numbers have the same slots.
LEMMA SameKids ==
  ASSUME NEW c, NEW c2, NEW k, SameAt(c, c2, k)
  PROVE  Kids(c2, k) = Kids(c, k)
<1>1. \A i \in Idx : Num(c2, k, i) = Num(c, k, i)
  BY HeldIs DEF SameAt
<1> QED BY <1>1 DEF Kids

\* Files with the same record are directories or not alike.
LEMMA SameDir ==
  ASSUME NEW c, NEW c2, NEW k, SameRec(c, c2, k)
  PROVE  IsDir(c2, k) <=> IsDir(c, k)
BY DEF SameRec, IsDir

\* A store goes into the block of a struct File, or into an index.
StoredAt(c, c2, l) ==
  \A x \in Data : \/ c2[x] = c[x]
                  \/ x = l[1] /\ c2[x].k = "dir"
                  \/ x = Rec(c, l).ind /\ PtrBlock(c2[x])

\* How block x is read if it is number j of file k.
ReadAs(c, k, j, x) == IF j = NINDIRECT THEN PtrBlock(x)
                      ELSE IF IsDir(c, k) THEN DirBlock(x) ELSE x.k = "word"

\* How a block is read depends on the number that leads to it.
LEMMA KindIs ==
  ASSUME NEW c, NEW k
  PROVE  Kind(c, k) <=> /\ Rec(c, k).type \in {FTYPE_REG, FTYPE_DIR}
                        /\ \A j \in Held : At(c, k, j) # 0 => ReadAs(c, k, j, c[At(c, k, j)])
<1>1. ASSUME Kind(c, k), NEW j \in Held, At(c, k, j) # 0 PROVE ReadAs(c, k, j, c[At(c, k, j)])
  <2>1. CASE j = NINDIRECT
    BY <1>1, <2>1 DEF Kind, ReadAs, At
  <2>2. CASE j \in Idx
    BY <1>1, <2>2, HeldIs DEF Kind, ReadAs
  <2> QED BY <2>1, <2>2, HeldIs
<1>2. ASSUME \A j \in Held : At(c, k, j) # 0 => ReadAs(c, k, j, c[At(c, k, j)]) PROVE Rec(c, k).ind # 0 => PtrBlock(c[Rec(c, k).ind])
  BY <1>2, HeldIs DEF ReadAs
<1>3. ASSUME \A j \in Held : At(c, k, j) # 0 => ReadAs(c, k, j, c[At(c, k, j)]), NEW j \in Idx, Num(c, k, j) # 0
      PROVE  IF IsDir(c, k) THEN DirBlock(c[Num(c, k, j)]) ELSE c[Num(c, k, j)].k = "word"
  <2>1. j \in Held /\ j # NINDIRECT /\ At(c, k, j) = Num(c, k, j)
    BY HeldIs
  <2> QED BY <1>3, <2>1 DEF ReadAs
<1> QED BY <1>1, <1>2, <1>3 DEF Kind

\* Every number stays that of a block that can be read as it should.
LEMMA ReadKept ==
  ASSUME NEW c, NEW X, Sound(c, X), NEW l \in AllOf(c), NEW c2, StoredAt(c, c2, l),
         NEW k \in AllOf(c), NEW j \in Held, At(c, k, j) # 0
  PROVE  ReadAs(c, k, j, c2[At(c, k, j)])
<1>1. Owns(c, X) /\ Once(c) /\ Kind(c, k)
  BY DEF Sound, Kinds
<1>2. PICK x : x = At(c, k, j)
  OBVIOUS
<1>3. x \in Data
  BY <1>1, <1>2 DEF Owns
<1>4. ReadAs(c, k, j, c[x])
  BY <1>1, <1>2, KindIs
<1>5. NINDIRECT \in Held /\ At(c, l, NINDIRECT) = Rec(c, l).ind
  BY HeldIs
<1>6. CASE c2[x] = c[x]
  BY <1>2, <1>4, <1>6
<1>7. CASE x = l[1] /\ c2[x].k = "dir"
  <2>1. j # NINDIRECT /\ IsDir(c, k)
    BY <1>1, <1>2, <1>7, Apart
  <2> QED BY <1>2, <1>7, <2>1 DEF ReadAs, DirBlock
<1>8. CASE x = Rec(c, l).ind /\ PtrBlock(c2[x])
  <2>1. At(c, k, j) = At(c, l, NINDIRECT)
    BY <1>2, <1>5, <1>8
  <2>2. j = NINDIRECT
    BY <1>1, <1>5, <2>1, OnlyOnce
  <2> QED BY <1>2, <1>8, <2>2 DEF ReadAs
<1> QED BY <1>3, <1>6, <1>7, <1>8 DEF StoredAt

\* Replacing a number is a store into the file or its index.
LEMMA ReplacedAt ==
  ASSUME NEW c, NEW c2, NEW l, NEW i, NEW v, Replaced(c, c2, l, i, v)
  PROVE  StoredAt(c, c2, l)
BY DEF Replaced, StoredAt

\* Replacing a number by that of a blank block, or by 0, leaves every block readable.
LEMMA KindKept ==
  ASSUME NEW c, NEW X, Sound(c, X), NEW l \in AllOf(c), NEW i \in Held, NEW v, NEW c2, Replaced(c, c2, l, i, v),
         v # 0 => v \in Data /\ c2[v] = Word(0), NEW k \in AllOf(c)
  PROVE  Kind(c2, k)
<1>1. Kind(c, k) /\ SameRec(c, c2, k) /\ StoredAt(c, c2, l)
  BY ReplacedAt DEF Sound, Kinds, Replaced
<1>2. (IsDir(c2, k) <=> IsDir(c, k)) /\ Rec(c2, k).type = Rec(c, k).type
  BY <1>1, SameDir DEF SameRec
<1>3. ASSUME NEW j \in Held, At(c2, k, j) # 0 PROVE ReadAs(c2, k, j, c2[At(c2, k, j)])
  <2>1. CASE At(c2, k, j) = v
    BY <1>3, <2>1 DEF ReadAs, PtrBlock, DirBlock, Word
  <2>2. CASE At(c2, k, j) # v
    <3>1. At(c2, k, j) = At(c, k, j)
      BY <2>2 DEF Replaced, SameAt
    <3>2. ReadAs(c, k, j, c2[At(c, k, j)])
      BY <1>1, <1>3, <3>1, ReadKept
    <3> QED BY <1>2, <3>1, <3>2 DEF ReadAs
  <2> QED BY <2>1, <2>2
<1> QED BY <1>1, <1>2, <1>3, KindIs

\* Nothing is stored into a block that nobody owns.
LEMMA LooseKept ==
  ASSUME NEW c, NEW X, Sound(c, X), NEW l \in AllOf(c), NEW c2, StoredAt(c, c2, l)
  PROVE  \A b \in FreeOf(c) \cup X : c2[b] = Word(0)
<1> SUFFICES ASSUME NEW b \in FreeOf(c) \cup X PROVE c2[b] = Word(0)
  OBVIOUS
<1>1. b \in Data /\ c[b] = Word(0) /\ Owns(c, X)
  BY DEF Sound, Boot, Blank
<1>2. b # l[1]
  <2>1. CASE l = ROOT
    BY <1>1, <2>1, PlaceOf, BlockSets
  <2>2. CASE l # ROOT
    BY <1>1, <2>2, FileBlock
  <2> QED BY <2>1, <2>2
<1>3. b # Rec(c, l).ind
  <2> SUFFICES ASSUME b = Rec(c, l).ind PROVE FALSE
    OBVIOUS
  <2>1. At(c, l, NINDIRECT) = b /\ NINDIRECT \in Held /\ b # 0
    BY <1>1, HeldIs, BlockSets
  <2> QED BY <1>1, <2>1 DEF Owns
<1> QED BY <1>1, <1>2, <1>3 DEF StoredAt

\* The slots of a blank block.
SlotsIn(b) == {x \in Locs : x[1] = b}
Fresh(c, x) == /\ Rec(c, x).name = "" /\ Rec(c, x).size = 0 /\ Rec(c, x).type = FTYPE_REG
               /\ \A j \in Held : At(c, x, j) = 0

\* A slot of a blank block is a fresh one.
LEMMA BlankSlot ==
  ASSUME NEW c, NEW x \in Locs, x # ROOT, c[x[1]] = Word(0)
  PROVE  Fresh(c, x)
<1>1. x[2] \in Slots
  BY PlaceOf
<1>2. Rec(c, x) = FileOf(0)
  BY <1>1 DEF Rec, AsDir, Word, WordOf
<1>3. \A j \in 0 .. NDIRECT - 1 : FileOf(0).ptr[j] = 0
  BY DEF FileOf
<1>4. FileOf(0).name = "" /\ FileOf(0).size = 0 /\ FileOf(0).type = FTYPE_REG /\ FileOf(0).ind = 0
  BY DEF FileOf, FTYPE_REG
<1>5. ASSUME NEW j \in Held PROVE At(c, x, j) = 0
  <2>1. CASE j = NINDIRECT
    BY <1>2, <1>4, <2>1 DEF At
  <2>2. CASE j # NINDIRECT /\ j < NDIRECT
    <3>1. j \in 0 .. NDIRECT - 1
      BY <2>2, Numbers DEF Held
    <3> QED BY <1>2, <1>3, <2>2, <3>1 DEF At, Num
  <2>3. CASE j # NINDIRECT /\ ~(j < NDIRECT)
    BY <1>2, <1>4, <2>3 DEF At, Num
  <2> QED BY <2>1, <2>2, <2>3
<1> QED BY <1>2, <1>4, <1>5 DEF Fresh

\* A fresh slot has no name and no blocks and is no directory.
LEMMA FreshIs ==
  ASSUME NEW c, NEW x, Fresh(c, x)
  PROVE  ~IsDir(c, x) /\ Kind(c, x) /\ Empty(c, x) /\ Rec(c, x).name = ""
<1>1. ~IsDir(c, x)
  BY Types DEF Fresh, IsDir
<1>2. Rec(c, x).ind = 0 /\ \A j \in Idx : Num(c, x, j) = 0
  BY HeldIs DEF Fresh
<1> QED BY <1>1, <1>2 DEF Fresh, Kind, Empty

\* A block that alloc_block has handed out is put into a file.
LEMMA Attach ==
  ASSUME NEW c, NEW X, Sound(c, X), NEW l \in AllOf(c), NEW i \in Held, NEW v \in X, NEW c2, Replaced(c, c2, l, i, v),
         At(c, l, i) = 0, Room(c, l, i), Rec(c, l).name # ""
  PROVE  /\ Sound(c2, X \ {v})
         /\ AllOf(c2) = AllOf(c) \cup (IF IsDir(c, l) /\ i # NINDIRECT THEN SlotsIn(v) ELSE {})
<1> DEFINE New == IF IsDir(c, l) /\ i # NINDIRECT THEN SlotsIn(v) ELSE {}
<1>1. /\ Boot(c) /\ Owns(c, X) /\ Once(c) /\ Kept(c, X) /\ Blank(c, X) /\ Kinds(c) /\ Sized(c) /\ Named(c) /\ Boot(c2)
      /\ FreeOf(c2) = FreeOf(c)
  BY DEF Sound, Replaced, FreeOf
<1>a. \A b \in FreeOf(c) \cup X : c2[b] = Word(0)
  BY ONLY Sound(c, X), l \in AllOf(c), Replaced(c, c2, l, i, v), LooseKept, ReplacedAt
<1>2. v \in Data /\ v \notin FreeOf(c) /\ v # 0 /\ c2[v] = Word(0)
  BY <1>1, <1>a, BlockSets DEF Blank
<1>3. \A k \in AllOf(c) : SameRec(c, c2, k) /\ (IsDir(c2, k) <=> IsDir(c, k))
  BY SameDir DEF Replaced
<1>4. \A k \in AllOf(c), j \in Held : At(c2, k, j) = IF k = l /\ j = i THEN v ELSE At(c, k, j)
  BY DEF Replaced, SameAt
<1>5. \A x \in SlotsIn(v) : x \in Locs /\ x # ROOT /\ x \notin AllOf(c) /\ Fresh(c2, x)
  <2> SUFFICES ASSUME NEW x \in Locs, x[1] = v PROVE x # ROOT /\ x \notin AllOf(c) /\ Fresh(c2, x)
    BY DEF SlotsIn
  <2>1. x # ROOT
    BY <1>2, PlaceOf, BlockSets
  <2>2. x \notin AllOf(c)
    BY <1>1, <2>1, FileBlock
  <2> QED BY <1>2, <2>1, <2>2, BlankSlot
<1>b. \A x \in SlotsIn(v) : /\ x \notin AllOf(c) /\ x # ROOT /\ ~IsDir(c2, x) /\ Kind(c2, x) /\ Empty(c2, x)
                              /\ Rec(c2, x).name = ""
  BY <1>5, FreshIs
<1>6. AllOf(c2) = AllOf(c) \cup New
  <2>1. Closed(c2, AllOf(c) \cup New)
    <3>1. ASSUME NEW k \in AllOf(c) \cup New, IsDir(c2, k), NEW x \in Kids(c2, k) PROVE x \in AllOf(c) \cup New
      <4>1. k \in AllOf(c) /\ IsDir(c, k)
        BY <1>3, <1>b, <3>1
      <4>2. PICK j \in Idx : Num(c2, k, j) = x[1]
        BY <3>1 DEF Kids
      <4>3. j \in Held /\ At(c2, k, j) = x[1] /\ At(c, k, j) = Num(c, k, j) /\ j # NINDIRECT
        BY <4>2, HeldIs
      <4>4. x \in Locs
        BY <3>1 DEF Kids
      <4>5. CASE k = l /\ j = i
        <5>1. x \in SlotsIn(v)
          BY <1>4, <4>1, <4>3, <4>4, <4>5 DEF SlotsIn
        <5> QED BY <4>1, <4>3, <4>5, <5>1
      <4>6. CASE ~(k = l /\ j = i)
        <5>1. Num(c, k, j) = x[1]
          BY <1>4, <4>1, <4>3, <4>6
        <5>2. x \in AllOf(c)
          BY <4>1, <4>4, <5>1, SlotIsFile
        <5> QED BY <5>2
      <4> QED BY <4>5, <4>6
    <3> QED BY <3>1, AllIn DEF Closed
  <2>2. AllOf(c2) \subseteq AllOf(c) \cup New
    <3>1. AllOf(c) \cup New \in SUBSET Locs
      BY <1>5, AllIn
    <3> HIDE DEF New
    <3> QED BY <2>1, <3>1, AllLeast
  <2>3. Closed(c, AllOf(c2) \cap AllOf(c))
    <3>1. ASSUME NEW k \in AllOf(c2) \cap AllOf(c), IsDir(c, k), NEW x \in Kids(c, k)
          PROVE  x \in AllOf(c2) /\ x \in AllOf(c)
      <4>1. PICK j \in Idx : Num(c, k, j) = x[1]
        BY <3>1 DEF Kids
      <4>2. j \in Held /\ At(c, k, j) = x[1] /\ At(c2, k, j) = Num(c2, k, j)
        BY <4>1, HeldIs
      <4>3. x \in Locs /\ x[1] # 0
        BY <3>1, PlaceOf, BlockSets DEF Kids
      <4>4. ~(k = l /\ j = i)
        BY <4>2, <4>3
      <4>5. Num(c2, k, j) = x[1]
        BY <1>4, <4>2, <4>4, <3>1
      <4>6. x \in Kids(c2, k) /\ IsDir(c2, k)
        BY <1>3, <3>1, <4>3, <4>5 DEF Kids
      <4> QED BY <3>1, <4>6, AllClosed DEF Closed
    <3> QED BY <3>1, AllIn DEF Closed
  <2>4. AllOf(c) \subseteq AllOf(c2)
    <3>1. AllOf(c2) \cap AllOf(c) \in SUBSET Locs
      BY AllIn
    <3>2. AllOf(c) \subseteq AllOf(c2) \cap AllOf(c)
      BY <2>3, <3>1, AllLeast
    <3> QED BY <3>2
  <2>5. ASSUME New # {} PROVE New \subseteq AllOf(c2)
    <3>1. IsDir(c2, l) /\ i \in Idx /\ New = SlotsIn(v) /\ l \in AllOf(c2)
      BY <1>3, <2>4, <2>5, HeldIs
    <3>2. Num(c2, l, i) = v
      BY <1>4, <3>1, HeldIs
    <3> SUFFICES ASSUME NEW x \in Locs, x[1] = v PROVE x \in AllOf(c2)
      BY <3>1 DEF SlotsIn
    <3> QED BY <3>1, <3>2, SlotIsFile
  <2> QED BY <2>2, <2>4, <2>5
<1> HIDE DEF New
<1>7. New \subseteq SlotsIn(v)
  BY DEF New
<1>c. \A k \in AllOf(c2) : k \in AllOf(c) \/ k \in SlotsIn(v)
  BY <1>6, <1>7
<1>d. \A k \in SlotsIn(v), j \in Held : At(c2, k, j) = 0
  BY <1>5 DEF Fresh
<1>8. Owns(c2, X \ {v})
  <2>1. ASSUME NEW k \in AllOf(c2), NEW j \in Held, At(c2, k, j) # 0
        PROVE  At(c2, k, j) \in Data \ (FreeOf(c2) \cup (X \ {v}))
    <3>1. k \in AllOf(c)
      BY <1>c, <1>d, <2>1
    <3> QED BY <1>1, <1>2, <1>4, <2>1, <3>1 DEF Owns
  <2> QED BY <2>1 DEF Owns
<1>9. Once(c2)
  <2>1. ASSUME NEW k \in AllOf(c2), NEW n \in AllOf(c2), NEW j \in Held, NEW h \in Held,
               At(c2, k, j) # 0, At(c2, k, j) = At(c2, n, h)
        PROVE  k = n /\ j = h
    <3>1. k \in AllOf(c) /\ n \in AllOf(c)
      BY <1>c, <1>d, <2>1
    <3>2. \A k1 \in AllOf(c), j1 \in Held : At(c, k1, j1) # v
      <4> SUFFICES ASSUME NEW k1 \in AllOf(c), NEW j1 \in Held, At(c, k1, j1) = v PROVE FALSE
        OBVIOUS
      <4>1. At(c, k1, j1) # 0
        BY <1>2
      <4>2. At(c, k1, j1) \notin X
        BY <1>1, <4>1 DEF Owns
      <4> QED BY <4>2
    <3>3. CASE (k = l /\ j = i) \/ (n = l /\ h = i)
      BY <1>4, <2>1, <3>1, <3>2, <3>3
    <3>4. CASE ~(k = l /\ j = i) /\ ~(n = l /\ h = i)
      <4>1. At(c2, k, j) = At(c, k, j)
        BY <1>4, <3>1, <3>4
      <4>2. At(c2, n, h) = At(c, n, h)
        BY <1>4, <3>1, <3>4
      <4>3. At(c, k, j) # 0 /\ At(c, k, j) = At(c, n, h)
        BY ONLY <2>1, <4>1, <4>2
      <4>4. Once(c)
        BY <1>1
      <4> QED BY ONLY <3>1, <4>3, <4>4, j \in Held, h \in Held, OnlyOnce
    <3> QED BY <3>3, <3>4
  <2> QED BY ONLY <2>1 DEF Once
<1>10. Kept(c2, X \ {v})
  <2>1. ASSUME NEW b \in Data \ (FreeOf(c2) \cup (X \ {v})) PROVE \E k \in AllOf(c2), j \in Held : At(c2, k, j) = b
    <3>1. CASE b = v
      BY <1>4, <1>6, <3>1
    <3>2. CASE b # v
      <4>1. PICK k \in AllOf(c), j \in Held : At(c, k, j) = b
        BY <1>1, <2>1, <3>2 DEF Kept
      <4>2. b # 0
        BY <2>1, BlockSets
      <4>3. At(c2, k, j) = b
        BY <1>4, <4>1, <4>2
      <4> QED BY <1>6, <4>3
    <3> QED BY <3>1, <3>2
  <2> QED BY <2>1 DEF Kept
<1>11. Blank(c2, X \ {v})
  BY <1>1, <1>a DEF Blank
<1>12. Kinds(c2)
  <2>1. ASSUME NEW k \in AllOf(c2) PROVE Kind(c2, k)
    <3>1. CASE k \in AllOf(c)
      BY <1>2, <3>1, KindKept
    <3>2. CASE k \in SlotsIn(v)
      BY <1>b, <3>2
    <3> QED BY <1>c, <3>1, <3>2
  <2> QED BY <2>1 DEF Kinds
<1>13. Sized(c2)
  <2>1. ASSUME NEW k \in AllOf(c2)
        PROVE  (IsDir(c2, k) => Whole(Rec(c2, k).size)) /\ \A j \in Held : At(c2, k, j) # 0 => Room(c2, k, j)
    <3>1. CASE k \in AllOf(c)
      <4>1. SameRec(c, c2, k) /\ (IsDir(c2, k) <=> IsDir(c, k))
        BY <1>3, <3>1
      <4>2. \A j \in Held : Room(c2, k, j) <=> Room(c, k, j)
        BY <4>1 DEF Room, SameRec
      <4>3. \A j \in Held : At(c2, k, j) # 0 => Room(c, k, j)
        BY <1>1, <1>4, <3>1 DEF Sized
      <4>4. IsDir(c2, k) => Whole(Rec(c2, k).size)
        BY <1>1, <3>1, <4>1 DEF Sized, SameRec
      <4> QED BY <4>2, <4>3, <4>4
    <3>2. CASE k \in SlotsIn(v)
      BY <1>b, <1>d, <3>2
    <3> QED BY <1>c, <3>1, <3>2
  <2> QED BY <2>1 DEF Sized
<1>14. Named(c2)
  <2>1. ASSUME NEW k \in AllOf(c2) \ {ROOT}
        PROVE  Rec(c2, k).name \in Names \cup {""} /\ (Rec(c2, k).name = "" => Empty(c2, k))
    <3>1. CASE k \in AllOf(c)
      <4>1. Rec(c2, k).name = Rec(c, k).name /\ Rec(c2, k).size = Rec(c, k).size
        BY <1>3, <3>1 DEF SameRec
      <4>2. Rec(c, k).name \in Names \cup {""} /\ (Rec(c, k).name = "" => Empty(c, k))
        BY <1>1, <2>1, <3>1 DEF Named
      <4>3. ASSUME Rec(c, k).name = "" PROVE \A j \in Held : At(c2, k, j) = At(c, k, j)
        <5>1. k # l
          BY <4>3
        <5> QED BY <1>4, <3>1, <5>1
      <4> QED BY <4>1, <4>2, <4>3 DEF Empty
    <3>2. CASE k \in SlotsIn(v)
      BY <1>b, <3>2
    <3> QED BY <1>c, <2>1, <3>1, <3>2
  <2> QED BY <2>1 DEF Named
<1>15. Sound(c2, X \ {v})
  BY <1>1, <1>8, <1>9, <1>10, <1>11, <1>12, <1>13, <1>14 DEF Sound
<1> QED BY <1>6, <1>15 DEF New

\* The files are the same if directories stay directories with the same numbers.
LEMMA SameTree ==
  ASSUME NEW c, NEW c2,
         \A k \in AllOf(c) : (IsDir(c2, k) <=> IsDir(c, k)) /\ (IsDir(c, k) => SameAt(c, c2, k))
  PROVE  AllOf(c2) = AllOf(c)
<1>1. ASSUME NEW k \in AllOf(c), IsDir(c, k) PROVE Kids(c2, k) = Kids(c, k)
  BY <1>1, SameKids
<1> QED BY <1>1, SameFiles

\* A blank block is taken out of a file that is no directory.
LEMMA Detach ==
  ASSUME NEW c, NEW X, Sound(c, X), NEW l \in AllOf(c), ~IsDir(c, l), NEW i \in Held, NEW v, v = At(c, l, i), v # 0,
         c[v] = Word(0), NEW c2, Replaced(c, c2, l, i, 0)
  PROVE  Sound(c2, X \cup {v}) /\ AllOf(c2) = AllOf(c)
<1>1. /\ Boot(c) /\ Owns(c, X) /\ Once(c) /\ Kept(c, X) /\ Blank(c, X) /\ Kinds(c) /\ Sized(c) /\ Named(c) /\ Boot(c2)
      /\ FreeOf(c2) = FreeOf(c) /\ StoredAt(c, c2, l)
  BY ReplacedAt DEF Sound, Replaced, FreeOf
<1>2. v \in Data \ (FreeOf(c) \cup X)
  BY <1>1 DEF Owns
<1>3. \A k \in AllOf(c) : SameRec(c, c2, k) /\ (IsDir(c2, k) <=> IsDir(c, k))
  BY SameDir DEF Replaced
<1>4. \A k \in AllOf(c), j \in Held : At(c2, k, j) = IF k = l /\ j = i THEN 0 ELSE At(c, k, j)
  BY DEF Replaced, SameAt
<1>5. AllOf(c2) = AllOf(c)
  <2>1. ASSUME NEW k \in AllOf(c), IsDir(c, k) PROVE SameAt(c, c2, k)
    BY <2>1 DEF Replaced
  <2> QED BY <1>3, <2>1, SameTree
<1>6. \A b \in FreeOf(c) \cup X : c2[b] = Word(0)
  BY ONLY <1>1, Sound(c, X), l \in AllOf(c), LooseKept
<1>7. c2[v] = Word(0)
  <2>1. v # l[1]
    BY <1>1, Apart
  <2>2. i # NINDIRECT => v # Rec(c, l).ind
    <3> SUFFICES ASSUME i # NINDIRECT, v = Rec(c, l).ind PROVE FALSE
      OBVIOUS
    <3>1. NINDIRECT \in Held /\ At(c, l, i) = At(c, l, NINDIRECT)
      BY HeldIs
    <3> QED BY <1>1, <3>1, OnlyOnce
  <2> QED BY <1>2, <2>1, <2>2 DEF Replaced
<1>8. \A k \in AllOf(c), j \in Held : At(c2, k, j) # 0 => At(c2, k, j) = At(c, k, j) /\ At(c, k, j) # v
  <2> SUFFICES ASSUME NEW k \in AllOf(c), NEW j \in Held, At(c2, k, j) # 0
               PROVE  At(c2, k, j) = At(c, k, j) /\ At(c, k, j) # v
    OBVIOUS
  <2>1. ~(k = l /\ j = i) /\ At(c2, k, j) = At(c, k, j)
    BY <1>4
  <2> QED BY <1>1, <2>1, OnlyOnce
<1>9. Owns(c2, X \cup {v})
  BY <1>1, <1>5, <1>8 DEF Owns
<1>10. Once(c2)
  <2>1. ASSUME NEW k \in AllOf(c2), NEW n \in AllOf(c2), NEW j \in Held, NEW h \in Held,
               At(c2, k, j) # 0, At(c2, k, j) = At(c2, n, h)
        PROVE  k = n /\ j = h
    <3>1. k \in AllOf(c) /\ n \in AllOf(c)
      BY <1>5
    <3>2. At(c, k, j) # 0 /\ At(c, k, j) = At(c, n, h)
      BY <1>8, <2>1, <3>1
    <3> QED BY <1>1, <3>1, <3>2, OnlyOnce
  <2> QED BY ONLY <2>1 DEF Once
<1>11. Kept(c2, X \cup {v})
  <2>1. ASSUME NEW b \in Data \ (FreeOf(c2) \cup (X \cup {v})) PROVE \E k \in AllOf(c2), j \in Held : At(c2, k, j) = b
    <3>1. PICK k \in AllOf(c), j \in Held : At(c, k, j) = b
      BY <1>1, <2>1 DEF Kept
    <3>2. At(c2, k, j) = b
      BY <1>4, <2>1, <3>1
    <3> QED BY <1>5, <3>2
  <2> QED BY <2>1 DEF Kept
<1>12. Blank(c2, X \cup {v})
  BY <1>1, <1>2, <1>6, <1>7 DEF Blank
<1>13. Kinds(c2)
  BY <1>5, KindKept DEF Kinds
<1>14. Sized(c2)
  <2>1. ASSUME NEW k \in AllOf(c2)
        PROVE  (IsDir(c2, k) => Whole(Rec(c2, k).size)) /\ \A j \in Held : At(c2, k, j) # 0 => Room(c2, k, j)
    <3>1. k \in AllOf(c) /\ SameRec(c, c2, k) /\ (IsDir(c2, k) <=> IsDir(c, k))
      BY <1>3, <1>5
    <3>2. \A j \in Held : Room(c2, k, j) <=> Room(c, k, j)
      BY <3>1 DEF Room, SameRec
    <3>3. \A j \in Held : At(c2, k, j) # 0 => Room(c, k, j)
      BY <1>1, <1>8, <3>1 DEF Sized
    <3>4. IsDir(c2, k) => Whole(Rec(c2, k).size)
      BY <1>1, <3>1 DEF Sized, SameRec
    <3> QED BY <3>2, <3>3, <3>4
  <2> QED BY <2>1 DEF Sized
<1>15. Named(c2)
  <2>1. ASSUME NEW k \in AllOf(c2) \ {ROOT}
        PROVE  Rec(c2, k).name \in Names \cup {""} /\ (Rec(c2, k).name = "" => Empty(c2, k))
    <3>1. k \in AllOf(c) /\ Rec(c2, k).name = Rec(c, k).name /\ Rec(c2, k).size = Rec(c, k).size
      BY <1>3, <1>5 DEF SameRec
    <3>2. Rec(c, k).name \in Names \cup {""} /\ (Rec(c, k).name = "" => Empty(c, k))
      BY <1>1, <2>1, <3>1 DEF Named
    <3>3. \A j \in Held : At(c, k, j) = 0 => At(c2, k, j) = 0
      BY <1>4, <3>1
    <3> QED BY <3>1, <3>2, <3>3 DEF Empty
  <2> QED BY <2>1 DEF Named
<1> QED BY <1>1, <1>5, <1>9, <1>10, <1>11, <1>12, <1>13, <1>14, <1>15 DEF Sound

-----------------------------------------------------------------------------
(***************************************************************************)
(* The bitmap.                                                             *)
(***************************************************************************)
SameBlocks(c, c2) == c2 \in Conts /\ \A b \in Blocks \ {BITMAP} : c2[b] = c[b]

\* Nothing of a file is in the bitmap.
LEMMA SameDisk ==
  ASSUME NEW c, Boot(c), NEW c2, SameBlocks(c, c2), NEW X, Owns(c, X)
  PROVE  /\ AllOf(c2) = AllOf(c)
         /\ \A k \in AllOf(c) : Rec(c2, k) = Rec(c, k) /\ SameAt(c, c2, k)
<1>1. ASSUME NEW k \in AllOf(c) PROVE Rec(c2, k) = Rec(c, k) /\ SameAt(c, c2, k)
  <2>1. k \in Locs /\ k[1] \in Blocks /\ k[1] # BITMAP
    BY AllIn, PlaceOf
  <2>2. Rec(c2, k) = Rec(c, k)
    BY <2>1 DEF SameBlocks, Rec
  <2>3. ASSUME Rec(c, k).ind # 0 PROVE c2[Rec(c, k).ind] = c[Rec(c, k).ind]
    <3>1. Rec(c, k).ind \in Data
      BY <2>3, HeldIs DEF Owns
    <3> QED BY <3>1, BlockSets DEF SameBlocks
  <2> QED BY <2>1, <2>2, <2>3, SameNumbers
<1>2. \A k \in AllOf(c) : IsDir(c2, k) <=> IsDir(c, k)
  BY <1>1 DEF IsDir
<1>3. AllOf(c2) = AllOf(c)
  BY <1>1, <1>2, SameTree
<1> QED BY <1>1, <1>3

\* A block goes from the free ones to the loose ones, or back.
LEMMA PutBits ==
  ASSUME NEW c, NEW X, Sound(c, X), NEW S \in SUBSET Data, NEW Y \in SUBSET Data, S \cap Y = {},
         S \cup Y = FreeOf(c) \cup X, NEW c2, c2 = PutFree(c, S)
  PROVE  /\ Sound(c2, Y) /\ SameBlocks(c, c2) /\ FreeOf(c2) = S /\ AllOf(c2) = AllOf(c)
         /\ \A k \in AllOf(c) : Rec(c2, k) = Rec(c, k) /\ SameAt(c, c2, k)
<1>1. /\ Boot(c) /\ Owns(c, X) /\ Once(c) /\ Kept(c, X) /\ Blank(c, X) /\ Kinds(c) /\ Sized(c) /\ Named(c)
  BY DEF Sound
<1>2. Bits(S) \in Contents /\ Bits(S).k = "bits" /\ Bits(S).free = S
  <2>1. S \in SUBSET Blocks
    BY BlockSets
  <2> QED BY <2>1, ContentKinds DEF Bits
<1>3. c2 \in Conts /\ c2[BITMAP] = Bits(S) /\ \A b \in Blocks \ {BITMAP} : c2[b] = c[b]
  BY <1>1, <1>2, BlockSets DEF PutFree, Conts, Boot
<1>4. SameBlocks(c, c2) /\ FreeOf(c2) = S
  BY <1>2, <1>3 DEF SameBlocks, FreeOf
<1>5. AllOf(c2) = AllOf(c) /\ \A k \in AllOf(c) : Rec(c2, k) = Rec(c, k) /\ SameAt(c, c2, k)
  BY ONLY <1>1, <1>4, SameDisk
<1>6. \A k \in AllOf(c), j \in Held : At(c2, k, j) = At(c, k, j)
  BY <1>5 DEF SameAt
<1>7. \A k \in AllOf(c) : IsDir(c2, k) <=> IsDir(c, k)
  BY <1>5 DEF IsDir
<1>8. Boot(c2)
  <2>1. c2[SUPER] = c[SUPER] /\ \A b \in Data : c2[b] = c[b]
    BY <1>3, BlockSets
  <2>2. IsDir(c2, ROOT) /\ Rec(c2, ROOT).name # ""
    BY <1>1, <1>5, <1>7, AllIn DEF Boot
  <2> QED BY <1>1, <1>2, <1>3, <1>4, <2>1, <2>2 DEF Boot
<1>9. Owns(c2, Y)
  BY <1>1, <1>4, <1>5, <1>6 DEF Owns
<1>10. Once(c2)
  <2>1. ASSUME NEW k \in AllOf(c2), NEW n \in AllOf(c2), NEW j \in Held, NEW h \in Held,
               At(c2, k, j) # 0, At(c2, k, j) = At(c2, n, h)
        PROVE  k = n /\ j = h
    <3>1. k \in AllOf(c) /\ n \in AllOf(c)
      BY <1>5
    <3>2. At(c, k, j) # 0 /\ At(c, k, j) = At(c, n, h)
      BY <1>6, <2>1, <3>1
    <3> QED BY <1>1, <3>1, <3>2, OnlyOnce
  <2> QED BY ONLY <2>1 DEF Once
<1>11. Kept(c2, Y)
  <2>1. ASSUME NEW b \in Data \ (FreeOf(c2) \cup Y) PROVE \E k \in AllOf(c2), j \in Held : At(c2, k, j) = b
    <3>1. PICK k \in AllOf(c), j \in Held : At(c, k, j) = b
      BY <1>1, <1>4, <2>1 DEF Kept
    <3> QED BY <1>5, <1>6, <3>1
  <2> QED BY <2>1 DEF Kept
<1>12. Blank(c2, Y)
  <2>1. \A b \in FreeOf(c) \cup X : c2[b] = c[b]
    <3>1. FreeOf(c) \cup X \subseteq Data
      BY <1>1 DEF Boot, Blank
    <3> QED BY <1>3, <3>1, BlockSets
  <2> QED BY <1>1, <1>4, <2>1 DEF Blank
<1>13. Kinds(c2)
  <2>1. ASSUME NEW k \in AllOf(c2) PROVE Kind(c2, k)
    <3>1. k \in AllOf(c) /\ Kind(c, k) /\ Rec(c2, k) = Rec(c, k)
      BY <1>1, <1>5 DEF Kinds
    <3>2. ASSUME NEW j \in Held, At(c2, k, j) # 0 PROVE ReadAs(c2, k, j, c2[At(c2, k, j)])
      <4>1. At(c, k, j) # 0 /\ At(c2, k, j) = At(c, k, j)
        BY <1>6, <3>1, <3>2
      <4>2. At(c, k, j) \in Data
        BY <1>1, <3>1, <4>1 DEF Owns
      <4>3. c2[At(c, k, j)] = c[At(c, k, j)]
        BY <1>3, <4>2, BlockSets
      <4>4. ReadAs(c, k, j, c[At(c, k, j)])
        BY <3>1, <4>1, KindIs
      <4> QED BY <1>7, <3>1, <4>1, <4>3, <4>4 DEF ReadAs
    <3> QED BY <3>1, <3>2, KindIs
  <2> QED BY <2>1 DEF Kinds
<1>14. Sized(c2)
  <2>1. ASSUME NEW k \in AllOf(c2)
        PROVE  (IsDir(c2, k) => Whole(Rec(c2, k).size)) /\ \A j \in Held : At(c2, k, j) # 0 => Room(c2, k, j)
    <3>1. k \in AllOf(c) /\ Rec(c2, k) = Rec(c, k) /\ (IsDir(c2, k) <=> IsDir(c, k))
      BY <1>5, <1>7
    <3>2. \A j \in Held : Room(c2, k, j) <=> Room(c, k, j)
      BY <3>1 DEF Room
    <3> QED BY <1>1, <1>6, <3>1, <3>2 DEF Sized
  <2> QED BY <2>1 DEF Sized
<1>15. Named(c2)
  <2>1. ASSUME NEW k \in AllOf(c2) \ {ROOT}
        PROVE  Rec(c2, k).name \in Names \cup {""} /\ (Rec(c2, k).name = "" => Empty(c2, k))
    <3>1. k \in AllOf(c) /\ Rec(c2, k) = Rec(c, k) /\ \A j \in Held : At(c2, k, j) = At(c, k, j)
      BY <1>5, <1>6
    <3> QED BY <1>1, <2>1, <3>1 DEF Named, Empty
  <2> QED BY <2>1 DEF Named
<1>16. Sound(c2, Y)
  BY <1>8, <1>9, <1>10, <1>11, <1>12, <1>13, <1>14, <1>15 DEF Sound
<1> QED BY <1>4, <1>5, <1>16

-----------------------------------------------------------------------------
(***************************************************************************)
(* A struct File gets another name, type or size.                          *)
(***************************************************************************)
\* What f has to be for it: blocks are there for the type and within the size.
Fits(c, l, f) ==
  /\ f \in FileRecs /\ f.ptr = Rec(c, l).ptr /\ f.ind = Rec(c, l).ind
  /\ f.type \in {FTYPE_REG, FTYPE_DIR}
  /\ f.type = Rec(c, l).type \/ Empty(c, l)
  /\ l = ROOT => f.type = FTYPE_DIR /\ f.name # ""
  /\ l # ROOT => f.name \in Names \cup {""}
  /\ f.name = "" => f.size = 0 /\ \A i \in Held : At(c, l, i) = 0
  /\ f.type = FTYPE_DIR => Whole(f.size)
  /\ \A i \in Held : At(c, l, i) # 0 => IF f.type = FTYPE_DIR THEN Low(i) < f.size \div BY2BLK
                                                            ELSE Low(i) <= f.size \div BY2BLK

\* All numbers and files are as before, and the struct Files but l.
Labelled(c, c2, l, f) ==
  /\ AllOf(c2) = AllOf(c) /\ c2[BITMAP] = c[BITMAP]
  /\ \A k \in AllOf(c) : SameAt(c, c2, k) /\ Rec(c2, k) = IF k = l THEN f ELSE Rec(c, k)
  /\ StoredAt(c, c2, l)

\* A store of a struct File that keeps its numbers keeps the disk sound.
LEMMA Relabel ==
  ASSUME NEW c, NEW X, Sound(c, X), NEW l \in AllOf(c), NEW f, Fits(c, l, f), NEW c2, c2 = PutRec(c, l, f)
  PROVE  Sound(c2, X) /\ Labelled(c, c2, l, f)
<1>1. /\ Boot(c) /\ Owns(c, X) /\ Once(c) /\ Kept(c, X) /\ Blank(c, X) /\ Kinds(c) /\ Sized(c) /\ Named(c)
      /\ l \in Locs /\ f \in FileRecs
  BY AllIn DEF Sound, Fits
<1>2. Stored(c, c2, l, f)
  BY <1>1, StoreRec
<1>3. Boot(c2) /\ c2[BITMAP] = c[BITMAP]
  BY <1>1, <1>2, StoreBoot DEF Fits
<1>4. FreeOf(c2) = FreeOf(c)
  BY <1>3 DEF FreeOf
<1>5. \A k \in AllOf(c) : Rec(c2, k) = IF k = l THEN f ELSE Rec(c, k)
  BY <1>2, AllIn DEF Stored
<1>6. \A k \in AllOf(c) : SameAt(c, c2, k)
  <2>1. \A k \in AllOf(c) : k # l => SameAt(c, c2, k)
    BY <1>1, <1>2, OthersKept
  <2>2. SameAt(c, c2, l)
    <3>1. Rec(c, l).ind # 0 => In(c2, Rec(c, l).ind) = In(c, Rec(c, l).ind)
      <4> SUFFICES ASSUME Rec(c, l).ind # 0 PROVE In(c2, Rec(c, l).ind) = In(c, Rec(c, l).ind)
        OBVIOUS
      <4>1. At(c, l, NINDIRECT) = Rec(c, l).ind /\ NINDIRECT \in Held
        BY HeldIs
      <4>2. Rec(c, l).ind # l[1]
        BY <1>1, <4>1, Apart
      <4> QED BY <1>2, <4>2 DEF Stored, In
    <3>2. Rec(c2, l) = f /\ f.ptr = Rec(c, l).ptr /\ f.ind = Rec(c, l).ind
      BY <1>5 DEF Fits
    <3> QED BY <3>1, <3>2 DEF SameAt, At, Num
  <2> QED BY <2>1, <2>2
<1>7. \A k \in AllOf(c), j \in Held : At(c2, k, j) = At(c, k, j)
  BY <1>6 DEF SameAt
<1>8. StoredAt(c, c2, l)
  BY <1>2, BlockSets DEF Stored, StoredAt
<1>9. AllOf(c2) = AllOf(c)
  <2>1. CASE f.type = Rec(c, l).type
    <3>1. \A k \in AllOf(c) : IsDir(c2, k) <=> IsDir(c, k)
      BY <1>5, <2>1 DEF IsDir
    <3> QED BY <1>6, <3>1, SameTree
  <2>2. CASE Empty(c, l)
    <3>1. Kids(c, l) = {} /\ Kids(c2, l) = {}
      <4>1. \A i \in Idx : Num(c, l, i) = 0 /\ Num(c2, l, i) = 0
        BY <1>7, <2>2, HeldIs DEF Empty
      <4>2. \A x \in Locs : x[1] # 0
        BY PlaceOf, BlockSets
      <4> QED BY <4>1, <4>2 DEF Kids
    <3>2. Closed(c2, AllOf(c))
      <4>1. ASSUME NEW k \in AllOf(c), IsDir(c2, k) PROVE Kids(c2, k) \subseteq AllOf(c)
        <5>1. CASE k = l
          BY <3>1, <5>1
        <5>2. CASE k # l
          <6>1. IsDir(c, k) /\ Kids(c2, k) = Kids(c, k)
            BY <1>5, <1>6, <4>1, <5>2, SameKids DEF IsDir
          <6> QED BY <6>1, AllClosed DEF Closed
        <5> QED BY <5>1, <5>2
      <4> QED BY <4>1, AllIn DEF Closed
    <3>3. AllOf(c2) \subseteq AllOf(c)
      BY <3>2, AllIn, AllLeast
    <3>4. Closed(c, AllOf(c2))
      <4>1. ASSUME NEW k \in AllOf(c2), IsDir(c, k) PROVE Kids(c, k) \subseteq AllOf(c2)
        <5>1. CASE k = l
          BY <3>1, <5>1
        <5>2. CASE k # l
          <6>1. IsDir(c2, k) /\ Kids(c2, k) = Kids(c, k)
            BY <1>5, <1>6, <3>3, <4>1, <5>2, SameKids DEF IsDir
          <6> QED BY <6>1, AllClosed DEF Closed
        <5> QED BY <5>1, <5>2
      <4> QED BY <4>1, AllIn DEF Closed
    <3>5. AllOf(c) \subseteq AllOf(c2)
      BY <3>4, AllIn, AllLeast
    <3> QED BY <3>3, <3>5
  <2> QED BY <2>1, <2>2 DEF Fits
<1>10. Owns(c2, X)
  BY <1>1, <1>4, <1>7, <1>9 DEF Owns
<1>11. Once(c2)
  <2>1. ASSUME NEW k \in AllOf(c2), NEW n \in AllOf(c2), NEW j \in Held, NEW h \in Held,
               At(c2, k, j) # 0, At(c2, k, j) = At(c2, n, h)
        PROVE  k = n /\ j = h
    <3>1. k \in AllOf(c) /\ n \in AllOf(c)
      BY <1>9
    <3>2. At(c, k, j) # 0 /\ At(c, k, j) = At(c, n, h)
      BY <1>7, <2>1, <3>1
    <3> QED BY <1>1, <3>1, <3>2, OnlyOnce
  <2> QED BY ONLY <2>1 DEF Once
<1>12. Kept(c2, X)
  <2>1. ASSUME NEW b \in Data \ (FreeOf(c2) \cup X) PROVE \E k \in AllOf(c2), j \in Held : At(c2, k, j) = b
    <3>1. PICK k \in AllOf(c), j \in Held : At(c, k, j) = b
      BY <1>1, <1>4, <2>1 DEF Kept
    <3> QED BY <1>7, <1>9, <3>1
  <2> QED BY <2>1 DEF Kept
<1>13. Blank(c2, X)
  <2>1. \A b \in FreeOf(c) \cup X : c2[b] = Word(0)
    BY ONLY <1>8, Sound(c, X), l \in AllOf(c), LooseKept
  <2> QED BY <1>1, <1>4, <2>1 DEF Blank
<1>14. Kinds(c2)
  <2>1. ASSUME NEW k \in AllOf(c2) PROVE Kind(c2, k)
    <3>1. k \in AllOf(c) /\ Kind(c, k)
      BY <1>1, <1>9 DEF Kinds
    <3>2. ASSUME NEW j \in Held, At(c2, k, j) # 0 PROVE ReadAs(c2, k, j, c2[At(c2, k, j)])
      <4>1. At(c, k, j) # 0 /\ At(c2, k, j) = At(c, k, j)
        BY <1>7, <3>1, <3>2
      <4>2. ReadAs(c, k, j, c2[At(c, k, j)])
        BY <1>8, <3>1, <4>1, ReadKept
      <4>3. IsDir(c2, k) <=> IsDir(c, k)
        <5>1. CASE k # l
          BY <1>5, <3>1, <5>1 DEF IsDir
        <5>2. CASE k = l
          BY <1>5, <3>1, <4>1, <5>2 DEF IsDir, Fits, Empty
        <5> QED BY <5>1, <5>2
      <4> QED BY <4>1, <4>2, <4>3 DEF ReadAs
    <3>3. Rec(c2, k).type \in {FTYPE_REG, FTYPE_DIR}
      <4>1. CASE k = l
        BY <1>5, <3>1, <4>1 DEF Fits
      <4>2. CASE k # l
        BY <1>5, <3>1, <4>2, KindIs
      <4> QED BY <4>1, <4>2
    <3> QED BY <3>2, <3>3, KindIs
  <2> QED BY <2>1 DEF Kinds
<1>15. Sized(c2)
  <2>1. ASSUME NEW k \in AllOf(c2)
        PROVE  (IsDir(c2, k) => Whole(Rec(c2, k).size)) /\ \A j \in Held : At(c2, k, j) # 0 => Room(c2, k, j)
    <3>1. k \in AllOf(c) /\ \A j \in Held : At(c2, k, j) = At(c, k, j)
      BY <1>7, <1>9
    <3>2. CASE k # l
      <4>1. Rec(c2, k) = Rec(c, k)
        BY <1>5, <3>1, <3>2
      <4>2. (IsDir(c2, k) <=> IsDir(c, k)) /\ \A j \in Held : Room(c2, k, j) <=> Room(c, k, j)
        BY <4>1 DEF Room, IsDir
      <4> QED BY <1>1, <3>1, <4>1, <4>2 DEF Sized
    <3>3. CASE k = l
      <4>1. Rec(c2, k) = f /\ (IsDir(c2, k) <=> f.type = FTYPE_DIR)
        BY <1>5, <3>1, <3>3 DEF IsDir
      <4> QED BY <3>1, <3>3, <4>1 DEF Room, Fits
    <3> QED BY <3>2, <3>3
  <2> QED BY <2>1 DEF Sized
<1>16. Named(c2)
  <2>1. ASSUME NEW k \in AllOf(c2) \ {ROOT}
        PROVE  Rec(c2, k).name \in Names \cup {""} /\ (Rec(c2, k).name = "" => Empty(c2, k))
    <3>1. k \in AllOf(c) /\ \A j \in Held : At(c2, k, j) = At(c, k, j)
      BY <1>7, <1>9
    <3>2. CASE k # l
      <4>1. Rec(c2, k) = Rec(c, k)
        BY <1>5, <3>1, <3>2
      <4> QED BY <1>1, <2>1, <3>1, <4>1 DEF Named, Empty
    <3>3. CASE k = l
      <4>1. Rec(c2, k) = f
        BY <1>5, <3>1, <3>3
      <4> QED BY <2>1, <3>1, <3>3, <4>1 DEF Fits, Empty
    <3> QED BY <3>2, <3>3
  <2> QED BY <2>1 DEF Named
<1>17. Sound(c2, X)
  BY <1>3, <1>10, <1>11, <1>12, <1>13, <1>14, <1>15, <1>16 DEF Sound
<1> QED BY <1>3, <1>5, <1>6, <1>8, <1>9, <1>17 DEF Labelled

-----------------------------------------------------------------------------
(***************************************************************************)
(* A program writes into a block of its file.                              *)
(***************************************************************************)
Filled(c, b, w) == [c EXCEPT ![b] = Word(w)]

\* What a program writes into a block of its file keeps the disk sound.
LEMMA Overwrite ==
  ASSUME NEW c, NEW X, Sound(c, X), NEW l \in AllOf(c), ~IsDir(c, l), NEW i \in Idx, NEW b, b = Num(c, l, i), b # 0,
         NEW w \in Nat, NEW c2, c2 = Filled(c, b, w)
  PROVE  /\ Sound(c2, X) /\ AllOf(c2) = AllOf(c) /\ b \in Data
         /\ \A k \in AllOf(c) : Rec(c2, k) = Rec(c, k) /\ SameAt(c, c2, k)
         /\ \A x \in Blocks \ {b} : c2[x] = c[x]
<1>1. /\ Boot(c) /\ Owns(c, X) /\ Once(c) /\ Kept(c, X) /\ Blank(c, X) /\ Kinds(c) /\ Sized(c) /\ Named(c)
  BY DEF Sound
<1>2. i \in Held /\ i # NINDIRECT /\ At(c, l, i) = b
  BY HeldIs
<1>3. b \in Data \ (FreeOf(c) \cup X)
  BY <1>1, <1>2 DEF Owns
<1>4. Word(w) \in Contents
  BY ContentKinds
<1>5. c2 \in Conts /\ c2[b] = Word(w) /\ \A x \in Blocks \ {b} : c2[x] = c[x]
  BY <1>1, <1>3, <1>4, BlockSets DEF Conts, Boot, Filled
<1>6. ASSUME NEW k \in AllOf(c) PROVE Rec(c2, k) = Rec(c, k) /\ SameAt(c, c2, k)
  <2>1. k \in Locs /\ k[1] \in Blocks
    BY AllIn, PlaceOf
  <2>2. k[1] # b
    BY <1>1, <1>2, Apart
  <2>3. Rec(c2, k) = Rec(c, k)
    BY <1>5, <2>1, <2>2 DEF Rec
  <2>4. ASSUME Rec(c, k).ind # 0 PROVE c2[Rec(c, k).ind] = c[Rec(c, k).ind]
    <3>1. NINDIRECT \in Held /\ At(c, k, NINDIRECT) = Rec(c, k).ind
      BY HeldIs
    <3>2. Rec(c, k).ind \in Blocks
      BY <1>1, <2>4, <3>1, BlockSets DEF Owns
    <3>3. Rec(c, k).ind # b
      BY <1>1, <1>2, <2>4, <3>1, OnlyOnce
    <3> QED BY <1>5, <3>2, <3>3
  <2> QED BY <1>1, <2>1, <2>3, <2>4, SameNumbers
<1>7. \A k \in AllOf(c) : IsDir(c2, k) <=> IsDir(c, k)
  BY <1>6 DEF IsDir
<1>8. AllOf(c2) = AllOf(c)
  BY <1>6, <1>7, SameTree
<1>9. \A k \in AllOf(c), j \in Held : At(c2, k, j) = At(c, k, j)
  BY <1>6 DEF SameAt
<1>10. c2[BITMAP] = c[BITMAP] /\ FreeOf(c2) = FreeOf(c) /\ c2[SUPER] = c[SUPER]
  BY <1>3, <1>5, BlockSets DEF FreeOf
<1>11. Boot(c2)
  <2>1. IsDir(c2, ROOT) /\ Rec(c2, ROOT).name # ""
    BY <1>1, <1>6, <1>7, AllIn DEF Boot
  <2>2. ASSUME NEW x \in Data, c2[x].k = "dir" PROVE c2[x].f \in [Slots -> FileRecs]
    <3>1. x # b
      BY <1>5, <2>2 DEF Word
    <3>2. c2[x] = c[x]
      BY <1>5, <3>1, BlockSets
    <3> QED BY <1>1, <2>2, <3>2 DEF Boot
  <2> QED BY <1>1, <1>5, <1>10, <2>1, <2>2 DEF Boot
<1>12. Owns(c2, X)
  <2>1. ASSUME NEW k \in AllOf(c2), NEW j \in Held, At(c2, k, j) # 0 PROVE At(c2, k, j) \in Data \ (FreeOf(c2) \cup X)
    <3>1. k \in AllOf(c) /\ At(c2, k, j) = At(c, k, j)
      BY <1>8, <1>9
    <3> QED BY <1>1, <1>10, <2>1, <3>1 DEF Owns
  <2> QED BY ONLY <2>1 DEF Owns
<1>13. Once(c2)
  <2>1. ASSUME NEW k \in AllOf(c2), NEW n \in AllOf(c2), NEW j \in Held, NEW h \in Held,
               At(c2, k, j) # 0, At(c2, k, j) = At(c2, n, h)
        PROVE  k = n /\ j = h
    <3>1. k \in AllOf(c) /\ n \in AllOf(c)
      BY <1>8
    <3>2. At(c, k, j) # 0 /\ At(c, k, j) = At(c, n, h)
      BY <1>9, <2>1, <3>1
    <3> QED BY <1>1, <3>1, <3>2, OnlyOnce
  <2> QED BY ONLY <2>1 DEF Once
<1>14. Kept(c2, X)
  <2>1. ASSUME NEW x \in Data \ (FreeOf(c2) \cup X) PROVE \E k \in AllOf(c2), j \in Held : At(c2, k, j) = x
    <3>1. PICK k \in AllOf(c), j \in Held : At(c, k, j) = x
      BY <1>1, <1>10, <2>1 DEF Kept
    <3> QED BY <1>8, <1>9, <3>1
  <2> QED BY <2>1 DEF Kept
<1>15. Blank(c2, X)
  <2>1. \A x \in FreeOf(c) \cup X : x # b /\ x \in Blocks
    BY <1>1, <1>3, BlockSets DEF Blank, Boot
  <2> QED BY <1>1, <1>5, <1>10, <2>1 DEF Blank
<1>16. Kinds(c2)
  <2>1. ASSUME NEW k \in AllOf(c2) PROVE Kind(c2, k)
    <3>1. k \in AllOf(c) /\ Kind(c, k) /\ Rec(c2, k) = Rec(c, k)
      BY <1>1, <1>6, <1>8 DEF Kinds
    <3>2. ASSUME NEW j \in Held, At(c2, k, j) # 0 PROVE ReadAs(c2, k, j, c2[At(c2, k, j)])
      <4>1. At(c, k, j) # 0 /\ At(c2, k, j) = At(c, k, j)
        BY <1>9, <3>1, <3>2
      <4>2. ReadAs(c, k, j, c[At(c, k, j)])
        BY <3>1, <4>1, KindIs
      <4>3. CASE At(c, k, j) = b
        <5>1. k = l /\ j = i
          BY <1>1, <1>2, <3>1, <4>1, <4>3, OnlyOnce
        <5>2. ~IsDir(c2, k) /\ j # NINDIRECT
          BY <1>2, <1>7, <5>1
        <5>3. c2[At(c2, k, j)] = Word(w) /\ Word(w).k = "word"
          BY <1>5, <4>1, <4>3 DEF Word
        <5> QED BY <5>2, <5>3 DEF ReadAs
      <4>4. CASE At(c, k, j) # b
        <5>1. At(c, k, j) \in Blocks
          BY <1>1, <3>1, <4>1, BlockSets DEF Owns
        <5>2. c2[At(c, k, j)] = c[At(c, k, j)]
          BY <1>5, <4>4, <5>1
        <5> QED BY <1>7, <3>1, <4>1, <4>2, <5>2 DEF ReadAs
      <4> QED BY <4>3, <4>4
    <3> QED BY <3>1, <3>2, KindIs
  <2> QED BY <2>1 DEF Kinds
<1>17. Sized(c2)
  <2>1. ASSUME NEW k \in AllOf(c2)
        PROVE  (IsDir(c2, k) => Whole(Rec(c2, k).size)) /\ \A j \in Held : At(c2, k, j) # 0 => Room(c2, k, j)
    <3>1. k \in AllOf(c) /\ Rec(c2, k) = Rec(c, k) /\ (IsDir(c2, k) <=> IsDir(c, k))
      BY <1>6, <1>7, <1>8
    <3>2. \A j \in Held : Room(c2, k, j) <=> Room(c, k, j)
      BY <3>1 DEF Room
    <3> QED BY <1>1, <1>9, <3>1, <3>2 DEF Sized
  <2> QED BY <2>1 DEF Sized
<1>18. Named(c2)
  <2>1. ASSUME NEW k \in AllOf(c2) \ {ROOT}
        PROVE  Rec(c2, k).name \in Names \cup {""} /\ (Rec(c2, k).name = "" => Empty(c2, k))
    <3>1. k \in AllOf(c) /\ Rec(c2, k) = Rec(c, k) /\ \A j \in Held : At(c2, k, j) = At(c, k, j)
      BY <1>6, <1>8, <1>9
    <3> QED BY <1>1, <2>1, <3>1 DEF Named, Empty
  <2> QED BY <2>1 DEF Named
<1>19. Sound(c2, X)
  BY <1>11, <1>12, <1>13, <1>14, <1>15, <1>16, <1>17, <1>18 DEF Sound
<1> QED BY <1>3, <1>5, <1>6, <1>8, <1>19

-----------------------------------------------------------------------------
(***************************************************************************)
(* What a request leaves alone: the files but E.                           *)
(***************************************************************************)
HasName(c, k)     == Rec(c, k).name # ""
SameFile(c, c2, k) == /\ Rec(c2, k).size = Rec(c, k).size
                      /\ \A j \in Idx : /\ Num(c2, k, j) = Num(c, k, j)
                                        /\ Num(c, k, j) # 0 => c2[Num(c, k, j)] = c[Num(c, k, j)]

\* Every file with a name keeps name and kind, a directory what it has and any other
\* but those in E all that is in it; no file gets a name.
Spares(c, c2, E) ==
  /\ AllOf(c) \subseteq AllOf(c2)
  /\ \A k \in AllOf(c) : HasName(c, k) =>
       /\ Rec(c2, k).name = Rec(c, k).name
       /\ IsDir(c2, k) <=> IsDir(c, k)
       /\ IsDir(c, k) => Rec(c2, k).size >= Rec(c, k).size
       /\ ~IsDir(c, k) /\ k \notin E => SameFile(c, c2, k)
  /\ \A k \in AllOf(c2) : HasName(c2, k) => k \in AllOf(c) /\ HasName(c, k)

\* Steps that spare the files but E do so one after the other.
LEMMA SparesTrans ==
  ASSUME NEW c, Boot(c), NEW c2, Boot(c2), NEW c3, Boot(c3), NEW E, Spares(c, c2, E), Spares(c2, c3, E)
  PROVE  Spares(c, c3, E)
<1>1. AllOf(c) \subseteq AllOf(c3)
  BY DEF Spares
<1>2. ASSUME NEW k \in AllOf(c), HasName(c, k)
      PROVE  /\ Rec(c3, k).name = Rec(c, k).name
             /\ IsDir(c3, k) <=> IsDir(c, k)
             /\ IsDir(c, k) => Rec(c3, k).size >= Rec(c, k).size
             /\ ~IsDir(c, k) /\ k \notin E => SameFile(c, c3, k)
  <2>1. k \in AllOf(c2) /\ HasName(c2, k) /\ Rec(c2, k).name = Rec(c, k).name /\ (IsDir(c2, k) <=> IsDir(c, k))
        /\ (IsDir(c, k) => Rec(c2, k).size >= Rec(c, k).size)
    BY <1>2 DEF Spares, HasName
  <2>2. Rec(c3, k).name = Rec(c2, k).name /\ (IsDir(c3, k) <=> IsDir(c2, k))
        /\ (IsDir(c2, k) => Rec(c3, k).size >= Rec(c2, k).size)
    BY <2>1 DEF Spares
  <2>3. Rec(c, k).size \in Nat /\ Rec(c2, k).size \in Nat /\ Rec(c3, k).size \in Nat
    BY AllIn, RecType, RecFields
  <2>4. ASSUME ~IsDir(c, k), k \notin E PROVE SameFile(c, c3, k)
    <3>1. SameFile(c, c2, k)
      BY <1>2, <2>4 DEF Spares
    <3>2. SameFile(c2, c3, k)
      BY <2>1, <2>4 DEF Spares
    <3> QED BY <3>1, <3>2 DEF SameFile
  <2> QED BY <2>1, <2>2, <2>3, <2>4
<1>3. \A k \in AllOf(c3) : HasName(c3, k) => k \in AllOf(c) /\ HasName(c, k)
  BY DEF Spares
<1> QED BY <1>1, <1>2, <1>3 DEF Spares

\* What spares every file spares those that are not in E.
LEMMA SparesMore ==
  ASSUME NEW c, NEW c2, NEW E, Spares(c, c2, {})
  PROVE  Spares(c, c2, E)
BY DEF Spares

\* The data of a file that is no directory is not where the structures are.
LEMMA DataKept ==
  ASSUME NEW c, NEW X, Sound(c, X), NEW l \in AllOf(c), NEW c2, StoredAt(c, c2, l),
         NEW k \in AllOf(c), ~IsDir(c, k), NEW j \in Idx, Num(c, k, j) # 0
  PROVE  c2[Num(c, k, j)] = c[Num(c, k, j)]
<1>1. Owns(c, X) /\ Once(c)
  BY DEF Sound
<1>2. j \in Held /\ j # NINDIRECT /\ At(c, k, j) = Num(c, k, j)
  BY HeldIs
<1>3. Num(c, k, j) \in Data
  BY <1>1, <1>2 DEF Owns
<1>4. Num(c, k, j) # l[1]
  BY <1>1, <1>2, Apart
<1>5. Num(c, k, j) # Rec(c, l).ind
  <2> SUFFICES ASSUME Num(c, k, j) = Rec(c, l).ind PROVE FALSE
    OBVIOUS
  <2>1. NINDIRECT \in Held /\ At(c, k, j) = At(c, l, NINDIRECT)
    BY <1>2, HeldIs
  <2> QED BY <1>1, <1>2, <2>1, OnlyOnce
<1> QED BY <1>3, <1>4, <1>5 DEF StoredAt

\* A file that keeps its numbers when another is stored keeps what is in it.
LEMMA FileKept ==
  ASSUME NEW c, NEW X, Sound(c, X), NEW l \in AllOf(c), NEW c2, StoredAt(c, c2, l), NEW k \in AllOf(c), ~IsDir(c, k),
         Rec(c2, k).size = Rec(c, k).size, \A j \in Idx : Num(c2, k, j) = Num(c, k, j)
  PROVE  SameFile(c, c2, k)
BY DataKept DEF SameFile

\* Attaching a block changes no file but the one that gets it.
LEMMA AttachSpares ==
  ASSUME NEW c, NEW X, Sound(c, X), NEW l \in AllOf(c), NEW i \in Held, NEW v \in X, NEW c2, Replaced(c, c2, l, i, v),
         At(c, l, i) = 0, Room(c, l, i), HasName(c, l), NEW E, i = NINDIRECT \/ IsDir(c, l) \/ l \in E
  PROVE  Spares(c, c2, E)
<1>1. Sound(c2, X \ {v}) /\ AllOf(c2) = AllOf(c) \cup (IF IsDir(c, l) /\ i # NINDIRECT THEN SlotsIn(v) ELSE {})
  BY Attach DEF HasName
<1>2. StoredAt(c, c2, l) /\ Boot(c)
  BY ReplacedAt DEF Sound
<1>3. ASSUME NEW k \in AllOf(c) PROVE SameRec(c, c2, k) /\ (IsDir(c2, k) <=> IsDir(c, k)) /\ Rec(c, k).size \in Nat
  BY <1>2, SameDir, AllIn, RecType, RecFields DEF Replaced
<1>4. ASSUME NEW k \in AllOf(c), ~IsDir(c, k), k \notin E PROVE SameFile(c, c2, k)
  <2>1. \A j \in Idx : Num(c2, k, j) = Num(c, k, j)
    <3> SUFFICES ASSUME NEW j \in Idx PROVE Num(c2, k, j) = Num(c, k, j)
      OBVIOUS
    <3>1. j \in Held /\ j # NINDIRECT /\ At(c, k, j) = Num(c, k, j) /\ At(c2, k, j) = Num(c2, k, j)
      BY HeldIs
    <3>2. k = l => i = NINDIRECT
      BY <1>4
    <3> QED BY <3>1, <3>2 DEF Replaced, SameAt
  <2>2. Rec(c2, k).size = Rec(c, k).size
    BY <1>3 DEF SameRec
  <2> QED BY <1>2, <1>4, <2>1, <2>2, FileKept
<1>5. ASSUME NEW k \in AllOf(c2), HasName(c2, k) PROVE k \in AllOf(c) /\ HasName(c, k)
  <2>1. CASE k \in AllOf(c)
    BY <1>3, <1>5, <2>1 DEF HasName, SameRec
  <2>2. CASE k \in SlotsIn(v)
    <3>1. v \in Data /\ c2[v] = Word(0)
      <4>1. \A b \in FreeOf(c) \cup X : c2[b] = Word(0)
        BY ONLY <1>2, Sound(c, X), l \in AllOf(c), LooseKept
      <4> QED BY <4>1 DEF Sound, Blank
    <3>2. k \in Locs /\ k # ROOT
      BY <2>2, <3>1, PlaceOf, BlockSets DEF SlotsIn
    <3>3. Fresh(c2, k)
      BY <2>2, <3>1, <3>2, BlankSlot DEF SlotsIn
    <3> QED BY <1>5, <3>3 DEF Fresh, HasName
  <2> QED BY <1>1, <2>1, <2>2
<1>6. AllOf(c) \subseteq AllOf(c2)
  BY <1>1
<1>7. ASSUME NEW k \in AllOf(c), HasName(c, k)
      PROVE  /\ Rec(c2, k).name = Rec(c, k).name
             /\ IsDir(c2, k) <=> IsDir(c, k)
             /\ IsDir(c, k) => Rec(c2, k).size >= Rec(c, k).size
             /\ ~IsDir(c, k) /\ k \notin E => SameFile(c, c2, k)
  BY <1>3, <1>4 DEF SameRec
<1> QED BY <1>5, <1>6, <1>7 DEF Spares

\* Taking a block from a file changes no other file.
LEMMA DetachSpares ==
  ASSUME NEW c, NEW X, Sound(c, X), NEW l \in AllOf(c), ~IsDir(c, l), NEW i \in Held, At(c, l, i) # 0,
         c[At(c, l, i)] = Word(0), NEW c2, Replaced(c, c2, l, i, 0)
  PROVE  Spares(c, c2, {l})
<1>1. AllOf(c2) = AllOf(c)
  <2>1. PICK v : v = At(c, l, i)
    OBVIOUS
  <2>2. v # 0 /\ c[v] = Word(0)
    BY <2>1
  <2>3. Sound(c2, X \cup {v}) /\ AllOf(c2) = AllOf(c)
    BY ONLY <2>1, <2>2, Detach, Sound(c, X), l \in AllOf(c), ~IsDir(c, l), i \in Held, Replaced(c, c2, l, i, 0)
  <2> QED BY <2>3
<1>2. StoredAt(c, c2, l) /\ Boot(c)
  BY ReplacedAt DEF Sound
<1>3. ASSUME NEW k \in AllOf(c) PROVE SameRec(c, c2, k) /\ (IsDir(c2, k) <=> IsDir(c, k)) /\ Rec(c, k).size \in Nat
  BY <1>2, SameDir, AllIn, RecType, RecFields DEF Replaced
<1>4. ASSUME NEW k \in AllOf(c), ~IsDir(c, k), k # l PROVE SameFile(c, c2, k)
  <2>1. SameAt(c, c2, k)
    BY <1>4 DEF Replaced
  <2>2. \A j \in Idx : Num(c2, k, j) = Num(c, k, j)
    BY <2>1, HeldIs DEF SameAt
  <2>3. Rec(c2, k).size = Rec(c, k).size
    BY <1>3 DEF SameRec
  <2> QED BY <1>2, <1>4, <2>2, <2>3, FileKept
<1>5. \A k \in AllOf(c2) : HasName(c2, k) => k \in AllOf(c) /\ HasName(c, k)
  BY <1>1, <1>3 DEF HasName, SameRec
<1>6. ASSUME NEW k \in AllOf(c), HasName(c, k)
      PROVE  /\ Rec(c2, k).name = Rec(c, k).name
             /\ IsDir(c2, k) <=> IsDir(c, k)
             /\ IsDir(c, k) => Rec(c2, k).size >= Rec(c, k).size
             /\ ~IsDir(c, k) /\ k \notin {l} => SameFile(c, c2, k)
  BY <1>3, <1>4 DEF SameRec
<1> QED BY <1>1, <1>5, <1>6 DEF Spares

\* A file with a name keeps it and its kind, and a directory does not shrink.
LEMMA RelabelSpares ==
  ASSUME NEW c, NEW X, Sound(c, X), NEW l \in AllOf(c), NEW f, Fits(c, l, f), NEW c2, Labelled(c, c2, l, f),
         HasName(c, l), f.name = Rec(c, l).name, f.type = Rec(c, l).type, NEW E,
         (IsDir(c, l) /\ f.size >= Rec(c, l).size) \/ (~IsDir(c, l) /\ l \in E) \/ f = Rec(c, l)
  PROVE  Spares(c, c2, E)
<1>1. AllOf(c2) = AllOf(c) /\ StoredAt(c, c2, l) /\ Boot(c)
  BY DEF Labelled, Sound
<1>2. ASSUME NEW k \in AllOf(c), k # l PROVE Rec(c2, k) = Rec(c, k)
  BY <1>2 DEF Labelled
<1>3. Rec(c2, l) = f
  BY DEF Labelled
<1>4. ASSUME NEW k \in AllOf(c), ~IsDir(c, k), k \notin E PROVE SameFile(c, c2, k)
  <2>1. SameAt(c, c2, k)
    BY DEF Labelled
  <2>2. \A j \in Idx : Num(c2, k, j) = Num(c, k, j)
    BY <2>1, HeldIs DEF SameAt
  <2>3. Rec(c2, k) = Rec(c, k)
    BY <1>2, <1>3, <1>4
  <2> QED BY <1>1, <1>4, <2>2, <2>3, FileKept
<1>5. ASSUME NEW k \in AllOf(c), HasName(c, k)
      PROVE  /\ Rec(c2, k).name = Rec(c, k).name
             /\ IsDir(c2, k) <=> IsDir(c, k)
             /\ IsDir(c, k) => Rec(c2, k).size >= Rec(c, k).size
             /\ ~IsDir(c, k) /\ k \notin E => SameFile(c, c2, k)
  <2>1. Rec(c, k).size \in Nat
    BY <1>1, AllIn, RecType, RecFields
  <2>2. CASE k # l
    BY <1>2, <1>4, <2>1, <2>2 DEF IsDir
  <2>3. CASE k = l
    BY <1>3, <1>4, <2>1, <2>3 DEF IsDir
  <2> QED BY <2>2, <2>3
<1>6. ASSUME NEW k \in AllOf(c2), HasName(c2, k) PROVE k \in AllOf(c) /\ HasName(c, k)
  <2>1. CASE k # l
    BY <1>1, <1>2, <1>6, <2>1 DEF HasName
  <2>2. CASE k = l
    BY <1>1, <2>2
  <2> QED BY <2>1, <2>2
<1> QED BY <1>1, <1>5, <1>6 DEF Spares

\* A change of the bitmap changes no file.
LEMMA BitsSpare ==
  ASSUME NEW c, NEW X, Sound(c, X), NEW c2, SameBlocks(c, c2), AllOf(c2) = AllOf(c),
         \A k \in AllOf(c) : Rec(c2, k) = Rec(c, k) /\ SameAt(c, c2, k), NEW E
  PROVE  Spares(c, c2, E)
<1>1. ASSUME NEW k \in AllOf(c) PROVE (IsDir(c2, k) <=> IsDir(c, k)) /\ Rec(c, k).size \in Nat
  BY AllIn, RecType, RecFields DEF IsDir, Sound
<1>2. ASSUME NEW k \in AllOf(c) PROVE SameFile(c, c2, k)
  <2>1. ASSUME NEW j \in Idx PROVE Num(c2, k, j) = Num(c, k, j) /\ (Num(c, k, j) # 0 => c2[Num(c, k, j)] = c[Num(c, k, j)])
    <3>1. j \in Held /\ At(c, k, j) = Num(c, k, j) /\ At(c2, k, j) = Num(c2, k, j)
      BY HeldIs
    <3>2. Num(c2, k, j) = Num(c, k, j)
      BY <3>1 DEF SameAt
    <3>3. Num(c, k, j) # 0 => Num(c, k, j) \in Data
      BY <3>1 DEF Sound, Owns
    <3> QED BY <3>2, <3>3, BlockSets DEF SameBlocks
  <2> QED BY <2>1 DEF SameFile
<1>3. ASSUME NEW k \in AllOf(c)
      PROVE  /\ Rec(c2, k).name = Rec(c, k).name
             /\ IsDir(c2, k) <=> IsDir(c, k)
             /\ IsDir(c, k) => Rec(c2, k).size >= Rec(c, k).size
             /\ ~IsDir(c, k) /\ k \notin E => SameFile(c, c2, k)
  BY <1>1, <1>2
<1>4. \A k \in AllOf(c2) : HasName(c2, k) => k \in AllOf(c) /\ HasName(c, k)
  BY DEF HasName
<1> QED BY <1>3, <1>4 DEF Spares

-----------------------------------------------------------------------------
(***************************************************************************)
(* The memory of a request.                                                *)
(***************************************************************************)
MemRecs == [cache : [Blocks -> Contents \cup {NIL}], unsaved : SUBSET Blocks, dirty : SUBSET Blocks,
            panic : BOOLEAN, mem : SUBSET Blocks, r : Int, loc : Locs, par : Locs \cup {NIL}]

Mapped(m, b) == m.cache[b] # NIL
InCache(m)   == /\ Mapped(m, SUPER) /\ Mapped(m, BITMAP)
                /\ \A b \in m.unsaved \cup m.dirty : Mapped(m, b)
Good(m, X)   == m \in MemRecs /\ ~m.panic /\ InCache(m) /\ Sound(Cont(m), X)

\* A call loads blocks and marks some dirty, but puts none on the list of those that
\* are not on disk.
Loads(m, m2) == /\ m2 \in MemRecs /\ m2.panic = m.panic
                /\ m.dirty \subseteq m2.dirty
                /\ \A b \in Blocks : Mapped(m, b) => Mapped(m2, b)
                /\ \A b \in m2.unsaved \cup m2.dirty : Mapped(m2, b)
Quiet(m, m2) == Loads(m, m2) /\ Cont(m2) = Cont(m) /\ m2.unsaved \subseteq m.unsaved

\* What a file that is no directory has on disk stays there.
Saved(m, m2, E) == \A k \in AllOf(Cont(m)) : HasName(Cont(m), k) /\ ~IsDir(Cont(m), k) /\ k \notin E =>
                     \A j \in Idx : Num(Cont(m), k, j) \in m2.unsaved => Num(Cont(m), k, j) \in m.unsaved

\* What a call does to the files but E: nothing that can be seen.
Frame(m, m2, E) == Loads(m, m2) /\ Spares(Cont(m), Cont(m2), E) /\ Saved(m, m2, E)

\* The types of the server's memory.
LEMMA MemFields ==
  ASSUME NEW m \in MemRecs
  PROVE  /\ m.cache \in [Blocks -> Contents \cup {NIL}] /\ m.unsaved \in SUBSET Blocks /\ m.dirty \in SUBSET Blocks
         /\ m.panic \in BOOLEAN /\ m.mem \in SUBSET Blocks /\ m.r \in Int /\ m.loc \in Locs /\ m.par \in Locs \cup {NIL}
BY DEF MemRecs

\* A block in the cache is what is read.
LEMMA ContIs ==
  ASSUME NEW m, NEW b \in Blocks
  PROVE  Mapped(m, b) => Cont(m)[b] = m.cache[b]
BY DEF Mapped, Cont

\* Returning a value changes nothing else.
LEMMA ReturnIs ==
  ASSUME NEW m \in MemRecs, NEW r \in Int
  PROVE  /\ Return(m, r) \in MemRecs /\ Return(m, r).r = r
         /\ Return(m, r).cache = m.cache /\ Return(m, r).unsaved = m.unsaved /\ Return(m, r).dirty = m.dirty
         /\ Return(m, r).panic = m.panic /\ Return(m, r).mem = m.mem
         /\ Return(m, r).loc = m.loc /\ Return(m, r).par = m.par
         /\ Cont(Return(m, r)) = Cont(m)
<1>1. PICK n : n = Return(m, r)
  OBVIOUS
<1>2. /\ n \in MemRecs /\ n.r = r
      /\ n.cache = m.cache /\ n.unsaved = m.unsaved /\ n.dirty = m.dirty
      /\ n.panic = m.panic /\ n.mem = m.mem /\ n.loc = m.loc /\ n.par = m.par
  BY <1>1 DEF Return, MemRecs
<1>3. Cont(n) = Cont(m)
  BY <1>2 DEF Cont
<1> QED BY <1>1, <1>2, <1>3

\* Only the memory proper counts.
LEMMA SameMemory ==
  ASSUME NEW m, NEW m2 \in MemRecs, m2.cache = m.cache, m2.unsaved = m.unsaved, m2.dirty = m.dirty, m2.panic = m.panic
  PROVE  /\ Cont(m2) = Cont(m) /\ (\A b : Mapped(m2, b) <=> Mapped(m, b))
         /\ InCache(m) => Quiet(m, m2)
         /\ \A X : Good(m, X) => Good(m2, X) /\ Quiet(m, m2)
<1>1. Cont(m2) = Cont(m)
  BY DEF Cont
<1>2. \A b : Mapped(m2, b) <=> Mapped(m, b)
  BY DEF Mapped
<1>3. InCache(m) => Quiet(m, m2) /\ InCache(m2)
  BY <1>1, <1>2 DEF InCache, Quiet, Loads
<1> QED BY <1>1, <1>2, <1>3 DEF Good

\* A quiet call keeps the invariant.
LEMMA QuietGood ==
  ASSUME NEW m, NEW X, Good(m, X), NEW m2, Quiet(m, m2)
  PROVE  Good(m2, X)
BY BlockSets DEF Good, Quiet, Loads, InCache

\* Quiet calls are quiet one after the other.
LEMMA QuietTrans ==
  ASSUME NEW m, NEW m2, NEW m3, Quiet(m, m2), Quiet(m2, m3)
  PROVE  Quiet(m, m3)
BY DEF Quiet, Loads

\* No call is a quiet one.
LEMMA QuietSelf ==
  ASSUME NEW m, NEW X, Good(m, X)
  PROVE  Quiet(m, m)
BY DEF Good, Quiet, Loads, InCache

\* No change spares every file.
LEMMA SparesSelf ==
  ASSUME NEW c, Boot(c), NEW E
  PROVE  Spares(c, c, E)
<1>1. \A k \in AllOf(c) : Rec(c, k).size \in Nat
  BY AllIn, RecType, RecFields
<1> QED BY <1>1 DEF Spares, SameFile

\* A quiet call changes no file.
LEMMA QuietFrame ==
  ASSUME NEW m, NEW X, Good(m, X), NEW m2, Quiet(m, m2), NEW E
  PROVE  Frame(m, m2, E)
<1>1. Spares(Cont(m), Cont(m2), E)
  BY SparesSelf DEF Quiet, Good, Sound
<1> QED BY <1>1 DEF Quiet, Frame, Saved

\* Calls that change only the files in E do so one after the other.
LEMMA FrameTrans ==
  ASSUME NEW m, NEW X, Good(m, X), NEW m2, NEW Y, Good(m2, Y), NEW m3, NEW Z, Good(m3, Z), NEW E,
         Frame(m, m2, E), Frame(m2, m3, E)
  PROVE  Frame(m, m3, E)
<1>1. Boot(Cont(m)) /\ Boot(Cont(m2)) /\ Boot(Cont(m3))
  BY DEF Good, Sound
<1>2. Spares(Cont(m), Cont(m3), E)
  BY <1>1, SparesTrans DEF Frame
<1>3. Loads(m, m3)
  BY DEF Frame, Loads
<1>4. ASSUME NEW k \in AllOf(Cont(m)), HasName(Cont(m), k), ~IsDir(Cont(m), k), k \notin E, NEW j \in Idx,
             Num(Cont(m), k, j) \in m3.unsaved
      PROVE  Num(Cont(m), k, j) \in m.unsaved
  <2>1. /\ k \in AllOf(Cont(m2)) /\ HasName(Cont(m2), k) /\ ~IsDir(Cont(m2), k)
        /\ Num(Cont(m2), k, j) = Num(Cont(m), k, j)
    BY <1>4 DEF Frame, Spares, HasName, SameFile
  <2>2. Num(Cont(m), k, j) \in m2.unsaved
    BY <1>4, <2>1 DEF Frame, Saved
  <2> QED BY <1>4, <2>2 DEF Frame, Saved
<1> QED BY <1>2, <1>3, <1>4 DEF Frame, Saved

\* What changes no file changes none but those in E.
LEMMA FrameMore ==
  ASSUME NEW m, NEW m2, NEW E, Frame(m, m2, {})
  PROVE  Frame(m, m2, E)
BY SparesMore DEF Frame, Saved

-----------------------------------------------------------------------------
(***************************************************************************)
(* Blocks.                                                                 *)
(***************************************************************************)
LEMMA SetMetaIs ==
  ASSUME NEW m \in MemRecs, InCache(m), NEW b \in Blocks, NEW x \in Contents, NEW m2, m2 = SetMeta(m, b, x)
  PROVE  /\ Cont(m2) = [Cont(m) EXCEPT ![b] = x] /\ Mapped(m2, b) /\ m2.cache[b] = x
         /\ m2.unsaved \subseteq m.unsaved /\ b \notin m2.unsaved /\ Loads(m, m2) /\ InCache(m2)
         /\ m2.r = m.r /\ m2.loc = m.loc /\ m2.par = m.par /\ m2.dirty = m.dirty /\ m2.mem = m.mem
<1>1. x # NIL
  BY NilAssumption
<1>2. /\ m2.cache = [m.cache EXCEPT ![b] = x] /\ m2.unsaved = m.unsaved \ {b} /\ m2.dirty = m.dirty
      /\ m2.panic = m.panic /\ m2.r = m.r /\ m2.loc = m.loc /\ m2.par = m.par /\ m2.mem = m.mem /\ m2 \in MemRecs
  BY DEF SetMeta, MemRecs
<1>3. m.cache \in [Blocks -> Contents \cup {NIL}]
  BY MemFields
<1>4. m2.cache[b] = x /\ \A y \in Blocks : y # b => m2.cache[y] = m.cache[y]
  BY <1>2, <1>3
<1>5. \A y \in Blocks : Mapped(m2, y) <=> (y = b \/ Mapped(m, y))
  BY <1>1, <1>4 DEF Mapped
<1>6. Cont(m2) = [Cont(m) EXCEPT ![b] = x]
  BY <1>1, <1>4 DEF Cont
<1>7. m.unsaved \subseteq Blocks /\ m.dirty \subseteq Blocks
  BY MemFields
<1>8. Loads(m, m2) /\ InCache(m2)
  BY <1>2, <1>5, <1>7, BlockSets DEF Loads, InCache
<1> QED BY <1>2, <1>4, <1>5, <1>6, <1>8

\* The bitmap that the server reads is that of the disk.
LEMMA FreeIs ==
  ASSUME NEW m, NEW X, Good(m, X)
  PROVE  Free(m) = FreeOf(Cont(m)) /\ Free(m) \subseteq Data
<1>1. Cont(m)[BITMAP] = m.cache[BITMAP]
  BY BlockSets, ContIs DEF Good, InCache
<1> QED BY <1>1 DEF Free, FreeOf, Good, Sound, Boot

\* What tools/fsformat.c has written.
InitFile == [FileOf(0) EXCEPT !.name = CHOOSE n \in Names : TRUE, !.size = 1, !.ptr[0] = 4]
InitRoot == [FileOf(0) EXCEPT !.name = "/", !.type = FTYPE_DIR, !.size = BY2BLK, !.ptr[0] = 3]
InitDir  == [s \in Slots |-> IF s = 1 THEN InitFile ELSE FileOf(0)]

\* The two struct Files that fsformat writes.
LEMMA InitRecs ==
  /\ InitFile \in FileRecs /\ InitFile.name \in Names /\ InitFile.size = 1 /\ InitFile.type = FTYPE_REG
  /\ InitFile.ind = 0 /\ \A i \in 0 .. NDIRECT - 1 : InitFile.ptr[i] = IF i = 0 THEN 4 ELSE 0
  /\ InitRoot \in FileRecs /\ InitRoot.name = "/" /\ InitRoot.size = BY2BLK /\ InitRoot.type = FTYPE_DIR
  /\ InitRoot.ind = 0 /\ \A i \in 0 .. NDIRECT - 1 : InitRoot.ptr[i] = IF i = 0 THEN 3 ELSE 0
  /\ InitDir \in [Slots -> FileRecs]
<1>1. PICK nm : nm = CHOOSE n \in Names : TRUE
  OBVIOUS
<1>2. nm \in Names
  BY <1>1, ProgramAssumption
<1>3. PICK f0 : f0 = FileOf(0)
  OBVIOUS
<1>4. /\ f0 \in FileRecs /\ f0.type = FTYPE_REG /\ f0.ind = 0 /\ f0.ptr = [i \in 0 .. NDIRECT - 1 |-> 0]
  BY <1>3, FileOfType DEF FileOf, FTYPE_REG
<1>5. PICK f : f = [f0 EXCEPT !.name = nm, !.size = 1, !.ptr[0] = 4]
  OBVIOUS
<1>6. f = InitFile
  BY <1>1, <1>3, <1>5 DEF InitFile
<1>7. /\ f \in FileRecs /\ f.name = nm /\ f.size = 1 /\ f.type = f0.type /\ f.ind = f0.ind /\ f.ptr = [f0.ptr EXCEPT ![0] = 4]
  BY <1>2, <1>4, <1>5 DEF FileRecs
<1>8. \A i \in 0 .. NDIRECT - 1 : f.ptr[i] = IF i = 0 THEN 4 ELSE 0
  BY <1>4, <1>7
<1>9. PICK g : g = [f0 EXCEPT !.name = "/", !.type = FTYPE_DIR, !.size = BY2BLK, !.ptr[0] = 3]
  OBVIOUS
<1>10. g = InitRoot
  BY <1>3, <1>9 DEF InitRoot
<1>11. FTYPE_DIR \in Nat
  BY DEF FTYPE_DIR
<1>12. /\ g \in FileRecs /\ g.name = "/" /\ g.size = BY2BLK /\ g.type = FTYPE_DIR /\ g.ind = f0.ind
       /\ g.ptr = [f0.ptr EXCEPT ![0] = 3]
  BY <1>4, <1>9, <1>11, Numbers DEF FileRecs
<1>13. \A i \in 0 .. NDIRECT - 1 : g.ptr[i] = IF i = 0 THEN 3 ELSE 0
  BY <1>4, <1>12
<1>14. InitDir \in [Slots -> FileRecs]
  BY <1>3, <1>4, <1>6, <1>7 DEF InitDir
<1> QED BY <1>2, <1>4, <1>6, <1>7, <1>8, <1>10, <1>12, <1>13, <1>14

\* The blocks that fsformat writes.
LEMMA ImageIs ==
  /\ Image[SUPER] = Dir(<<InitRoot>>)
  /\ Image[BITMAP] = Bits(5 .. NBLOCKS - 1)
  /\ Image[3] = Dir(InitDir)
  /\ \A b \in Blocks : b > 3 => Image[b] = Word(0)
<1>1. Image = [b \in Blocks |->
                 CASE b = SUPER  -> Dir(<<InitRoot>>)
                   [] b = BITMAP -> Bits(5 .. NBLOCKS - 1)
                   [] b = 3      -> Dir(InitDir)
                   [] b > 3      -> Word(0)]
  BY DEF Image, InitDir, InitFile, InitRoot
<1>2. SUPER = 1 /\ BITMAP = 2 /\ Blocks = 1 .. NBLOCKS - 1 /\ NBLOCKS \in Nat /\ NBLOCKS > 4
  BY Numbers DEF SUPER, BITMAP, Blocks
<1>3. Image[SUPER] = Dir(<<InitRoot>>)
  BY <1>1, <1>2
<1>4. Image[BITMAP] = Bits(5 .. NBLOCKS - 1)
  BY <1>1, <1>2
<1>5. Image[3] = Dir(InitDir)
  BY <1>1, <1>2
<1>6. \A b \in Blocks : b > 3 => Image[b] = Word(0)
  BY <1>1, <1>2
<1> QED BY <1>3, <1>4, <1>5, <1>6

\* What fsformat writes are contents.
LEMMA ImageType ==
  \A b \in Blocks : Image[b] \in Contents
<1>1. \A b \in Blocks : b = SUPER \/ b = BITMAP \/ b = 3 \/ b > 3
  BY Numbers DEF Blocks, SUPER, BITMAP
<1>2. <<InitRoot>> \in [{1} -> FileRecs]
  BY InitRecs
<1>3. Dir(<<InitRoot>>) \in Contents
  BY <1>2, ContentKinds
<1>4. 5 .. NBLOCKS - 1 \in SUBSET Blocks
  BY Numbers DEF Blocks
<1>5. Bits(5 .. NBLOCKS - 1) \in Contents
  BY <1>4, ContentKinds
<1>6. Dir(InitDir) \in Contents /\ Word(0) \in Contents
  BY InitRecs, ContentKinds
<1> QED BY <1>1, <1>3, <1>5, <1>6, ImageIs

\* read_block of a block in use loads it and does not panic.
LEMMA read_block_Quiet ==
  ASSUME NEW m, NEW X, Good(m, X), NEW b \in Data, b \notin FreeOf(Cont(m)), NEW m2, m2 = read_block(m, b)
  PROVE  Quiet(m, m2) /\ m2.r = b /\ Mapped(m2, b) /\ m2.loc = m.loc /\ m2.par = m.par
<1>1. m \in MemRecs /\ b \in Blocks /\ ~(b >= NBLOCKS) /\ b \in Int /\ InCache(m) /\ b \notin Free(m)
  BY BlockSets, Numbers, FreeIs DEF Good
<1>2. CASE Mapped(m, b)
  <2>1. m2 = Return(m, b)
    BY <1>1, <1>2 DEF read_block, block_is_mapped, Mapped
  <2> QED BY <1>1, <1>2, <2>1, ReturnIs, SameMemory
<1>3. CASE ~Mapped(m, b)
  <2>1. PICK n : n = [m EXCEPT !.cache[b] = Image[b]]
    OBVIOUS
  <2>2. m2 = Return(n, b)
    BY <1>1, <1>3, <2>1 DEF read_block, block_is_mapped, Mapped
  <2>3. Image[b] \in Contents /\ Image[b] # NIL
    BY <1>1, ImageType, NilAssumption
  <2>4. /\ n.cache = [m.cache EXCEPT ![b] = Image[b]] /\ n.unsaved = m.unsaved /\ n.dirty = m.dirty
        /\ n.panic = m.panic /\ n.r = m.r /\ n.loc = m.loc /\ n.par = m.par /\ n \in MemRecs
    BY <1>1, <2>1, <2>3 DEF MemRecs
  <2>5. m.cache \in [Blocks -> Contents \cup {NIL}] /\ m.unsaved \subseteq Blocks /\ m.dirty \subseteq Blocks
    BY <1>1, MemFields
  <2>6. n.cache[b] = Image[b] /\ \A y \in Blocks : y # b => n.cache[y] = m.cache[y]
    BY <1>1, <2>4, <2>5
  <2>7. \A y \in Blocks : Mapped(n, y) <=> (y = b \/ Mapped(m, y))
    BY <2>3, <2>6 DEF Mapped
  <2>8. Cont(n) = Cont(m)
    BY <1>3, <2>3, <2>6 DEF Cont, Mapped
  <2>9. Quiet(m, n) /\ InCache(n)
    BY <1>1, <2>4, <2>5, <2>7, <2>8, BlockSets DEF Quiet, Loads, InCache
  <2>10. Quiet(n, m2) /\ m2.r = b /\ Mapped(m2, b) /\ m2.loc = n.loc /\ m2.par = n.par
    BY <1>1, <2>2, <2>4, <2>7, <2>9, ReturnIs, SameMemory
  <2> QED BY <2>4, <2>9, <2>10, QuietTrans
<1> QED BY <1>2, <1>3

\* The least element of a set of numbers is one.
LEMMA LeastOf ==
  ASSUME NEW S \in SUBSET Nat, S # {}
  PROVE  Min(S) \in S
<1>1. PICK x \in S : \A y \in S : ~(<<y, x>> \in OpToRel(<, Nat))
  BY NatLessThanWellFounded, WFMin
<1>2. ASSUME NEW y \in S PROVE x <= y
  <2>1. x \in Nat /\ y \in Nat
    OBVIOUS
  <2>2. ~(y < x)
    <3>1. ~(<<y, x>> \in OpToRel(<, Nat))
      BY <1>1
    <3> QED BY <2>1, <3>1 DEF OpToRel
  <2> QED BY <2>1, <2>2
<1>3. \E z \in S : \A y \in S : z <= y
  BY <1>2
<1> QED BY <1>3 DEF Min

\* The number of a data block.
LEMMA DataIs ==
  ASSUME NEW b \in Data
  PROVE  b \in Blocks /\ b \in Nat /\ b > 0 /\ b # 0 /\ b # SUPER /\ b # BITMAP /\ ~(b >= NBLOCKS) /\ ~(b < 0)
<1>1. b \in Blocks /\ b \in Nat /\ b # SUPER /\ b # BITMAP
  BY BlockSets
<1>2. b # 0 /\ b < NBLOCKS
  BY <1>1, BlockSets
<1>3. NBLOCKS \in Nat
  BY Numbers
<1> QED BY <1>1, <1>2, <1>3

\* Returning a value keeps the invariant.
LEMMA ReturnGood ==
  ASSUME NEW m, NEW X, Good(m, X), NEW r \in Int, NEW m2, m2 = Return(m, r)
  PROVE  /\ Good(m2, X) /\ Quiet(m, m2) /\ m2.r = r /\ m2.loc = m.loc /\ m2.par = m.par /\ Cont(m2) = Cont(m)
         /\ m2.mem = m.mem /\ m2.dirty = m.dirty /\ m2.unsaved = m.unsaved /\ \A b : Mapped(m2, b) <=> Mapped(m, b)
<1>1. m \in MemRecs
  BY DEF Good
<1>2. /\ m2 \in MemRecs /\ m2.r = r /\ m2.loc = m.loc /\ m2.par = m.par /\ Cont(m2) = Cont(m) /\ m2.cache = m.cache
      /\ m2.unsaved = m.unsaved /\ m2.dirty = m.dirty /\ m2.panic = m.panic /\ m2.mem = m.mem
  BY <1>1, ReturnIs
<1>3. Good(m2, X) /\ Quiet(m, m2) /\ \A b : Mapped(m2, b) <=> Mapped(m, b)
  BY ONLY <1>2, Good(m, X), SameMemory
<1> QED BY <1>2, <1>3

\* The structures are as before.
SameStruct(c, c2) == /\ AllOf(c2) = AllOf(c)
                     /\ \A k \in AllOf(c) : Rec(c2, k) = Rec(c, k) /\ SameAt(c, c2, k)

\* The bitmap is written.
LEMMA SetBits ==
  ASSUME NEW m, NEW X, Good(m, X), NEW S \in SUBSET Data, NEW Y \in SUBSET Data, S \cap Y = {},
         S \cup Y = Free(m) \cup X, NEW m2, m2 = SetMeta(m, BITMAP, Bits(S))
  PROVE  /\ Good(m2, Y) /\ Frame(m, m2, {}) /\ SameStruct(Cont(m), Cont(m2)) /\ Free(m2) = S
         /\ m2.unsaved \subseteq m.unsaved /\ m2.loc = m.loc /\ m2.par = m.par /\ m2.r = m.r /\ m2.mem = m.mem
         /\ \A b \in Blocks \ {BITMAP} : Cont(m2)[b] = Cont(m)[b]
<1>1. Bits(S) \in Contents
  <2>1. S \in SUBSET Blocks
    BY BlockSets
  <2> QED BY <2>1, ContentKinds
<1>2. m \in MemRecs /\ InCache(m) /\ ~m.panic /\ Sound(Cont(m), X) /\ BITMAP \in Blocks
  BY BlockSets DEF Good
<1>3. /\ Cont(m2) = PutFree(Cont(m), S) /\ Loads(m, m2) /\ InCache(m2) /\ m2.unsaved \subseteq m.unsaved
      /\ m2.loc = m.loc /\ m2.par = m.par /\ m2.r = m.r /\ m2.mem = m.mem
  BY <1>1, <1>2, SetMetaIs DEF PutFree
<1>4. S \cup Y = FreeOf(Cont(m)) \cup X
  BY FreeIs
<1>5. /\ Sound(Cont(m2), Y) /\ SameBlocks(Cont(m), Cont(m2)) /\ FreeOf(Cont(m2)) = S /\ SameStruct(Cont(m), Cont(m2))
  BY ONLY <1>2, <1>3, <1>4, S \in SUBSET Data, Y \in SUBSET Data, S \cap Y = {}, PutBits DEF SameStruct
<1>6. Good(m2, Y)
  BY <1>2, <1>3, <1>5 DEF Good, Loads
<1>7. Spares(Cont(m), Cont(m2), {})
  BY ONLY <1>2, <1>5, BitsSpare DEF SameStruct
<1>8. Frame(m, m2, {})
  BY <1>3, <1>7 DEF Frame, Saved
<1>9. Free(m2) = S
  BY <1>5, <1>6, FreeIs
<1> QED BY <1>3, <1>5, <1>6, <1>8, <1>9 DEF SameBlocks

\* free_block takes back a block that nobody owns.
LEMMA free_loose ==
  ASSUME NEW m, NEW X, Good(m, X), NEW b \in X, NEW m2, m2 = free_block(m, b)
  PROVE  Good(m2, X \ {b}) /\ Frame(m, m2, {}) /\ SameStruct(Cont(m), Cont(m2))
<1>1. b \in Data /\ b \notin Free(m) /\ Free(m) \subseteq Data /\ X \subseteq Data /\ X \cap Free(m) = {} /\ m \in MemRecs
  BY FreeIs DEF Good, Sound, Blank
<1>2. b # 0 /\ ~(b >= NBLOCKS)
  BY <1>1, BlockSets, Numbers
<1>3. PICK n : n = SetMeta(m, BITMAP, Bits(Free(m) \cup {b}))
  OBVIOUS
<1>4. m2 = [n EXCEPT !.unsaved = @ \ {b}]
  BY <1>2, <1>3 DEF free_block
<1>5. /\ Good(n, X \ {b}) /\ Frame(m, n, {}) /\ SameStruct(Cont(m), Cont(n))
  <2>1. Free(m) \cup {b} \in SUBSET Data /\ X \ {b} \in SUBSET Data /\ (Free(m) \cup {b}) \cap (X \ {b}) = {}
        /\ (Free(m) \cup {b}) \cup (X \ {b}) = Free(m) \cup X
    BY <1>1
  <2>2. PICK S : S = Free(m) \cup {b}
    OBVIOUS
  <2>3. PICK Y : Y = X \ {b}
    OBVIOUS
  <2> QED BY ONLY <1>3, <2>1, <2>2, <2>3, Good(m, X), SetBits
<1>6. n \in MemRecs
  BY <1>5 DEF Good
<1>7. /\ m2 \in MemRecs /\ m2.cache = n.cache /\ m2.unsaved = n.unsaved \ {b} /\ m2.dirty = n.dirty /\ m2.panic = n.panic
  BY <1>4, <1>6 DEF MemRecs
<1>8. Cont(m2) = Cont(n) /\ \A x : Mapped(m2, x) <=> Mapped(n, x)
  BY <1>7 DEF Cont, Mapped
<1>9. Quiet(n, m2)
  BY <1>5, <1>7, <1>8 DEF Good, InCache, Quiet, Loads
<1>10. Good(m2, X \ {b}) /\ Frame(n, m2, {})
  BY <1>5, <1>9, QuietGood, QuietFrame
<1>11. Frame(m, m2, {})
  BY ONLY <1>5, <1>10, Good(m, X), FrameTrans
<1> QED BY <1>5, <1>8, <1>10, <1>11

\* A blank block gets a page, if the kernel has one.
LEMMA map_block_Is ==
  ASSUME NEW m \in MemRecs, NEW b \in Data, Cont(m)[b] = Word(0), NEW m2, m2 = map_block(m, b)
  PROVE  /\ m2.r \in Int
         /\ \/ m2.r < 0
            \/ /\ m2 \in MemRecs /\ Cont(m2) = Cont(m) /\ m2.unsaved = m.unsaved /\ m2.dirty = m.dirty
               /\ m2.panic = m.panic /\ m2.loc = m.loc /\ m2.par = m.par /\ Mapped(m2, b)
               /\ \A x \in Blocks : Mapped(m2, x) <=> x = b \/ Mapped(m, x)
<1>1. b \in Blocks
  BY DataIs
<1>2. -E_NO_MEM \in Int /\ -E_NO_MEM < 0 /\ 0 \in Int
  BY DEF E_NO_MEM
<1>3. CASE Mapped(m, b)
  <2>1. m2 = Return(m, 0)
    BY <1>1, <1>3 DEF map_block, block_is_mapped, Mapped
  <2>2. /\ m2 \in MemRecs /\ m2.r = 0 /\ m2.cache = m.cache /\ m2.unsaved = m.unsaved /\ m2.dirty = m.dirty
        /\ m2.panic = m.panic /\ m2.loc = m.loc /\ m2.par = m.par /\ Cont(m2) = Cont(m)
    BY ONLY <1>2, <2>1, m \in MemRecs, ReturnIs
  <2>3. \A x : Mapped(m2, x) <=> Mapped(m, x)
    BY <2>2 DEF Mapped
  <2> QED BY <1>2, <1>3, <2>2, <2>3
<1>4. CASE ~Mapped(m, b) /\ b \notin m.mem
  <2>1. m2 = Return(m, -E_NO_MEM)
    BY <1>1, <1>4 DEF map_block, block_is_mapped, Mapped
  <2>2. m2.r = -E_NO_MEM
    BY ONLY <1>2, <2>1, m \in MemRecs, ReturnIs
  <2> QED BY <1>2, <2>2
<1>5. CASE ~Mapped(m, b) /\ b \in m.mem
  <2>1. PICK e : e = [m EXCEPT !.cache[b] = Word(0)]
    OBVIOUS
  <2>2. m2 = Return(e, 0)
    BY <1>1, <1>5, <2>1 DEF map_block, block_is_mapped, Mapped
  <2>3. Word(0) \in Contents /\ Word(0) # NIL
    BY ContentKinds, NilAssumption
  <2>4. /\ e \in MemRecs /\ e.cache = [m.cache EXCEPT ![b] = Word(0)] /\ e.unsaved = m.unsaved /\ e.dirty = m.dirty
        /\ e.panic = m.panic /\ e.loc = m.loc /\ e.par = m.par
    BY <1>1, <2>1, <2>3 DEF MemRecs
  <2>5. m.cache \in [Blocks -> Contents \cup {NIL}]
    BY MemFields
  <2>6. e.cache[b] = Word(0) /\ \A y \in Blocks : y # b => e.cache[y] = m.cache[y]
    BY <1>1, <2>4, <2>5
  <2>7. Cont(e) = Cont(m)
    BY <1>5, <2>3, <2>6 DEF Cont, Mapped
  <2>8. \A x \in Blocks : Mapped(e, x) <=> x = b \/ Mapped(m, x)
    BY <2>3, <2>6 DEF Mapped
  <2>9. /\ m2 \in MemRecs /\ m2.r = 0 /\ m2.cache = e.cache /\ m2.unsaved = e.unsaved /\ m2.dirty = e.dirty
        /\ m2.panic = e.panic /\ m2.loc = e.loc /\ m2.par = e.par /\ Cont(m2) = Cont(e)
    BY ONLY <1>2, <2>2, <2>4, ReturnIs
  <2>10. \A x \in Blocks : Mapped(m2, x) <=> x = b \/ Mapped(m, x)
    BY <2>8, <2>9 DEF Mapped
  <2>11. m2.r \in Int
    BY <1>2, <2>9
  <2> QED BY <1>1, <2>4, <2>7, <2>9, <2>10, <2>11
<1> QED BY <1>3, <1>4, <1>5

\* What alloc_block hands out is blank, in the cache and nobody's.
LEMMA alloc_block_Good ==
  ASSUME NEW m, Good(m, {}), NEW m2, m2 = alloc_block(m)
  PROVE  /\ Frame(m, m2, {}) /\ SameStruct(Cont(m), Cont(m2)) /\ m2.loc = m.loc /\ m2.par = m.par
         /\ IF m2.r < 0 THEN Good(m2, {}) ELSE m2.r \in Data /\ Good(m2, {m2.r}) /\ Mapped(m2, m2.r)
<1>1. m \in MemRecs /\ Free(m) \subseteq Data /\ Spare(m) = Free(m)
  BY FreeIs, BlockSets DEF Good, Spare
<1>2. PICK a : a = alloc_block_num(m)
  OBVIOUS
<1>3. CASE Free(m) = {}
  <2>1. -E_NO_DISK \in Int /\ -E_NO_DISK < 0
    BY DEF E_NO_DISK
  <2>2. a = Return(m, -E_NO_DISK)
    BY <1>1, <1>2, <1>3 DEF alloc_block_num
  <2>3. a.r = -E_NO_DISK /\ Good(a, {}) /\ Quiet(m, a) /\ a.loc = m.loc /\ a.par = m.par /\ Cont(a) = Cont(m)
    BY <1>1, <2>1, <2>2, ReturnIs, SameMemory
  <2>4. m2 = a
    BY <1>2, <2>1, <2>3 DEF alloc_block, Then
  <2>5. SameStruct(Cont(m), Cont(a))
    BY <2>3 DEF SameStruct, SameAt
  <2>6. Frame(m, a, {})
    BY <2>3, QuietFrame
  <2> QED BY <2>1, <2>3, <2>4, <2>5, <2>6
<1>4. CASE Free(m) # {}
  <2>1. PICK b : b = Min(Spare(m))
    OBVIOUS
  <2>2. b \in Free(m) /\ b \in Data /\ b \in Int /\ b \in Blocks /\ b # BITMAP /\ b > 0
    <3>1. Free(m) \subseteq Nat
      BY <1>1, BlockSets
    <3>2. b \in Free(m)
      BY <1>1, <1>4, <2>1, <3>1, LeastOf
    <3>3. b \in Data
      BY <1>1, <3>2
    <3> QED BY <3>2, <3>3, DataIs
  <2>3. PICK n : n = SetMeta(m, BITMAP, Bits(Free(m) \ {b}))
    OBVIOUS
  <2>4. a = Return(write_block(n, BITMAP), b)
    BY <1>1, <1>2, <1>4, <2>1, <2>3 DEF alloc_block_num
  <2>5. /\ Good(n, {b}) /\ Frame(m, n, {}) /\ SameStruct(Cont(m), Cont(n)) /\ n.loc = m.loc /\ n.par = m.par
        /\ Free(n) = Free(m) \ {b}
    <3>1. PICK S : S = Free(m) \ {b}
      OBVIOUS
    <3>2. S \in SUBSET Data /\ {b} \in SUBSET Data /\ S \cap {b} = {} /\ S \cup {b} = Free(m) \cup {}
      BY <1>1, <2>2, <3>1
    <3> QED BY ONLY <2>3, <3>1, <3>2, Good(m, {}), SetBits
  <2>6. n \in MemRecs
    BY <2>5 DEF Good
  <2>7. PICK n2 : n2 = write_block(n, BITMAP)
    OBVIOUS
  <2>8. /\ n2 \in MemRecs /\ n2.cache = n.cache /\ n2.unsaved = n.unsaved \ {BITMAP} /\ n2.dirty = n.dirty
        /\ n2.panic = n.panic /\ n2.loc = n.loc /\ n2.par = n.par
    BY <2>6, <2>7 DEF write_block, MemRecs
  <2>9. /\ a \in MemRecs /\ a.cache = n.cache /\ a.unsaved = n.unsaved \ {BITMAP} /\ a.dirty = n.dirty
        /\ a.panic = n.panic /\ a.loc = n.loc /\ a.par = n.par /\ a.r = b
    BY <2>2, <2>4, <2>7, <2>8, ReturnIs
  <2>10. Cont(a) = Cont(n) /\ \A x : Mapped(a, x) <=> Mapped(n, x)
    BY <2>9 DEF Cont, Mapped
  <2>11. Quiet(n, a)
    BY <2>5, <2>9, <2>10 DEF Good, InCache, Quiet, Loads
  <2>12. Good(a, {b}) /\ Frame(n, a, {}) /\ SameStruct(Cont(m), Cont(a))
    BY <2>5, <2>10, <2>11, QuietGood, QuietFrame
  <2>13. Frame(m, a, {})
    BY ONLY <2>5, <2>12, Good(m, {}), FrameTrans
  <2>14. m2 = IF map_block(a, b).r < 0 THEN Return(free_block(a, b), map_block(a, b).r)
              ELSE Return([map_block(a, b) EXCEPT !.unsaved = @ \cup {b}], b)
    <3>1. ~(a.r < 0)
      BY <2>2, <2>9
    <3> QED BY <1>2, <2>9, <3>1 DEF alloc_block, Then
  <2>15. PICK g : g = map_block(a, b)
    OBVIOUS
  <2>16. Cont(a)[b] = Word(0)
    BY <2>12 DEF Good, Sound, Blank
  <2>17. -E_NO_MEM \in Int /\ -E_NO_MEM < 0
    BY DEF E_NO_MEM
  <2>18. CASE g.r < 0
    <3>1. g.r \in Int
      BY ONLY <2>2, <2>9, <2>15, <2>16, map_block_Is
    <3>2. PICK h : h = free_block(a, b)
      OBVIOUS
    <3>3. Good(h, {b} \ {b}) /\ Frame(a, h, {}) /\ SameStruct(Cont(a), Cont(h)) /\ h.loc = a.loc /\ h.par = a.par
      <4>1. b \in {b}
        OBVIOUS
      <4>2. h.loc = a.loc /\ h.par = a.par
        BY <3>2 DEF free_block, SetMeta
      <4> QED BY ONLY <2>12, <3>2, <4>1, <4>2, free_loose
    <3>4. Good(h, {})
      <4>1. {b} \ {b} = {}
        OBVIOUS
      <4> QED BY <3>3, <4>1
    <3>5. m2 = Return(h, g.r) /\ h \in MemRecs
      BY <2>14, <2>15, <2>18, <3>2, <3>4 DEF Good
    <3>6. m2.r = g.r /\ Good(m2, {}) /\ Quiet(h, m2) /\ m2.loc = h.loc /\ m2.par = h.par /\ Cont(m2) = Cont(h)
      BY ONLY <3>1, <3>4, <3>5, ReturnGood
    <3>7. Frame(h, m2, {})
      BY <3>4, <3>6, QuietFrame
    <3>8. Frame(m, h, {})
      BY ONLY <2>12, <2>13, <3>3, <3>4, Good(m, {}), FrameTrans
    <3>9. Frame(m, m2, {})
      BY ONLY <3>4, <3>6, <3>7, <3>8, Good(m, {}), FrameTrans
    <3>10. SameStruct(Cont(m), Cont(m2))
      BY <2>12, <3>3, <3>6 DEF SameStruct, SameAt
    <3> QED BY <2>5, <2>9, <2>18, <3>3, <3>6, <3>9, <3>10
  <2>19. CASE ~(g.r < 0)
    <3>1. /\ g \in MemRecs /\ Cont(g) = Cont(a) /\ g.unsaved = a.unsaved /\ g.dirty = a.dirty /\ g.panic = a.panic
          /\ g.loc = a.loc /\ g.par = a.par /\ Mapped(g, b) /\ \A x \in Blocks : Mapped(g, x) <=> x = b \/ Mapped(a, x)
      BY ONLY <2>2, <2>9, <2>15, <2>16, <2>19, map_block_Is
    <3>2. PICK h : h = [g EXCEPT !.unsaved = @ \cup {b}]
      OBVIOUS
    <3>3. /\ h \in MemRecs /\ h.cache = g.cache /\ h.unsaved = a.unsaved \cup {b} /\ h.dirty = a.dirty /\ h.panic = a.panic
          /\ h.loc = a.loc /\ h.par = a.par
      BY <2>2, <3>1, <3>2 DEF MemRecs
    <3>4. m2 = Return(h, b)
      BY <2>14, <2>15, <2>19, <3>2
    <3>5. /\ m2 \in MemRecs /\ m2.r = b /\ m2.cache = g.cache /\ m2.unsaved = a.unsaved \cup {b} /\ m2.dirty = a.dirty
          /\ m2.panic = a.panic /\ m2.loc = a.loc /\ m2.par = a.par
      BY <2>2, <3>3, <3>4, ReturnIs
    <3>6. Cont(m2) = Cont(a) /\ \A x \in Blocks : Mapped(m2, x) <=> x = b \/ Mapped(a, x)
      BY <3>1, <3>5 DEF Cont, Mapped
    <3>7. a.unsaved \subseteq Blocks /\ a.dirty \subseteq Blocks
      BY <2>9, MemFields
    <3>8. Loads(a, m2) /\ InCache(m2)
      BY <2>2, <2>12, <3>5, <3>6, <3>7, BlockSets DEF Loads, InCache, Good
    <3>9. Good(m2, {b})
      BY <2>12, <3>5, <3>6, <3>8 DEF Good
    <3>10. Saved(a, m2, {})
      <4> SUFFICES ASSUME NEW k \in AllOf(Cont(a)), NEW j \in Idx PROVE Num(Cont(a), k, j) # b
        BY <3>5 DEF Saved
      <4>1. j \in Held /\ At(Cont(a), k, j) = Num(Cont(a), k, j)
        BY HeldIs
      <4> QED BY <2>2, <2>12, <4>1 DEF Good, Sound, Owns
    <3>11. Frame(a, m2, {})
      BY <2>12, <3>6, <3>8, <3>10, SparesSelf DEF Frame, Good, Sound
    <3>12. Frame(m, m2, {})
      BY ONLY <2>12, <2>13, <3>9, <3>11, Good(m, {}), FrameTrans
    <3> QED BY <2>2, <2>5, <2>9, <2>12, <3>5, <3>6, <3>9, <3>12
  <2> QED BY <2>18, <2>19
<1> QED BY <1>3, <1>4

-----------------------------------------------------------------------------
(***************************************************************************)
(* Loops.                                                                  *)
(***************************************************************************)
\* Induction over numbers, on sets: from the least counterexample.
LEMMA LeastNat ==
  ASSUME NEW P \in SUBSET Nat, 0 \in P, \A n \in Nat : n \in P => n + 1 \in P
  PROVE  P = Nat
<1> SUFFICES ASSUME Nat \ P # {} PROVE FALSE
  OBVIOUS
<1>1. PICK n \in Nat \ P : \A y \in Nat \ P : ~(<<y, n>> \in OpToRel(<, Nat))
  BY NatLessThanWellFounded, WFMin
<1>2. n # 0 /\ n - 1 \in Nat
  OBVIOUS
<1>3. <<n - 1, n>> \in OpToRel(<, Nat)
  BY <1>2 DEF OpToRel
<1>4. n - 1 \in P
  BY <1>1, <1>2, <1>3
<1>5. (n - 1) + 1 = n
  OBVIOUS
<1> QED BY <1>2, <1>4, <1>5

\* Induction from a number to another.
LEMMA UpTo ==
  ASSUME NEW a \in Nat, NEW b \in Nat, a <= b, NEW P, a \in P, \A i \in a .. b - 1 : i \in P => i + 1 \in P
  PROVE  \A i \in a .. b : i \in P
<1> DEFINE Q == {n \in Nat : a + n <= b => a + n \in P}
<1>1. 0 \in Q
  OBVIOUS
<1>2. ASSUME NEW n \in Nat, n \in Q PROVE n + 1 \in Q
  <2>1. ASSUME a + (n + 1) <= b PROVE a + (n + 1) \in P
    <3>1. a + n \in a .. b - 1 /\ a + n \in P
      BY <1>2, <2>1
    <3>2. (a + n) + 1 \in P
      BY <3>1
    <3>3. (a + n) + 1 = a + (n + 1)
      OBVIOUS
    <3> QED BY <3>2, <3>3
  <2> QED BY <2>1
<1>3. Q = Nat
  <2>1. Q \in SUBSET Nat
    OBVIOUS
  <2> HIDE DEF Q
  <2> QED BY <2>1, <1>1, <1>2, LeastNat
<1>4. ASSUME NEW i \in a .. b PROVE i \in P
  <2>1. i - a \in Nat /\ a + (i - a) = i /\ i <= b
    OBVIOUS
  <2> QED BY <1>3, <2>1
<1> QED BY <1>4

\* The values of a loop of op from a to b.
LoopOf(f, m, op, a, b) == f = [i \in a .. b |-> IF i = a THEN m ELSE op[<<f[i - 1], i - 1>>]]

\* The function that counts a loop's rounds exists.
LEMMA LoopExists ==
  ASSUME NEW a \in Nat, NEW b \in Nat, a <= b, NEW m, NEW op
  PROVE  \E f : LoopOf(f, m, op, a, b)
<1> DEFINE Is(f, i) == f[i] = IF i = a THEN m ELSE op[<<f[i - 1], i - 1>>]
           P == {n \in a .. b : \E f : \A i \in a .. n : Is(f, i)}
<1>1. a \in P
  <2> DEFINE f == [i \in a .. a |-> m]
  <2>1. \A i \in a .. a : i = a
    OBVIOUS
  <2>2. \A i \in a .. a : Is(f, i)
    BY <2>1
  <2>3. a \in a .. b
    OBVIOUS
  <2> QED BY <2>2, <2>3
<1>2. ASSUME NEW n \in a .. b - 1, n \in P PROVE n + 1 \in P
  <2>1. PICK f : \A i \in a .. n : Is(f, i)
    BY <1>2
  <2> DEFINE g == [i \in a .. n + 1 |-> IF i <= n THEN f[i] ELSE op[<<f[i - 1], i - 1>>]]
  <2>2. \A i \in a .. n : g[i] = f[i]
    OBVIOUS
  <2>3. ASSUME NEW i \in a .. n + 1 PROVE Is(g, i)
    <3>1. CASE i <= n /\ i = a
      <4>1. i \in a .. n
        BY <3>1
      <4> QED BY <2>1, <2>2, <3>1, <4>1
    <3>2. CASE i <= n /\ i # a
      <4>1. i \in a .. n /\ i - 1 \in a .. n
        BY <3>2
      <4>2. f[i] = op[<<f[i - 1], i - 1>>]
        BY <2>1, <3>2, <4>1
      <4>3. g[i] = f[i] /\ g[i - 1] = f[i - 1]
        BY <2>2, <4>1
      <4> QED BY <3>2, <4>2, <4>3
    <3>3. CASE ~(i <= n)
      <4>1. i - 1 \in a .. n /\ i # a
        BY <3>3
      <4>2. g[i - 1] = f[i - 1]
        BY <2>2, <4>1
      <4>3. g[i] = op[<<f[i - 1], i - 1>>]
        BY <3>3
      <4> QED BY <4>1, <4>2, <4>3
    <3> QED BY <3>1, <3>2, <3>3
  <2> HIDE DEF g, Is
  <2>4. \E f1 : \A i \in a .. n + 1 : Is(f1, i)
    BY <2>3
  <2>5. n + 1 \in a .. b
    OBVIOUS
  <2> QED BY <2>4, <2>5
<1>3. b \in P
  <2> HIDE DEF P
  <2>1. b \in a .. b
    OBVIOUS
  <2> QED BY <1>1, <1>2, <2>1, UpTo
<1>4. PICK f : \A i \in a .. b : Is(f, i)
  BY <1>3
<1> DEFINE g == [i \in a .. b |-> f[i]]
<1>5. ASSUME NEW i \in a .. b PROVE f[i] = IF i = a THEN m ELSE op[<<g[i - 1], i - 1>>]
  <2>1. i # a => i - 1 \in a .. b
    OBVIOUS
  <2>2. i # a => g[i - 1] = f[i - 1]
    BY <2>1
  <2> QED BY <1>4, <2>2
<1>6. g = [i \in a .. b |-> IF i = a THEN m ELSE op[<<g[i - 1], i - 1>>]]
  BY <1>5
<1> QED BY <1>6 DEF LoopOf

\* What a loop keeps: its value after i - a rounds is in G[i].
LEMMA LoopKeeps ==
  ASSUME NEW a \in Nat, NEW b \in Nat, a <= b, NEW m, NEW op, NEW G, m \in G[a],
         \A i \in a .. b - 1 : \A n \in G[i] : op[<<n, i>>] \in G[i + 1]
  PROVE  \E f : LoopOf(f, m, op, a, b) /\ \A i \in a .. b : f[i] \in G[i]
<1>1. PICK f : LoopOf(f, m, op, a, b)
  BY LoopExists
<1>2. \A i \in a .. b : f[i] = IF i = a THEN m ELSE op[<<f[i - 1], i - 1>>]
  <2> DEFINE F(i) == IF i = a THEN m ELSE op[<<f[i - 1], i - 1>>]
  <2>1. f = [i \in a .. b |-> F(i)]
    BY <1>1 DEF LoopOf
  <2> HIDE DEF F
  <2>2. \A i \in a .. b : f[i] = F(i)
    BY <2>1
  <2> QED BY <2>2 DEF F
<1>3. f[a] \in G[a]
  <2>1. a \in a .. b
    OBVIOUS
  <2> QED BY <1>2, <2>1
<1>4. ASSUME NEW i \in a .. b - 1, f[i] \in G[i] PROVE f[i + 1] \in G[i + 1]
  <2>1. i + 1 \in a .. b /\ i + 1 # a /\ (i + 1) - 1 = i
    OBVIOUS
  <2>2. f[i + 1] = op[<<f[(i + 1) - 1], (i + 1) - 1>>]
    BY <1>2, <2>1
  <2> QED BY <1>4, <2>1, <2>2
<1>5. \A i \in a .. b : f[i] \in G[i]
  <2> DEFINE P == {i \in a .. b : f[i] \in G[i]}
  <2>1. a \in P
    BY <1>3
  <2>2. \A i \in a .. b - 1 : i \in P => i + 1 \in P
    BY <1>4
  <2>3. \A i \in a .. b : i \in P
    <3> HIDE DEF P
    <3> QED BY <2>1, <2>2, UpTo
  <2> QED BY <2>3
<1> QED BY <1>1, <1>5

\* A loop that is given step by step, of which there is one like this, ends in G[b].
LEMMA LoopEnds ==
  ASSUME NEW a \in Nat, NEW b \in Nat, a <= b, NEW h, NEW G, h[a] \in G[a],
         \A i \in a .. b - 1 : h[i] \in G[i] => h[i + 1] \in G[i + 1]
  PROVE  h[b] \in G[b]
<1> DEFINE P == {i \in a .. b : h[i] \in G[i]}
<1>1. a \in P
  OBVIOUS
<1>2. ASSUME NEW i \in a .. b - 1, i \in P PROVE i + 1 \in P
  <2>1. i + 1 \in a .. b
    OBVIOUS
  <2> QED BY <1>2, <2>1
<1>3. b \in P
  <2> HIDE DEF P
  <2>1. \A i \in a .. b : i \in P
    BY <1>1, <1>2, UpTo
  <2>2. b \in a .. b
    OBVIOUS
  <2> QED BY <2>1, <2>2
<1> QED BY <1>3

-----------------------------------------------------------------------------
(***************************************************************************)
(* Files in the memory.                                                    *)
(***************************************************************************)
\* The block of struct File l is in the cache, and the index of its block i.
Here(m, l)      == l \in AllOf(Cont(m)) /\ Mapped(m, l[1])
Walked(m, l, i) == i \in Idx /\ (i < NDIRECT \/ (Rec(Cont(m), l).ind # 0 /\ Mapped(m, Rec(Cont(m), l).ind)))

\* The struct File that the server reads is that of the disk.
LEMMA FileIs ==
  ASSUME NEW m, NEW l \in Locs, Mapped(m, l[1])
  PROVE  File(m, l) = Rec(Cont(m), l)
<1>1. Cont(m)[l[1]] = m.cache[l[1]]
  BY PlaceOf, ContIs
<1> QED BY <1>1 DEF File, Rec

\* So it is for a file that is in the cache.
LEMMA HereFile ==
  ASSUME NEW m, NEW l, Here(m, l)
  PROVE  File(m, l) = Rec(Cont(m), l) /\ l \in Locs
<1>1. l \in Locs
  BY AllIn DEF Here
<1> QED BY <1>1, FileIs DEF Here

\* A file stays where it is, whatever is loaded.
LEMMA HereKept ==
  ASSUME NEW m, NEW l, Here(m, l), NEW m2, NEW E, Frame(m, m2, E)
  PROVE  Here(m2, l)
<1>1. l[1] \in Blocks
  BY AllIn, PlaceOf DEF Here
<1> QED BY <1>1 DEF Here, Frame, Spares, Loads

\* What SetFile stores into the block of the struct File.
LEMMA SlotStored ==
  ASSUME NEW m, NEW X, Good(m, X), NEW l, Here(m, l), NEW f \in FileRecs,
         NEW x, x = Dir([AsDir(m.cache[l[1]]) EXCEPT ![l[2]] = f])
  PROVE  x \in Contents /\ PutRec(Cont(m), l, f) = [Cont(m) EXCEPT ![l[1]] = x]
<1>1. l \in Locs /\ l[1] \in Blocks
  BY AllIn, PlaceOf DEF Here
<1>2. Cont(m)[l[1]] = m.cache[l[1]]
  BY <1>1, ContIs DEF Here
<1>3. PutRec(Cont(m), l, f) = [Cont(m) EXCEPT ![l[1]] = x]
  BY <1>2 DEF PutRec
<1>4. Stored(Cont(m), PutRec(Cont(m), l, f), l, f)
  BY <1>1, StoreRec DEF Good, Sound
<1>5. PutRec(Cont(m), l, f)[l[1]] = x
  BY <1>1, <1>3 DEF Cont
<1>6. PutRec(Cont(m), l, f)[l[1]] \in Contents
  BY <1>1, <1>4 DEF Stored, Conts
<1> QED BY <1>3, <1>5, <1>6

\* Storing a struct File in the cache stores it in the disk.
LEMMA SetFileIs ==
  ASSUME NEW m, NEW X, Good(m, X), NEW l, Here(m, l), NEW f \in FileRecs, NEW m2, m2 = SetFile(m, l, f)
  PROVE  /\ Cont(m2) = PutRec(Cont(m), l, f) /\ Loads(m, m2) /\ InCache(m2) /\ m2.unsaved \subseteq m.unsaved
         /\ m2.r = m.r /\ m2.loc = m.loc /\ m2.par = m.par /\ m2.dirty = m.dirty /\ m2.mem = m.mem
<1>1. l[1] \in Blocks
  BY AllIn, PlaceOf DEF Here
<1>2. PICK x : x = Dir([AsDir(m.cache[l[1]]) EXCEPT ![l[2]] = f])
  OBVIOUS
<1>3. x \in Contents /\ PutRec(Cont(m), l, f) = [Cont(m) EXCEPT ![l[1]] = x]
  BY ONLY <1>2, Good(m, X), Here(m, l), f \in FileRecs, SlotStored
<1>4. PICK b : b = l[1]
  OBVIOUS
<1>5. PutRec(Cont(m), l, f) = [Cont(m) EXCEPT ![b] = x] /\ m2 = SetMeta(m, b, x) /\ b \in Blocks
  BY <1>1, <1>2, <1>3, <1>4 DEF SetFile
<1>6. m \in MemRecs /\ InCache(m)
  BY DEF Good
<1>7. /\ Cont(m2) = [Cont(m) EXCEPT ![b] = x] /\ Loads(m, m2) /\ InCache(m2) /\ m2.unsaved \subseteq m.unsaved
      /\ m2.r = m.r /\ m2.loc = m.loc /\ m2.par = m.par /\ m2.dirty = m.dirty /\ m2.mem = m.mem
  BY ONLY <1>3, <1>5, <1>6, SetMetaIs
<1> QED BY ONLY <1>5, <1>7

\* What file_block_walk finds is the number of the block.
LEMMA EntryIs ==
  ASSUME NEW m, NEW X, Good(m, X), NEW l, Here(m, l), NEW i, Walked(m, l, i)
  PROVE  Entry(m, l, i) = Num(Cont(m), l, i)
<1>1. File(m, l) = Rec(Cont(m), l) /\ l \in Locs
  BY HereFile
<1>2. CASE i < NDIRECT
  BY <1>1, <1>2 DEF Entry, Num
<1>3. CASE ~(i < NDIRECT)
  <2>1. PICK q : q = Rec(Cont(m), l).ind
    OBVIOUS
  <2>2. q # 0 /\ Mapped(m, q)
    BY <1>3, <2>1 DEF Walked
  <2>3. q \in Data
    <3>1. At(Cont(m), l, NINDIRECT) = q /\ NINDIRECT \in Held
      BY <2>1, HeldIs
    <3> QED BY <2>2, <3>1 DEF Here, Good, Sound, Owns
  <2>4. In(Cont(m), q) = m.cache[q]
    BY <2>2, <2>3, DataIs, ContIs DEF In
  <2> QED BY <1>1, <1>3, <2>1, <2>2, <2>4 DEF Entry, Num
<1> QED BY <1>2, <1>3

\* Storing there replaces it.
LEMMA SetEntryIs ==
  ASSUME NEW m, NEW X, Good(m, X), NEW l, Here(m, l), NEW i, Walked(m, l, i), NEW v \in Nat, NEW m2, m2 = SetEntry(m, l, i, v)
  PROVE  /\ Cont(m2) = Put(Cont(m), l, i, v) /\ Loads(m, m2) /\ InCache(m2) /\ m2.unsaved \subseteq m.unsaved
         /\ m2.r = m.r /\ m2.loc = m.loc /\ m2.par = m.par /\ m2.dirty = m.dirty /\ m2.mem = m.mem
<1>1. File(m, l) = Rec(Cont(m), l) /\ l \in Locs
  BY HereFile
<1>2. i \in Idx /\ i # NINDIRECT
  BY HeldIs DEF Walked
<1>3. CASE i < NDIRECT
  <2>1. PICK f : f = [Rec(Cont(m), l) EXCEPT !.ptr[i] = v]
    OBVIOUS
  <2>2. f \in FileRecs
    <3>1. Rec(Cont(m), l) \in FileRecs
      BY <1>1, RecType DEF Good, Sound
    <3>2. i \in 0 .. NDIRECT - 1
      BY <1>2, <1>3, Numbers DEF Idx
    <3> QED BY <2>1, <3>1, <3>2 DEF FileRecs
  <2>3. m2 = SetFile(m, l, f)
    BY <1>1, <1>3, <2>1 DEF SetEntry
  <2>4. Put(Cont(m), l, i, v) = PutRec(Cont(m), l, f)
    BY <1>2, <1>3, <2>1 DEF Put
  <2> QED BY ONLY <2>2, <2>3, <2>4, Good(m, X), Here(m, l), SetFileIs
<1>4. CASE ~(i < NDIRECT)
  <2>1. PICK q : q = Rec(Cont(m), l).ind
    OBVIOUS
  <2>2. q # 0 /\ Mapped(m, q)
    BY <1>4, <2>1 DEF Walked
  <2>3. q \in Data
    <3>1. At(Cont(m), l, NINDIRECT) = q /\ NINDIRECT \in Held
      BY <2>1, HeldIs
    <3> QED BY <2>2, <3>1 DEF Here, Good, Sound, Owns
  <2>4. q \in Blocks /\ Cont(m)[q] = m.cache[q]
    BY <2>2, <2>3, DataIs, ContIs
  <2>5. PICK x : x = Ptr([AsPtr(m.cache[q]) EXCEPT ![i] = v])
    OBVIOUS
  <2>6. x \in Contents
    <3>1. Cont(m)[q] \in Contents
      BY <2>4 DEF Good, Sound, Boot, Conts
    <3>2. AsPtr(m.cache[q]) \in [Idx -> Nat]
      BY <2>4, <3>1, AsPtrType
    <3>3. [AsPtr(m.cache[q]) EXCEPT ![i] = v] \in [Idx -> Nat]
      BY <3>2
    <3> QED BY <2>5, <3>3, ContentKinds
  <2>7. m2 = SetMeta(m, q, x)
    BY <1>1, <1>4, <2>1, <2>5 DEF SetEntry
  <2>8. Put(Cont(m), l, i, v) = [Cont(m) EXCEPT ![q] = x]
    BY <1>2, <1>4, <2>1, <2>4, <2>5 DEF Put, PutInd
  <2>9. m \in MemRecs /\ InCache(m)
    BY DEF Good
  <2> QED BY ONLY <2>4, <2>6, <2>7, <2>8, <2>9, SetMetaIs
<1> QED BY <1>3, <1>4

\* Numbers of files that are not free.
LEMMA HeldIn ==
  ASSUME NEW c, NEW X, Sound(c, X), NEW l \in AllOf(c), NEW i \in Held, At(c, l, i) # 0
  PROVE  At(c, l, i) \in Data /\ At(c, l, i) \notin FreeOf(c) /\ At(c, l, i) \notin X
BY DEF Sound, Owns

\* A number that is not 0 is that of a block in use.
LEMMA NumIn ==
  ASSUME NEW c, NEW X, Sound(c, X), NEW l \in AllOf(c), NEW i \in Idx, Num(c, l, i) # 0
  PROVE  Num(c, l, i) \in Data /\ Num(c, l, i) \notin FreeOf(c) /\ Num(c, l, i) \notin X
BY HeldIs, HeldIn

-----------------------------------------------------------------------------
(***************************************************************************)
(* The block map of a file.                                                *)
(***************************************************************************)
LEMMA Errors ==
  /\ -E_INVAL \in Int /\ -E_INVAL < 0 /\ -E_NOT_FOUND \in Int /\ -E_NOT_FOUND < 0
  /\ -E_FILE_EXISTS \in Int /\ -E_FILE_EXISTS < 0 /\ -E_NOT_FOUND # 0 /\ 0 \in Int /\ ~(0 < 0)
BY DEF E_INVAL, E_NOT_FOUND, E_FILE_EXISTS

\* A quiet call drops nothing from the cache.
LEMMA QuietHere ==
  ASSUME NEW m, NEW l, Here(m, l), NEW m2, Quiet(m, m2)
  PROVE  Here(m2, l)
<1>1. l[1] \in Blocks
  BY AllIn, PlaceOf DEF Here
<1> QED BY <1>1 DEF Here, Quiet, Loads

\* What a call that only reads leaves.
Reads(m, m2, X, l) == Quiet(m, m2) /\ Good(m2, X) /\ Here(m2, l) /\ m2.loc = m.loc /\ m2.par = m.par /\ m2.r \in Int

\* Returning a value reads only.
LEMMA ReturnReads ==
  ASSUME NEW m, NEW X, Good(m, X), NEW l, Here(m, l), NEW r \in Int, NEW m2, m2 = Return(m, r)
  PROVE  Reads(m, m2, X, l) /\ m2.r = r /\ Cont(m2) = Cont(m) /\ \A b : Mapped(m2, b) <=> Mapped(m, b)
<1>1. /\ Good(m2, X) /\ Quiet(m, m2) /\ m2.r = r /\ m2.loc = m.loc /\ m2.par = m.par /\ Cont(m2) = Cont(m)
      /\ \A b : Mapped(m2, b) <=> Mapped(m, b)
  BY ONLY Good(m, X), m2 = Return(m, r), r \in Int, ReturnGood
<1>2. Here(m2, l)
  BY <1>1, QuietHere
<1> QED BY <1>1, <1>2 DEF Reads

\* Reads one after the other only read.
LEMMA ReadsTrans ==
  ASSUME NEW m, NEW X, NEW l, NEW m2, Reads(m, m2, X, l), NEW m3, Reads(m2, m3, X, l)
  PROVE  Reads(m, m3, X, l)
BY QuietTrans DEF Reads

\* The index block is in use.
LEMMA IndexIs ==
  ASSUME NEW m, NEW X, Good(m, X), NEW l, Here(m, l), Rec(Cont(m), l).ind # 0
  PROVE  Rec(Cont(m), l).ind \in Data /\ Rec(Cont(m), l).ind \notin FreeOf(Cont(m))
<1>1. NINDIRECT \in Held /\ At(Cont(m), l, NINDIRECT) = Rec(Cont(m), l).ind
  BY HeldIs
<1> QED BY <1>1, HeldIn DEF Here, Good

\* file_block_walk without alloc finds the number, if the file can have it.
LEMMA walk_reads ==
  ASSUME NEW m, NEW X, Good(m, X), NEW l, Here(m, l), NEW i \in Nat, NEW w, w = file_block_walk(m, l, i, FALSE)
  PROVE  /\ Reads(m, w, X, l)
         /\ IF w.r < 0 THEN i \in Idx => Num(Cont(m), l, i) = 0 ELSE Walked(w, l, i)
<1>1. File(m, l) = Rec(Cont(m), l) /\ l \in Locs
  BY HereFile
<1>2. CASE i < NDIRECT
  <2>1. w = Return(m, 0)
    BY <1>2 DEF file_block_walk
  <2>2. Reads(m, w, X, l) /\ w.r = 0
    BY ONLY <2>1, Errors, Good(m, X), Here(m, l), ReturnReads
  <2>3. i \in Idx
    BY <1>2, Numbers DEF Idx
  <2> QED BY <1>2, <2>2, <2>3, Errors DEF Walked
<1>3. CASE ~(i < NDIRECT) /\ i >= NINDIRECT
  <2>1. w = Return(m, -E_INVAL)
    BY <1>3 DEF file_block_walk
  <2>2. Reads(m, w, X, l) /\ w.r = -E_INVAL
    BY ONLY <2>1, Errors, Good(m, X), Here(m, l), ReturnReads
  <2>3. i \notin Idx
    BY <1>3, Numbers DEF Idx
  <2> QED BY <2>2, <2>3, Errors
<1>4. CASE ~(i < NDIRECT) /\ ~(i >= NINDIRECT) /\ Rec(Cont(m), l).ind = 0
  <2>1. w = Return(m, -E_NOT_FOUND)
    BY <1>1, <1>4 DEF file_block_walk
  <2>2. Reads(m, w, X, l) /\ w.r = -E_NOT_FOUND
    BY ONLY <2>1, Errors, Good(m, X), Here(m, l), ReturnReads
  <2>3. Num(Cont(m), l, i) = 0
    BY <1>4 DEF Num
  <2> QED BY <2>2, <2>3, Errors
<1>5. CASE ~(i < NDIRECT) /\ ~(i >= NINDIRECT) /\ Rec(Cont(m), l).ind # 0
  <2>1. PICK q : q = Rec(Cont(m), l).ind
    OBVIOUS
  <2>2. w = read_block(m, q)
    BY <1>1, <1>5, <2>1 DEF file_block_walk
  <2>3. q \in Data /\ q \notin FreeOf(Cont(m)) /\ q # 0
    BY <1>5, <2>1, IndexIs
  <2>4. Quiet(m, w) /\ w.r = q /\ Mapped(w, q) /\ w.loc = m.loc /\ w.par = m.par
    BY ONLY <2>2, <2>3, Good(m, X), read_block_Quiet
  <2>5. Good(w, X) /\ Here(w, l) /\ Cont(w) = Cont(m)
    BY <2>4, QuietGood, QuietHere DEF Quiet
  <2>6. w.r \in Int /\ ~(w.r < 0)
    <3>1. q \in Int /\ ~(q < 0)
      BY <2>3, DataIs
    <3> QED BY <2>4, <3>1
  <2>7. i \in Idx
    BY <1>5, Numbers DEF Idx
  <2> QED BY <2>1, <2>3, <2>4, <2>5, <2>6, <2>7 DEF Reads, Walked
<1> QED BY <1>2, <1>3, <1>4, <1>5

\* file_map_block without alloc returns the number, an error if there is none.
LEMMA map_reads ==
  ASSUME NEW m, NEW X, Good(m, X), NEW l, Here(m, l), NEW i \in Nat, NEW a, a = file_map_block(m, l, i, FALSE)
  PROVE  /\ Reads(m, a, X, l)
         /\ IF a.r < 0 THEN i \in Idx => Num(Cont(m), l, i) = 0
                       ELSE i \in Idx /\ a.r = Num(Cont(m), l, i) /\ a.r # 0 /\ a.r \in Data
<1>1. PICK w : w = file_block_walk(m, l, i, FALSE)
  OBVIOUS
<1>2. Reads(m, w, X, l) /\ IF w.r < 0 THEN i \in Idx => Num(Cont(m), l, i) = 0 ELSE Walked(w, l, i)
  BY ONLY <1>1, Good(m, X), Here(m, l), i \in Nat, walk_reads
<1>3. a = IF w.r < 0 THEN w ELSE IF Entry(w, l, i) # 0 THEN Return(w, Entry(w, l, i)) ELSE Return(w, -E_NOT_FOUND)
  BY <1>1 DEF file_map_block, Then
<1>4. CASE w.r < 0
  BY <1>2, <1>3, <1>4
<1>5. CASE ~(w.r < 0)
  <2>1. Good(w, X) /\ Here(w, l) /\ Cont(w) = Cont(m) /\ Walked(w, l, i)
    BY <1>2, <1>5 DEF Reads, Quiet
  <2>2. PICK n : n = Num(Cont(m), l, i)
    OBVIOUS
  <2>3. Entry(w, l, i) = n
    BY <2>1, <2>2, EntryIs
  <2>4. i \in Idx
    BY <2>1 DEF Walked
  <2>5. CASE n # 0
    <3>1. n \in Data
      BY <2>1, <2>2, <2>4, <2>5, NumIn DEF Here, Good
    <3>2. n \in Int /\ ~(n < 0)
      BY <3>1, DataIs
    <3>3. a = Return(w, n)
      BY <1>3, <1>5, <2>3, <2>5
    <3>4. Reads(w, a, X, l) /\ a.r = n
      BY ONLY <2>1, <3>2, <3>3, ReturnReads
    <3>5. Reads(m, a, X, l)
      BY ONLY <1>2, <3>4, ReadsTrans
    <3> QED BY <2>2, <2>4, <2>5, <3>1, <3>2, <3>4, <3>5
  <2>6. CASE n = 0
    <3>1. a = Return(w, -E_NOT_FOUND)
      BY <1>3, <1>5, <2>3, <2>6
    <3>2. Reads(w, a, X, l) /\ a.r = -E_NOT_FOUND
      BY ONLY <2>1, <3>1, Errors, ReturnReads
    <3>3. Reads(m, a, X, l)
      BY ONLY <1>2, <3>2, ReadsTrans
    <3> QED BY <2>2, <2>6, <3>2, <3>3, Errors
  <2> QED BY <2>5, <2>6
<1> QED BY <1>4, <1>5

\* A number is stored, and the memory is sound again.
Attached(m, m2, X, l, i, v, E) ==
  /\ Good(m2, X \ {v}) /\ Frame(m, m2, E) /\ Here(m2, l) /\ SameRec(Cont(m), Cont(m2), l)
  /\ \A j \in Held : At(Cont(m2), l, j) = IF j = i THEN v ELSE At(Cont(m), l, j)
  /\ FreeOf(Cont(m2)) = FreeOf(Cont(m)) /\ Cont(m2)[v] = Word(0)

\* Attaching a block that nobody owns keeps the invariant.
LEMMA AttachGood ==
  ASSUME NEW m, NEW X, Good(m, X), NEW l, Here(m, l), HasName(Cont(m), l), NEW i \in Held, NEW v \in X,
         At(Cont(m), l, i) = 0, Room(Cont(m), l, i), NEW E, i = NINDIRECT \/ IsDir(Cont(m), l) \/ l \in E,
         NEW m2, Loads(m, m2), InCache(m2), m2.unsaved \subseteq m.unsaved, Replaced(Cont(m), Cont(m2), l, i, v)
  PROVE  Attached(m, m2, X, l, i, v, E)
<1>1. Sound(Cont(m), X) /\ l \in AllOf(Cont(m)) /\ m \in MemRecs /\ ~m.panic
  BY DEF Good, Here
<1>2. Sound(Cont(m2), X \ {v})
  BY <1>1, Attach DEF HasName
<1>3. Spares(Cont(m), Cont(m2), E)
  BY <1>1, AttachSpares
<1>4. Good(m2, X \ {v})
  BY <1>1, <1>2 DEF Good, Loads
<1>5. Frame(m, m2, E)
  BY <1>3 DEF Frame, Saved
<1>6. Here(m2, l)
  BY <1>5, HereKept
<1>7. /\ SameRec(Cont(m), Cont(m2), l)
      /\ \A j \in Held : At(Cont(m2), l, j) = IF j = i THEN v ELSE At(Cont(m), l, j)
      /\ FreeOf(Cont(m2)) = FreeOf(Cont(m))
  BY <1>1 DEF Replaced, FreeOf
<1>8. Cont(m2)[v] = Word(0)
  BY <1>1, LooseKept, ReplacedAt
<1> QED BY <1>4, <1>5, <1>6, <1>7, <1>8 DEF Attached

\* What a call that may allocate blocks for l leaves: l is the same file, only longer
\* lists of blocks.
Grows(m, m2, l, E) == /\ Good(m2, {}) /\ Frame(m, m2, E) /\ Here(m2, l) /\ SameRec(Cont(m), Cont(m2), l)
                      /\ m2.loc = m.loc /\ m2.par = m.par /\ m2.r \in Int

\* A read changes no file.
LEMMA ReadsGrows ==
  ASSUME NEW m, Good(m, {}), NEW l, NEW m2, Reads(m, m2, {}, l), NEW E
  PROVE  Grows(m, m2, l, E)
<1>1. Frame(m, m2, E) /\ Cont(m2) = Cont(m)
  BY QuietFrame DEF Reads, Quiet
<1>2. SameRec(Cont(m), Cont(m2), l)
  BY <1>1 DEF SameRec
<1> QED BY <1>1, <1>2 DEF Reads, Grows

\* Growing a file twice is growing it.
LEMMA GrowsTrans ==
  ASSUME NEW m, Good(m, {}), NEW l, NEW E, NEW m2, Grows(m, m2, l, E), NEW m3, Grows(m2, m3, l, E)
  PROVE  Grows(m, m3, l, E)
<1>1. Good(m2, {}) /\ Good(m3, {}) /\ Frame(m, m2, E) /\ Frame(m2, m3, E)
  BY DEF Grows
<1>2. Frame(m, m3, E)
  BY ONLY <1>1, Good(m, {}), FrameTrans
<1>3. SameRec(Cont(m), Cont(m3), l)
  BY DEF Grows, SameRec
<1> QED BY <1>2, <1>3 DEF Grows

\* alloc_block, as its callers see it: what they look at is as before.
LEMMA alloc_here ==
  ASSUME NEW m, Good(m, {}), NEW l, Here(m, l), HasName(Cont(m), l), NEW a, a = alloc_block(m)
  PROVE  /\ Frame(m, a, {}) /\ SameStruct(Cont(m), Cont(a)) /\ a.loc = m.loc /\ a.par = m.par /\ Here(a, l)
         /\ HasName(Cont(a), l) /\ SameRec(Cont(m), Cont(a), l) /\ l \in AllOf(Cont(m))
         /\ Rec(Cont(a), l) = Rec(Cont(m), l) /\ SameAt(Cont(m), Cont(a), l)
         /\ a.r \in Int
         /\ IF a.r < 0 THEN Good(a, {}) ELSE a.r \in Data /\ Good(a, {a.r}) /\ Mapped(a, a.r)
<1>1. /\ Frame(m, a, {}) /\ SameStruct(Cont(m), Cont(a)) /\ a.loc = m.loc /\ a.par = m.par
      /\ IF a.r < 0 THEN Good(a, {}) ELSE a.r \in Data /\ Good(a, {a.r}) /\ Mapped(a, a.r)
  BY ONLY Good(m, {}), a = alloc_block(m), alloc_block_Good
<1>2. Here(a, l) /\ l \in AllOf(Cont(m))
  BY <1>1, HereKept DEF Here
<1>3. Rec(Cont(a), l) = Rec(Cont(m), l) /\ SameAt(Cont(m), Cont(a), l)
  BY <1>1, <1>2 DEF SameStruct
<1>4. a.r \in Int
  <2>1. a \in MemRecs
    BY <1>1 DEF Good
  <2> QED BY <2>1 DEF MemRecs
<1>5. HasName(Cont(a), l) /\ SameRec(Cont(m), Cont(a), l)
  BY <1>3 DEF HasName, SameRec
<1> QED BY ONLY <1>1, <1>2, <1>3, <1>4, <1>5

\* The same with the file's own size.
LEMMA RoomSame ==
  ASSUME NEW c, NEW c2, NEW l, SameRec(c, c2, l), NEW i
  PROVE  Room(c2, l, i) <=> Room(c, l, i)
BY DEF Room, SameRec, IsDir

\* If there is room for a block that needs the index, there is room for the index.
LEMMA IndexRoom ==
  ASSUME NEW c, Boot(c), NEW l \in Locs, NEW i \in Idx, ~(i < NDIRECT), Room(c, l, i)
  PROVE  Room(c, l, NINDIRECT)
<1>1. i \in Nat /\ NDIRECT <= i /\ i # NINDIRECT
  BY Numbers, HeldIs DEF Idx
<1>2. PICK s : s = Rec(c, l).size \div BY2BLK
  OBVIOUS
<1>3. s \in Nat
  <2>1. Rec(c, l).size \in Nat
    BY RecType, RecFields
  <2> QED BY <1>2, <2>1, Numbers, DivType
<1>4. Low(i) = i /\ Low(NINDIRECT) = NDIRECT
  BY <1>1 DEF Low
<1>5. Room(c, l, i) <=> IF IsDir(c, l) THEN i < s ELSE i <= s
  BY <1>2, <1>4 DEF Room
<1>6. Room(c, l, NINDIRECT) <=> IF IsDir(c, l) THEN NDIRECT < s ELSE NDIRECT <= s
  BY <1>2, <1>4 DEF Room
<1>7. (i < s => NDIRECT < s) /\ (i <= s => NDIRECT <= s)
  BY <1>1, <1>3, Numbers
<1> QED BY <1>5, <1>6, <1>7

\* file_block_walk with alloc adds the index block if there is none.
LEMMA walk_grows ==
  ASSUME NEW m, Good(m, {}), NEW l, Here(m, l), HasName(Cont(m), l), NEW i \in Nat, i \in Idx => Room(Cont(m), l, i),
         NEW w, w = file_block_walk(m, l, i, TRUE), NEW E
  PROVE  /\ Grows(m, w, l, E)
         /\ ~(w.r < 0) => Walked(w, l, i) /\ Num(Cont(w), l, i) = Num(Cont(m), l, i)
<1>1. File(m, l) = Rec(Cont(m), l) /\ l \in Locs
  BY HereFile
<1>2. CASE i < NDIRECT \/ i >= NINDIRECT \/ Rec(Cont(m), l).ind # 0
  <2>1. w = file_block_walk(m, l, i, FALSE)
    BY <1>1, <1>2 DEF file_block_walk
  <2>2. Reads(m, w, {}, l) /\ (~(w.r < 0) => Walked(w, l, i))
    BY ONLY <2>1, Good(m, {}), Here(m, l), i \in Nat, walk_reads
  <2>3. Cont(w) = Cont(m)
    BY <2>2 DEF Reads, Quiet
  <2>4. Grows(m, w, l, E)
    BY <2>2, ReadsGrows
  <2> QED BY <2>2, <2>3, <2>4
<1>3. CASE ~(i < NDIRECT) /\ ~(i >= NINDIRECT) /\ Rec(Cont(m), l).ind = 0
  <2>1. i \in Idx /\ Num(Cont(m), l, i) = 0
    BY <1>3, Numbers DEF Idx, Num
  <2>2. PICK a : a = alloc_block(m)
    OBVIOUS
  <2>3. /\ Frame(m, a, {}) /\ a.loc = m.loc /\ a.par = m.par /\ Here(a, l)
        /\ HasName(Cont(a), l) /\ SameRec(Cont(m), Cont(a), l) /\ l \in AllOf(Cont(m))
        /\ Rec(Cont(a), l) = Rec(Cont(m), l) /\ SameAt(Cont(m), Cont(a), l)
        /\ a.r \in Int
        /\ IF a.r < 0 THEN Good(a, {}) ELSE a.r \in Data /\ Good(a, {a.r}) /\ Mapped(a, a.r)
    BY ONLY <2>2, Good(m, {}), Here(m, l), HasName(Cont(m), l), alloc_here
  <2>4. Frame(m, a, E)
    BY <2>3, FrameMore
  <2>5. w = IF a.r < 0 THEN a ELSE read_block(SetFile(a, l, [File(a, l) EXCEPT !.ind = a.r]), a.r)
    BY <1>1, <1>3, <2>2 DEF file_block_walk, Then
  <2>6. CASE a.r < 0
    BY <2>3, <2>4, <2>5, <2>6 DEF Grows
  <2>7. CASE ~(a.r < 0)
    <3>1. PICK v : v = a.r
      OBVIOUS
    <3>2. v \in Data /\ Good(a, {v}) /\ v \in Nat
      BY <2>3, <2>7, <3>1, DataIs
    <3>3. PICK f : f = [Rec(Cont(a), l) EXCEPT !.ind = v]
      OBVIOUS
    <3>4. PICK n : n = SetFile(a, l, f)
      OBVIOUS
    <3>5. w = read_block(n, v)
      <4>1. File(a, l) = Rec(Cont(a), l)
        BY <2>3, HereFile
      <4> QED BY <2>5, <2>7, <3>1, <3>3, <3>4, <4>1
    <3>6. f \in FileRecs
      <4>1. Rec(Cont(a), l) \in FileRecs
        BY <1>1, <3>2, RecType DEF Good, Sound
      <4> QED BY <3>2, <3>3, <4>1 DEF FileRecs
    <3>7. /\ Cont(n) = PutRec(Cont(a), l, f) /\ Loads(a, n) /\ InCache(n) /\ n.unsaved \subseteq a.unsaved
          /\ n.loc = a.loc /\ n.par = a.par
      BY ONLY <2>3, <3>2, <3>4, <3>6, SetFileIs
    <3>8. Cont(n) = Put(Cont(a), l, NINDIRECT, v)
      BY <3>3, <3>7 DEF Put
    <3>9. At(Cont(a), l, NINDIRECT) = 0 /\ NINDIRECT \in Held
      BY <1>3, <2>3, HeldIs
    <3>10. Sound(Cont(a), {v}) /\ l \in AllOf(Cont(a)) /\ v \in {v}
      BY <2>3, <3>2 DEF Good, Here
    <3>11. Replaced(Cont(a), Cont(n), l, NINDIRECT, v)
      BY ONLY <3>8, <3>9, <3>10, PutIndex
    <3>12. Room(Cont(a), l, NINDIRECT)
      <4>1. Room(Cont(m), l, NINDIRECT)
        BY <1>1, <1>3, <2>1, IndexRoom DEF Good, Sound
      <4> QED BY <2>3, <4>1, RoomSame
    <3>13. PICK X : X = {v}
      OBVIOUS
    <3>14. /\ Good(a, X) /\ v \in X /\ Here(a, l) /\ HasName(Cont(a), l)
           /\ NINDIRECT = NINDIRECT \/ IsDir(Cont(a), l) \/ l \in E
      BY <2>3, <3>2, <3>13
    <3>15. Loads(a, n) /\ InCache(n) /\ n.unsaved \subseteq a.unsaved
      BY <3>7
    <3>16. /\ Good(n, X \ {v}) /\ Frame(a, n, E) /\ Here(n, l) /\ SameRec(Cont(a), Cont(n), l)
           /\ \A j \in Held : At(Cont(n), l, j) = IF j = NINDIRECT THEN v ELSE At(Cont(a), l, j)
           /\ FreeOf(Cont(n)) = FreeOf(Cont(a)) /\ Cont(n)[v] = Word(0)
      <4>1. Attached(a, n, X, l, NINDIRECT, v, E)
        BY ONLY <3>9, <3>11, <3>12, <3>14, <3>15, AttachGood
      <4> QED BY ONLY <4>1 DEF Attached
    <3>17. Good(n, {})
      <4>1. X \ {v} = {}
        BY <3>13
      <4> QED BY <3>16, <4>1
    <3>18. v \notin FreeOf(Cont(n))
      BY <3>10, <3>16 DEF Sound, Blank
    <3>19. Quiet(n, w) /\ w.r = v /\ Mapped(w, v) /\ w.loc = n.loc /\ w.par = n.par
      BY ONLY <3>2, <3>5, <3>17, <3>18, read_block_Quiet
    <3>20. Good(w, {}) /\ Here(w, l) /\ Cont(w) = Cont(n) /\ Frame(n, w, E)
      BY <3>16, <3>17, <3>19, QuietGood, QuietHere, QuietFrame DEF Quiet
    <3>21. Frame(m, n, E)
      BY ONLY <2>4, <3>2, <3>16, <3>17, Good(m, {}), FrameTrans
    <3>22. Frame(m, w, E)
      BY ONLY <3>17, <3>20, <3>21, Good(m, {}), FrameTrans
    <3>23. SameRec(Cont(m), Cont(w), l)
      BY <2>3, <3>16, <3>20 DEF SameRec
    <3>24. w.r \in Int /\ ~(w.r < 0)
      BY <2>3, <2>7, <3>1, <3>19
    <3>25. w.loc = m.loc /\ w.par = m.par
      BY <2>3, <3>7, <3>19
    <3>26. Grows(m, w, l, E)
      BY <3>20, <3>22, <3>23, <3>24, <3>25 DEF Grows
    <3>27. Num(Cont(w), l, i) = 0
      <4>1. At(Cont(a), l, i) = 0
        BY <2>1, <2>3, HeldIs DEF SameAt
      <4> QED BY <2>1, <3>16, <3>20, <4>1, HeldIs
    <3>28. Walked(w, l, i)
      <4>1. At(Cont(w), l, NINDIRECT) = v
        BY <3>16, <3>20, HeldIs
      <4>2. Rec(Cont(w), l).ind = v /\ v # 0
        BY <3>2, <4>1, HeldIs, DataIs
      <4> QED BY <2>1, <3>19, <4>2 DEF Walked
    <3> QED BY <2>1, <3>26, <3>27, <3>28
  <2> QED BY <2>6, <2>7
<1> QED BY <1>2, <1>3

\* Block i of l is there, and blank if it has just been allocated.
Found(m, a, l, i) == /\ i \in Idx /\ a.r \in Data /\ a.r \notin FreeOf(Cont(a)) /\ Num(Cont(a), l, i) = a.r
                     /\ Num(Cont(m), l, i) = 0 => Cont(a)[a.r] = Word(0)

\* file_map_block with alloc adds the block if there is none.
LEMMA map_grows ==
  ASSUME NEW m, Good(m, {}), NEW l, Here(m, l), HasName(Cont(m), l), NEW i \in Nat, i \in Idx => Room(Cont(m), l, i),
         NEW E, IsDir(Cont(m), l) \/ l \in E, NEW a, a = file_map_block(m, l, i, TRUE)
  PROVE  Grows(m, a, l, E) /\ (~(a.r < 0) => Found(m, a, l, i))
<1>1. PICK w : w = file_block_walk(m, l, i, TRUE)
  OBVIOUS
<1>2. Grows(m, w, l, E) /\ (~(w.r < 0) => Walked(w, l, i) /\ Num(Cont(w), l, i) = Num(Cont(m), l, i))
  BY ONLY <1>1, Good(m, {}), Here(m, l), HasName(Cont(m), l), i \in Nat, i \in Idx => Room(Cont(m), l, i), walk_grows
<1>3. /\ Good(w, {}) /\ Frame(m, w, E) /\ Here(w, l) /\ SameRec(Cont(m), Cont(w), l) /\ w.loc = m.loc /\ w.par = m.par
  BY <1>2 DEF Grows
<1>4. HasName(Cont(w), l) /\ (IsDir(Cont(w), l) <=> IsDir(Cont(m), l))
  BY <1>3 DEF HasName, SameRec, IsDir
<1>5. a = IF w.r < 0 THEN w
          ELSE IF Entry(w, l, i) # 0 THEN Return(w, Entry(w, l, i))
          ELSE IF alloc_block(w).r < 0 THEN alloc_block(w)
          ELSE SetEntry(alloc_block(w), l, i, alloc_block(w).r)
  BY <1>1 DEF file_map_block, Then
<1>6. CASE w.r < 0
  BY <1>2, <1>5, <1>6
<1>7. CASE ~(w.r < 0)
  <2>1. PICK v : v = Num(Cont(m), l, i)
    OBVIOUS
  <2>2. Walked(w, l, i) /\ Num(Cont(w), l, i) = v
    BY <1>2, <1>7, <2>1
  <2>3. Entry(w, l, i) = v /\ i \in Idx /\ i \in Held /\ i # NINDIRECT
    BY <1>3, <2>2, EntryIs, HeldIs DEF Walked
  <2>4. CASE v # 0
    <3>1. v \in Data /\ v \notin FreeOf(Cont(w))
      BY <1>3, <2>2, <2>3, <2>4, NumIn DEF Here, Good
    <3>2. v \in Int
      BY <3>1, DataIs
    <3>3. a = Return(w, v)
      BY <1>5, <1>7, <2>3, <2>4
    <3>4. Reads(w, a, {}, l) /\ a.r = v /\ Cont(a) = Cont(w)
      BY ONLY <1>3, <3>2, <3>3, ReturnReads
    <3>5. Grows(w, a, l, E)
      BY <1>3, <3>4, ReadsGrows
    <3>6. Grows(m, a, l, E)
      BY ONLY <1>2, <3>5, Good(m, {}), GrowsTrans
    <3>7. Found(m, a, l, i)
      BY <2>1, <2>2, <2>3, <2>4, <3>1, <3>4 DEF Found
    <3> QED BY <3>6, <3>7
  <2>5. CASE v = 0
    <3>1. PICK n : n = alloc_block(w)
      OBVIOUS
    <3>2. /\ Frame(w, n, {}) /\ n.loc = w.loc /\ n.par = w.par /\ Here(n, l)
          /\ HasName(Cont(n), l) /\ SameRec(Cont(w), Cont(n), l)
          /\ Rec(Cont(n), l) = Rec(Cont(w), l) /\ SameAt(Cont(w), Cont(n), l)
          /\ n.r \in Int
          /\ IF n.r < 0 THEN Good(n, {}) ELSE n.r \in Data /\ Good(n, {n.r}) /\ Mapped(n, n.r)
      BY ONLY <3>1, <1>3, <1>4, alloc_here
    <3>3. Frame(w, n, E)
      BY <3>2, FrameMore
    <3>4. a = IF n.r < 0 THEN n ELSE SetEntry(n, l, i, n.r)
      BY <1>5, <1>7, <2>3, <2>5, <3>1
    <3>5. CASE n.r < 0
      <4>1. Grows(w, n, l, E)
        BY <3>2, <3>3, <3>5 DEF Grows
      <4>2. Grows(m, n, l, E)
        BY ONLY <1>2, <4>1, Good(m, {}), GrowsTrans
      <4> QED BY <3>4, <3>5, <4>2
    <3>6. CASE ~(n.r < 0)
      <4>1. PICK b : b = n.r
        OBVIOUS
      <4>2. PICK X : X = {b}
        OBVIOUS
      <4>3. b \in Data /\ Good(n, X) /\ b \in X /\ b \in Nat
        BY <3>2, <3>6, <4>1, <4>2, DataIs
      <4>4. a = SetEntry(n, l, i, b)
        BY <3>4, <3>6, <4>1
      <4>5. Walked(n, l, i)
        <5>1. CASE i < NDIRECT
          BY <2>3, <5>1 DEF Walked
        <5>2. CASE ~(i < NDIRECT)
          <6>1. PICK q : q = Rec(Cont(w), l).ind
            OBVIOUS
          <6>2. q # 0 /\ Mapped(w, q)
            BY <2>2, <5>2, <6>1 DEF Walked
          <6>3. q \in Blocks
            BY <1>3, <6>1, <6>2, IndexIs, DataIs
          <6>4. Mapped(n, q)
            BY <3>2, <6>2, <6>3 DEF Frame, Loads
          <6> QED BY <2>3, <3>2, <6>1, <6>2, <6>4 DEF Walked
        <5> QED BY <5>1, <5>2
      <4>6. /\ Cont(a) = Put(Cont(n), l, i, b) /\ Loads(n, a) /\ InCache(a) /\ a.unsaved \subseteq n.unsaved
            /\ a.r = n.r /\ a.loc = n.loc /\ a.par = n.par
        BY ONLY <3>2, <4>3, <4>4, <4>5, SetEntryIs
      <4>7. Sound(Cont(n), X) /\ l \in AllOf(Cont(n))
        BY <3>2, <4>3 DEF Good, Here
      <4>8. At(Cont(n), l, i) = 0
        BY <2>2, <2>3, <2>5, <3>2, HeldIs DEF SameAt
      <4>9. Replaced(Cont(n), Cont(a), l, i, b)
        <5>1. CASE i < NDIRECT
          <6>1. i \in 0 .. NDIRECT - 1
            BY <2>3, <5>1, Numbers DEF Idx
          <6> QED BY ONLY <4>3, <4>6, <4>7, <6>1, PutDirect
        <5>2. CASE ~(i < NDIRECT)
          <6>1. i \in NDIRECT .. NINDIRECT - 1
            BY <2>3, <5>2, Numbers DEF Idx
          <6>2. Rec(Cont(n), l).ind # 0
            BY <4>5, <5>2 DEF Walked
          <6> QED BY ONLY <4>3, <4>6, <4>7, <6>1, <6>2, PutIndirect
        <5> QED BY <5>1, <5>2
      <4>10. Room(Cont(n), l, i)
        <5>1. Room(Cont(w), l, i)
          BY <1>3, <2>3, RoomSame
        <5> QED BY <3>2, <5>1, RoomSame
      <4>11. i = NINDIRECT \/ IsDir(Cont(n), l) \/ l \in E
        BY <1>4, <3>2 DEF IsDir
      <4>12. Loads(n, a) /\ InCache(a) /\ a.unsaved \subseteq n.unsaved
        BY <4>6
      <4>13. Good(n, X) /\ b \in X /\ Here(n, l) /\ HasName(Cont(n), l) /\ i \in Held
        BY <2>3, <3>2, <4>3
      <4>14. /\ Good(a, X \ {b}) /\ Frame(n, a, E) /\ Here(a, l) /\ SameRec(Cont(n), Cont(a), l)
             /\ \A j \in Held : At(Cont(a), l, j) = IF j = i THEN b ELSE At(Cont(n), l, j)
             /\ FreeOf(Cont(a)) = FreeOf(Cont(n)) /\ Cont(a)[b] = Word(0)
        <5>1. Attached(n, a, X, l, i, b, E)
          BY ONLY <4>8, <4>9, <4>10, <4>11, <4>12, <4>13, AttachGood
        <5> QED BY ONLY <5>1 DEF Attached
      <4>15. Good(a, {})
        <5>1. X \ {b} = {}
          BY <4>2
        <5> QED BY <4>14, <5>1
      <4>16. Frame(w, a, E)
        BY ONLY <1>3, <3>3, <4>3, <4>14, <4>15, FrameTrans
      <4>17. SameRec(Cont(w), Cont(a), l)
        BY <3>2, <4>14 DEF SameRec
      <4>18. a.loc = w.loc /\ a.par = w.par /\ a.r = b /\ a.r \in Int
        BY <3>2, <4>1, <4>6
      <4>19. Grows(w, a, l, E)
        BY <4>14, <4>15, <4>16, <4>17, <4>18 DEF Grows
      <4>20. Grows(m, a, l, E)
        BY ONLY <1>2, <4>19, Good(m, {}), GrowsTrans
      <4>21. Num(Cont(a), l, i) = b
        BY <2>3, <4>14, HeldIs
      <4>22. b \notin FreeOf(Cont(a))
        BY <4>3, <4>7, <4>14 DEF Sound, Blank
      <4>23. Found(m, a, l, i)
        BY <2>3, <4>3, <4>14, <4>18, <4>21, <4>22 DEF Found
      <4> QED BY <4>20, <4>23
    <3> QED BY <3>5, <3>6
  <2> QED BY <2>4, <2>5
<1> QED BY <1>6, <1>7

\* file_get_block also has it in the cache.
LEMMA get_grows ==
  ASSUME NEW m, Good(m, {}), NEW l, Here(m, l), HasName(Cont(m), l), NEW i \in Nat, i \in Idx => Room(Cont(m), l, i),
         NEW E, IsDir(Cont(m), l) \/ l \in E, NEW g, g = file_get_block(m, l, i)
  PROVE  Grows(m, g, l, E) /\ (~(g.r < 0) => Found(m, g, l, i) /\ Mapped(g, g.r))
<1>1. PICK a : a = file_map_block(m, l, i, TRUE)
  OBVIOUS
<1>2. Grows(m, a, l, E) /\ (~(a.r < 0) => Found(m, a, l, i))
  BY ONLY <1>1, Good(m, {}), Here(m, l), HasName(Cont(m), l), i \in Nat, i \in Idx => Room(Cont(m), l, i),
          IsDir(Cont(m), l) \/ l \in E, map_grows
<1>3. g = IF a.r < 0 THEN a ELSE read_block(a, a.r)
  BY <1>1 DEF file_get_block, Then
<1>4. CASE a.r < 0
  BY <1>2, <1>3, <1>4
<1>5. CASE ~(a.r < 0)
  <2>1. PICK b : b = a.r
    OBVIOUS
  <2>2. Good(a, {}) /\ b \in Data /\ b \notin FreeOf(Cont(a)) /\ g = read_block(a, b) /\ Here(a, l)
    BY <1>2, <1>3, <1>5, <2>1 DEF Grows, Found
  <2>3. Quiet(a, g) /\ g.r = b /\ Mapped(g, b) /\ g.loc = a.loc /\ g.par = a.par
    BY ONLY <2>2, read_block_Quiet
  <2>4. Good(g, {}) /\ Here(g, l) /\ b \in Int
    BY <2>2, <2>3, QuietGood, QuietHere, DataIs
  <2>5. Reads(a, g, {}, l)
    BY <2>3, <2>4 DEF Reads
  <2>6. Grows(a, g, l, E)
    BY <2>2, <2>5, ReadsGrows
  <2>7. Grows(m, g, l, E)
    BY ONLY <1>2, <2>6, Good(m, {}), GrowsTrans
  <2>8. Found(m, g, l, i)
    BY <1>2, <1>5, <2>1, <2>3 DEF Found, Quiet
  <2> QED BY <2>1, <2>3, <2>7, <2>8
<1> QED BY <1>4, <1>5

-----------------------------------------------------------------------------
(***************************************************************************)
(* Truncation.                                                             *)
(***************************************************************************)
LEMMA MemSame ==
  ASSUME NEW m \in MemRecs, NEW m2 \in MemRecs, m.cache = m2.cache, m.unsaved = m2.unsaved, m.dirty = m2.dirty,
         m.panic = m2.panic, m.mem = m2.mem, m.r = m2.r, m.loc = m2.loc, m.par = m2.par
  PROVE  m = m2
BY DEF MemRecs

\* What SetMeta changes of the memory.
LEMMA SetMetaFields ==
  ASSUME NEW m \in MemRecs, NEW b \in Blocks, NEW x \in Contents, NEW m2, m2 = SetMeta(m, b, x)
  PROVE  /\ m2 \in MemRecs /\ m2.cache = [m.cache EXCEPT ![b] = x] /\ m2.unsaved = m.unsaved \ {b} /\ m2.dirty = m.dirty
         /\ m2.panic = m.panic /\ m2.mem = m.mem /\ m2.r = m.r /\ m2.loc = m.loc /\ m2.par = m.par
BY DEF SetMeta, MemRecs

\* What free_block changes of the memory.
LEMMA FreeFields ==
  ASSUME NEW m \in MemRecs, NEW S, S = Free(m), S \subseteq Blocks, NEW b \in Data, NEW m2, m2 = free_block(m, b)
  PROVE  /\ m2 \in MemRecs /\ m2.cache = [m.cache EXCEPT ![BITMAP] = Bits(S \cup {b})]
         /\ m2.unsaved = (m.unsaved \ {BITMAP}) \ {b} /\ m2.dirty = m.dirty
         /\ m2.panic = m.panic /\ m2.mem = m.mem /\ m2.r = m.r /\ m2.loc = m.loc /\ m2.par = m.par
<1>1. b \in Blocks /\ b # 0 /\ ~(b >= NBLOCKS) /\ BITMAP \in Blocks
  BY DataIs, BlockSets
<1>2. PICK x : x = Bits(S \cup {b})
  OBVIOUS
<1>3. x \in Contents
  <2>1. S \cup {b} \in SUBSET Blocks
    BY <1>1
  <2> QED BY <1>2, <2>1, ContentKinds
<1>4. PICK n : n = SetMeta(m, BITMAP, x)
  OBVIOUS
<1>5. /\ n \in MemRecs /\ n.cache = [m.cache EXCEPT ![BITMAP] = x] /\ n.unsaved = m.unsaved \ {BITMAP} /\ n.dirty = m.dirty
      /\ n.panic = m.panic /\ n.mem = m.mem /\ n.r = m.r /\ n.loc = m.loc /\ n.par = m.par
  BY ONLY <1>1, <1>3, <1>4, m \in MemRecs, SetMetaFields
<1>6. m2 = [n EXCEPT !.unsaved = @ \ {b}]
  BY <1>1, <1>2, <1>4 DEF free_block
<1>7. /\ m2 \in MemRecs /\ m2.cache = n.cache /\ m2.unsaved = n.unsaved \ {b} /\ m2.dirty = n.dirty
      /\ m2.panic = n.panic /\ m2.mem = n.mem /\ m2.r = n.r /\ m2.loc = n.loc /\ m2.par = n.par
  BY <1>5, <1>6 DEF MemRecs
<1> QED BY <1>2, <1>5, <1>7

\* The bitmap and another block can be written in any order.
LEMMA FreeCommutes ==
  ASSUME NEW m \in MemRecs, NEW S, S = Free(m), S \subseteq Blocks, NEW v \in Data,
         NEW q \in Blocks, q # BITMAP, NEW x \in Contents
  PROVE  SetMeta(free_block(m, v), q, x) = free_block(SetMeta(m, q, x), v)
<1>1. PICK f : f = free_block(m, v)
  OBVIOUS
<1>2. PICK y : y = Bits(S \cup {v})
  OBVIOUS
<1>3. /\ f \in MemRecs /\ f.cache = [m.cache EXCEPT ![BITMAP] = y]
      /\ f.unsaved = (m.unsaved \ {BITMAP}) \ {v} /\ f.dirty = m.dirty
      /\ f.panic = m.panic /\ f.mem = m.mem /\ f.r = m.r /\ f.loc = m.loc /\ f.par = m.par
  BY ONLY <1>1, <1>2, m \in MemRecs, S = Free(m), S \subseteq Blocks, v \in Data, FreeFields
<1>4. PICK g : g = SetMeta(f, q, x)
  OBVIOUS
<1>5. /\ g \in MemRecs /\ g.cache = [f.cache EXCEPT ![q] = x] /\ g.unsaved = f.unsaved \ {q} /\ g.dirty = f.dirty
      /\ g.panic = f.panic /\ g.mem = f.mem /\ g.r = f.r /\ g.loc = f.loc /\ g.par = f.par
  BY ONLY <1>3, <1>4, q \in Blocks, x \in Contents, SetMetaFields
<1>6. PICK n : n = SetMeta(m, q, x)
  OBVIOUS
<1>7. /\ n \in MemRecs /\ n.cache = [m.cache EXCEPT ![q] = x] /\ n.unsaved = m.unsaved \ {q} /\ n.dirty = m.dirty
      /\ n.panic = m.panic /\ n.mem = m.mem /\ n.r = m.r /\ n.loc = m.loc /\ n.par = m.par
  BY ONLY <1>6, m \in MemRecs, q \in Blocks, x \in Contents, SetMetaFields
<1>8. m.cache \in [Blocks -> Contents \cup {NIL}] /\ BITMAP \in Blocks
  BY MemFields, BlockSets
<1>9. S = Free(n)
  BY <1>7, <1>8 DEF Free
<1>10. PICK h : h = free_block(n, v)
  OBVIOUS
<1>11. /\ h \in MemRecs /\ h.cache = [n.cache EXCEPT ![BITMAP] = y]
       /\ h.unsaved = (n.unsaved \ {BITMAP}) \ {v} /\ h.dirty = n.dirty
       /\ h.panic = n.panic /\ h.mem = n.mem /\ h.r = n.r /\ h.loc = n.loc /\ h.par = n.par
  BY ONLY <1>2, <1>7, <1>9, <1>10, S \subseteq Blocks, v \in Data, FreeFields
<1>12. g.cache = h.cache
  BY <1>3, <1>5, <1>7, <1>8, <1>11
<1>13. g.unsaved = h.unsaved
  BY <1>3, <1>5, <1>7, <1>11
<1>14. /\ g \in MemRecs /\ h \in MemRecs /\ g.dirty = h.dirty /\ g.panic = h.panic /\ g.mem = h.mem
       /\ g.r = h.r /\ g.loc = h.loc /\ g.par = h.par
  BY <1>3, <1>5, <1>7, <1>11
<1>15. g = h
  BY ONLY <1>12, <1>13, <1>14, MemSame
<1> QED BY <1>1, <1>4, <1>6, <1>10, <1>15

\* file_clear_block frees the block and then clears its number.
LEMMA ClearOrder ==
  ASSUME NEW m, NEW X, Good(m, X), NEW l, Here(m, l), NEW i, Walked(m, l, i), NEW v \in Data
  PROVE  SetEntry(free_block(m, v), l, i, 0) = free_block(SetEntry(m, l, i, 0), v)
<1>1. File(m, l) = Rec(Cont(m), l) /\ l \in Locs /\ l[1] \in Blocks /\ l[1] # BITMAP /\ m \in MemRecs
  BY HereFile, PlaceOf DEF Good
<1>2. PICK S : S = Free(m)
  OBVIOUS
<1>3. S \subseteq Blocks
  BY <1>2, FreeIs, BlockSets
<1>4. PICK f : f = free_block(m, v)
  OBVIOUS
<1>5. f.cache = [m.cache EXCEPT ![BITMAP] = Bits(S \cup {v})]
  BY ONLY <1>1, <1>2, <1>3, <1>4, v \in Data, FreeFields
<1>6. m.cache \in [Blocks -> Contents \cup {NIL}]
  BY <1>1, MemFields
<1>7. \A b \in Blocks : b # BITMAP => f.cache[b] = m.cache[b]
  BY <1>5, <1>6
<1>8. f.cache[l[1]] = m.cache[l[1]]
  BY <1>1, <1>7
<1>9. File(f, l) = File(m, l)
  BY <1>8 DEF File
<1>10. \E q \in Blocks, x \in Contents : q # BITMAP /\ SetEntry(m, l, i, 0) = SetMeta(m, q, x) /\ SetEntry(f, l, i, 0) = SetMeta(f, q, x)
  <2>1. CASE i < NDIRECT
    <3>1. PICK g : g = [File(m, l) EXCEPT !.ptr[i] = 0]
      OBVIOUS
    <3>2. PICK x : x = Dir([AsDir(m.cache[l[1]]) EXCEPT ![l[2]] = g])
      OBVIOUS
    <3>3. SetEntry(m, l, i, 0) = SetMeta(m, l[1], x)
      BY <2>1, <3>1, <3>2 DEF SetEntry, SetFile
    <3>4. SetEntry(f, l, i, 0) = SetMeta(f, l[1], x)
      BY <1>8, <1>9, <2>1, <3>1, <3>2 DEF SetEntry, SetFile
    <3>5. g \in FileRecs
      <4>1. Rec(Cont(m), l) \in FileRecs
        BY <1>1, RecType DEF Good, Sound
      <4>2. i \in 0 .. NDIRECT - 1
        BY <2>1, Numbers DEF Idx, Walked
      <4> QED BY <1>1, <3>1, <4>1, <4>2 DEF FileRecs
    <3>6. x \in Contents
      BY ONLY <3>2, <3>5, Good(m, X), Here(m, l), SlotStored
    <3> QED BY <1>1, <3>3, <3>4, <3>6
  <2>2. CASE ~(i < NDIRECT)
    <3>1. PICK q : q = Rec(Cont(m), l).ind
      OBVIOUS
    <3>2. q # 0 /\ Mapped(m, q)
      BY <2>2, <3>1 DEF Walked
    <3>3. q \in Blocks /\ q # BITMAP
      BY <3>1, <3>2, IndexIs, DataIs
    <3>4. PICK x : x = Ptr([AsPtr(m.cache[q]) EXCEPT ![i] = 0])
      OBVIOUS
    <3>5. x \in Contents
      <4>1. Cont(m)[q] \in Contents /\ Cont(m)[q] = m.cache[q]
        BY <3>2, <3>3, ContIs DEF Good, Sound, Boot, Conts
      <4>2. AsPtr(m.cache[q]) \in [Idx -> Nat]
        BY <4>1, AsPtrType
      <4>3. [AsPtr(m.cache[q]) EXCEPT ![i] = 0] \in [Idx -> Nat]
        BY <4>2
      <4> QED BY <3>4, <4>3, ContentKinds
    <3>6. SetEntry(m, l, i, 0) = SetMeta(m, q, x)
      BY <1>1, <2>2, <3>1, <3>4 DEF SetEntry
    <3>7. SetEntry(f, l, i, 0) = SetMeta(f, q, x)
      BY <1>1, <1>7, <1>9, <2>2, <3>1, <3>3, <3>4 DEF SetEntry
    <3> QED BY <3>3, <3>5, <3>6, <3>7
  <2> QED BY <2>1, <2>2
<1>11. PICK q \in Blocks, x \in Contents : q # BITMAP /\ SetEntry(m, l, i, 0) = SetMeta(m, q, x) /\ SetEntry(f, l, i, 0) = SetMeta(f, q, x)
  BY <1>10
<1>12. SetMeta(free_block(m, v), q, x) = free_block(SetMeta(m, q, x), v)
  BY ONLY <1>1, <1>2, <1>3, <1>11, v \in Data, FreeCommutes
<1> QED BY <1>4, <1>11, <1>12

\* The other blocks of a file.
DataSame(c, c2, l, i) == \A j \in Idx : j # i /\ Num(c, l, j) # 0 => c2[Num(c, l, j)] = c[Num(c, l, j)]
NumsSame(c, c2, l, i) == \A j \in Held : j # i => At(c2, l, j) = At(c, l, j)

\* A blank block of l is given up.
Cut(m, n, l, i) == /\ Grows(m, n, l, {l}) /\ (i \in Idx => Num(Cont(n), l, i) = 0)
                   /\ NumsSame(Cont(m), Cont(n), l, i) /\ DataSame(Cont(m), Cont(n), l, i)
                   /\ Rec(Cont(n), l).ind = Rec(Cont(m), l).ind

\* The memory is sound when a number of a file that is no directory has been cleared,
\* and its block is nobody's.
LEMMA DetachGood ==
  ASSUME NEW m, Good(m, {}), NEW l, Here(m, l), ~IsDir(Cont(m), l), NEW i \in Held, NEW v, v = At(Cont(m), l, i), v # 0,
         Cont(m)[v] = Word(0), NEW X, X = {v},
         NEW m2, Loads(m, m2), InCache(m2), m2.unsaved \subseteq m.unsaved, Replaced(Cont(m), Cont(m2), l, i, 0)
  PROVE  /\ Good(m2, X) /\ Frame(m, m2, {l}) /\ Here(m2, l) /\ SameRec(Cont(m), Cont(m2), l)
         /\ At(Cont(m2), l, i) = 0 /\ NumsSame(Cont(m), Cont(m2), l, i) /\ DataSame(Cont(m), Cont(m2), l, i)
<1>1. Sound(Cont(m), {}) /\ l \in AllOf(Cont(m)) /\ m \in MemRecs /\ ~m.panic
  BY DEF Good, Here
<1>2. Sound(Cont(m2), {} \cup {v})
  BY <1>1, Detach
<1>3. {} \cup {v} = X
  OBVIOUS
<1>4. Spares(Cont(m), Cont(m2), {l})
  BY <1>1, DetachSpares
<1>5. Good(m2, X)
  BY <1>1, <1>2, <1>3 DEF Good, Loads
<1>6. Frame(m, m2, {l})
  BY <1>4 DEF Frame, Saved
<1>7. Here(m2, l)
  BY <1>6, HereKept
<1>8. SameRec(Cont(m), Cont(m2), l) /\ At(Cont(m2), l, i) = 0 /\ NumsSame(Cont(m), Cont(m2), l, i)
  BY <1>1 DEF Replaced, NumsSame
<1>9. DataSame(Cont(m), Cont(m2), l, i)
  BY <1>1, ReplacedAt, DataKept DEF DataSame
<1> QED BY <1>5, <1>6, <1>7, <1>8, <1>9

\* The block is freed.
LEMMA FreeCut ==
  ASSUME NEW m, NEW v, NEW X, X = {v}, Good(m, X), NEW l, Here(m, l), NEW m2, m2 = free_block(m, v)
  PROVE  /\ Grows(m, m2, l, {l}) /\ SameStruct(Cont(m), Cont(m2)) /\ SameBlocks(Cont(m), Cont(m2)) /\ m2.r = m.r
<1>1. v \in X /\ m \in MemRecs /\ v \in Data
  BY DEF Good, Sound, Blank
<1>2. Good(m2, X \ {v}) /\ Frame(m, m2, {}) /\ SameStruct(Cont(m), Cont(m2))
  BY ONLY <1>1, Good(m, X), m2 = free_block(m, v), free_loose
<1>3. X \ {v} = {}
  OBVIOUS
<1>4. Frame(m, m2, {l})
  BY <1>2, FrameMore
<1>5. Here(m2, l)
  BY <1>2, HereKept
<1>6. SameRec(Cont(m), Cont(m2), l)
  BY <1>2 DEF SameStruct, SameRec, Here
<1>7. PICK S : S = Free(m)
  OBVIOUS
<1>8. S \subseteq Blocks
  BY <1>7, FreeIs, BlockSets
<1>9. PICK y : y = Bits(S \cup {v})
  OBVIOUS
<1>10. /\ m2 \in MemRecs /\ m2.cache = [m.cache EXCEPT ![BITMAP] = y]
      /\ m2.unsaved = (m.unsaved \ {BITMAP}) \ {v} /\ m2.dirty = m.dirty
      /\ m2.panic = m.panic /\ m2.mem = m.mem /\ m2.r = m.r /\ m2.loc = m.loc /\ m2.par = m.par
  <2>1. m \in MemRecs /\ v \in Data
    BY <1>1
  <2> QED BY ONLY <1>7, <1>8, <1>9, <2>1, m2 = free_block(m, v), FreeFields
<1>11. m2.r \in Int
  BY <1>1, <1>10 DEF MemRecs
<1>12. m.cache \in [Blocks -> Contents \cup {NIL}]
  BY <1>1, MemFields
<1>13. \A b \in Blocks : b # BITMAP => m2.cache[b] = m.cache[b]
  BY <1>10, <1>12
<1>14. SameBlocks(Cont(m), Cont(m2))
  <2>1. Cont(m2) \in Conts
    BY <1>2 DEF Good, Sound, Boot
  <2>2. \A b \in Blocks \ {BITMAP} : Cont(m2)[b] = Cont(m)[b]
    BY <1>13 DEF Cont
  <2> QED BY <2>1, <2>2 DEF SameBlocks
<1> QED BY <1>2, <1>3, <1>4, <1>5, <1>6, <1>10, <1>11, <1>14 DEF Grows

\* file_clear_block takes a blank block from the file and frees it.
LEMMA clear_cuts ==
  ASSUME NEW m, Good(m, {}), NEW l, Here(m, l), ~IsDir(Cont(m), l), NEW i \in Nat,
         i \in Idx /\ Num(Cont(m), l, i) # 0 => Cont(m)[Num(Cont(m), l, i)] = Word(0),
         NEW n, n = file_clear_block(m, l, i)
  PROVE  Cut(m, n, l, i)
<1>1. PICK w : w = file_block_walk(m, l, i, FALSE)
  OBVIOUS
<1>2. Reads(m, w, {}, l) /\ IF w.r < 0 THEN i \in Idx => Num(Cont(m), l, i) = 0 ELSE Walked(w, l, i)
  BY ONLY <1>1, Good(m, {}), Here(m, l), i \in Nat, walk_reads
<1>3. n = IF w.r < 0 THEN w ELSE IF Entry(w, l, i) = 0 THEN w
          ELSE SetEntry(free_block(w, Entry(w, l, i)), l, i, 0)
  BY <1>1 DEF file_clear_block, Then
<1>4. Good(w, {}) /\ Here(w, l) /\ Cont(w) = Cont(m) /\ w.loc = m.loc /\ w.par = m.par
  BY <1>2 DEF Reads, Quiet
<1>5. Grows(m, w, l, {l})
  BY <1>2, ReadsGrows
<1>6. NumsSame(Cont(m), Cont(w), l, i) /\ DataSame(Cont(m), Cont(w), l, i)
  BY <1>4 DEF NumsSame, DataSame
<1>7. CASE w.r < 0
  BY <1>2, <1>3, <1>4, <1>5, <1>6, <1>7 DEF Cut
<1>8. CASE ~(w.r < 0)
  <2>1. Walked(w, l, i) /\ i \in Idx /\ i \in Held /\ i # NINDIRECT
    BY <1>2, <1>8, HeldIs DEF Walked
  <2>2. PICK v : v = Num(Cont(w), l, i)
    OBVIOUS
  <2>3. Entry(w, l, i) = v
    BY <1>4, <2>1, <2>2, EntryIs
  <2>4. CASE v = 0
    BY <1>3, <1>4, <1>5, <1>6, <1>8, <2>2, <2>3, <2>4 DEF Cut
  <2>5. CASE v # 0
    <3>1. v \in Data /\ Cont(w)[v] = Word(0) /\ v = At(Cont(w), l, i)
      BY <1>4, <2>1, <2>2, <2>5, NumIn, HeldIs DEF Good, Here
    <3>2. PICK s : s = SetEntry(w, l, i, 0)
      OBVIOUS
    <3>3. n = free_block(s, v)
      <4>1. n = SetEntry(free_block(w, v), l, i, 0)
        BY <1>3, <1>8, <2>3, <2>5
      <4>2. SetEntry(free_block(w, v), l, i, 0) = free_block(SetEntry(w, l, i, 0), v)
        BY ONLY <1>4, <2>1, <3>1, ClearOrder
      <4> QED BY <3>2, <4>1, <4>2
    <3>4. 0 \in Nat
      OBVIOUS
    <3>5. /\ Cont(s) = Put(Cont(w), l, i, 0) /\ Loads(w, s) /\ InCache(s) /\ s.unsaved \subseteq w.unsaved
          /\ s.r = w.r /\ s.loc = w.loc /\ s.par = w.par
      BY ONLY <1>4, <2>1, <3>2, <3>4, SetEntryIs
    <3>6. Sound(Cont(w), {}) /\ l \in AllOf(Cont(w)) /\ ~IsDir(Cont(w), l)
      BY <1>4 DEF Good, Here
    <3>7. Replaced(Cont(w), Cont(s), l, i, 0)
      <4>1. CASE i < NDIRECT
        <5>1. i \in 0 .. NDIRECT - 1
          BY <2>1, <4>1, Numbers DEF Idx
        <5> QED BY ONLY <3>4, <3>5, <3>6, <5>1, PutDirect
      <4>2. CASE ~(i < NDIRECT)
        <5>1. i \in NDIRECT .. NINDIRECT - 1
          BY <2>1, <4>2, Numbers DEF Idx
        <5>2. Rec(Cont(w), l).ind # 0
          BY <2>1, <4>2 DEF Walked
        <5> QED BY ONLY <3>4, <3>5, <3>6, <5>1, <5>2, PutIndirect
      <4> QED BY <4>1, <4>2
    <3>8. PICK X : X = {v}
      OBVIOUS
    <3>9. Loads(w, s) /\ InCache(s) /\ s.unsaved \subseteq w.unsaved
      BY <3>5
    <3>10. /\ Good(s, X) /\ Frame(w, s, {l}) /\ Here(s, l) /\ SameRec(Cont(w), Cont(s), l)
           /\ At(Cont(s), l, i) = 0 /\ NumsSame(Cont(w), Cont(s), l, i) /\ DataSame(Cont(w), Cont(s), l, i)
      BY ONLY <1>4, <2>1, <2>5, <3>1, <3>6, <3>7, <3>8, <3>9, DetachGood
    <3>11. /\ Grows(s, n, l, {l}) /\ SameStruct(Cont(s), Cont(n)) /\ SameBlocks(Cont(s), Cont(n)) /\ n.r = s.r
      BY ONLY <3>3, <3>8, <3>10, FreeCut
    <3>12. Good(n, {}) /\ Frame(s, n, {l}) /\ Here(n, l) /\ SameRec(Cont(s), Cont(n), l) /\ n.loc = s.loc /\ n.par = s.par /\ n.r \in Int
      BY <3>11 DEF Grows
    <3>13. Frame(w, n, {l})
      BY ONLY <1>4, <3>10, <3>12, FrameTrans
    <3>14. SameRec(Cont(w), Cont(n), l)
      BY <3>10, <3>12 DEF SameRec
    <3>15. Grows(w, n, l, {l})
      BY <3>5, <3>12, <3>13, <3>14 DEF Grows
    <3>16. Grows(m, n, l, {l})
      BY ONLY <1>5, <3>15, Good(m, {}), GrowsTrans
    <3>17. SameAt(Cont(s), Cont(n), l)
      BY <3>10, <3>11 DEF SameStruct, Here
    <3>18. Num(Cont(n), l, i) = 0
      BY <2>1, <3>10, <3>17, HeldIs DEF SameAt
    <3>19. NumsSame(Cont(m), Cont(n), l, i)
      BY <1>4, <3>10, <3>17 DEF NumsSame, SameAt
    <3>20. DataSame(Cont(m), Cont(n), l, i)
      <4> SUFFICES ASSUME NEW j \in Idx, j # i, Num(Cont(w), l, j) # 0
                   PROVE  Cont(n)[Num(Cont(w), l, j)] = Cont(w)[Num(Cont(w), l, j)]
        BY <1>4 DEF DataSame
      <4>1. Num(Cont(w), l, j) \in Blocks \ {BITMAP}
        BY <3>6, NumIn, DataIs
      <4>2. Cont(s)[Num(Cont(w), l, j)] = Cont(w)[Num(Cont(w), l, j)]
        BY <3>10 DEF DataSame
      <4> QED BY <3>11, <4>1, <4>2 DEF SameBlocks
    <3>21. Rec(Cont(n), l).ind = Rec(Cont(m), l).ind
      BY <2>1, <3>19, HeldIs DEF NumsSame
    <3> QED BY <3>16, <3>18, <3>19, <3>20, <3>21 DEF Cut
  <2> QED BY <2>4, <2>5
<1> QED BY <1>7, <1>8

\* What a program must have blanked, and what is left while the loop runs.
BlankFrom(c, l, a)     == \A j \in Idx : j >= a /\ Num(c, l, j) # 0 => c[Num(c, l, j)] = Word(0)
Cleared(m, n, l, a, i) ==
  /\ Grows(m, n, l, {l}) /\ Rec(Cont(n), l).ind = Rec(Cont(m), l).ind
  /\ \A j \in Idx : Num(Cont(n), l, j) = IF a <= j /\ j < i THEN 0 ELSE Num(Cont(m), l, j)
  /\ BlankFrom(Cont(n), l, i)

\* One round of the loop of file_truncate.
LEMMA ClearStep ==
  ASSUME NEW m, Good(m, {}), NEW l, Here(m, l), ~IsDir(Cont(m), l), NEW a \in Nat, NEW i \in Nat, a <= i,
         NEW n, Cleared(m, n, l, a, i), NEW n2, n2 = file_clear_block(n, l, i)
  PROVE  Cleared(m, n2, l, a, i + 1)
<1>1. Grows(m, n, l, {l}) /\ Good(n, {}) /\ Here(n, l) /\ ~IsDir(Cont(n), l)
  BY DEF Cleared, Grows, SameRec, IsDir
<1>2. i \in Idx /\ Num(Cont(n), l, i) # 0 => Cont(n)[Num(Cont(n), l, i)] = Word(0)
  BY DEF Cleared, BlankFrom
<1>3. Cut(n, n2, l, i)
  BY ONLY <1>1, <1>2, i \in Nat, n2 = file_clear_block(n, l, i), clear_cuts
<1>4. Grows(m, n2, l, {l})
  <2>1. Grows(n, n2, l, {l})
    BY <1>3 DEF Cut
  <2> QED BY ONLY <1>1, <2>1, Good(m, {}), GrowsTrans
<1>5. Rec(Cont(n2), l).ind = Rec(Cont(m), l).ind
  BY <1>3 DEF Cut, Cleared
<1>6. ASSUME NEW j \in Idx PROVE Num(Cont(n2), l, j) = IF a <= j /\ j < i + 1 THEN 0 ELSE Num(Cont(m), l, j)
  <2>1. j \in Int
    BY DEF Idx
  <2>2. CASE j = i
    BY <1>3, <2>1, <2>2 DEF Cut
  <2>3. CASE j # i
    <3>1. Num(Cont(n2), l, j) = Num(Cont(n), l, j)
      BY <1>3, <2>3, HeldIs DEF Cut, NumsSame
    <3>2. Num(Cont(n), l, j) = IF a <= j /\ j < i THEN 0 ELSE Num(Cont(m), l, j)
      BY DEF Cleared
    <3>3. j < i + 1 <=> j < i
      BY <2>1, <2>3
    <3> QED BY <3>1, <3>2, <3>3
  <2> QED BY <2>2, <2>3
<1>7. BlankFrom(Cont(n2), l, i + 1)
  <2> SUFFICES ASSUME NEW j \in Idx, j >= i + 1, Num(Cont(n2), l, j) # 0
               PROVE  Cont(n2)[Num(Cont(n2), l, j)] = Word(0)
    BY DEF BlankFrom
  <2>1. j # i /\ j >= i
    BY DEF Idx
  <2>2. Num(Cont(n2), l, j) = Num(Cont(n), l, j)
    BY <1>3, <2>1, HeldIs DEF Cut, NumsSame
  <2>3. Cont(n)[Num(Cont(n), l, j)] = Word(0)
    BY <2>1, <2>2 DEF Cleared, BlankFrom
  <2>4. Cont(n2)[Num(Cont(n), l, j)] = Cont(n)[Num(Cont(n), l, j)]
    BY <1>3, <2>1, <2>2 DEF Cut, DataSame
  <2> QED BY <2>2, <2>3, <2>4
<1> QED BY <1>4, <1>5, <1>6, <1>7 DEF Cleared

\* The loop as the function that Loop chooses.
ClearLoop(h, m, l, a, b) == h = [i \in a .. b |-> IF i = a THEN m ELSE file_clear_block(h[i - 1], l, i - 1)]

\* The loop, as a function of the rounds.
LEMMA UnfoldClear ==
  ASSUME NEW m, NEW l, NEW a, NEW b
  PROVE  clear_blocks(m, l, a, b) = IF a < b THEN (CHOOSE h : ClearLoop(h, m, l, a, b))[b] ELSE m
BY DEF clear_blocks, Loop, ClearLoop

\* The loop of file_truncate clears the blocks from a to b.
LEMMA ClearAll ==
  ASSUME NEW m, Good(m, {}), NEW l, Here(m, l), ~IsDir(Cont(m), l), NEW a \in Nat, NEW b \in Nat, a <= b,
         BlankFrom(Cont(m), l, a), NEW n, n = clear_blocks(m, l, a, b)
  PROVE  Cleared(m, n, l, a, b)
<1> DEFINE G  == [i \in a .. b |-> {x \in MemRecs : Cleared(m, x, l, a, i)}]
           op == [y \in MemRecs \X Int |-> file_clear_block(y[1], l, y[2])]
<1>1. Cleared(m, m, l, a, a) /\ m \in MemRecs
  <2>1. m \in MemRecs /\ m.r \in Int
    BY DEF Good, MemRecs
  <2>2. Grows(m, m, l, {l})
    <3>1. Reads(m, m, {}, l)
      BY <2>1, QuietSelf DEF Reads
    <3> QED BY <3>1, ReadsGrows
  <2>3. \A j \in Idx : ~(a <= j /\ j < a)
    BY DEF Idx
  <2> QED BY <2>1, <2>2, <2>3 DEF Cleared
<1>2. m \in G[a]
  BY <1>1
<1>3. ASSUME NEW i \in a .. b - 1, NEW x \in G[i]
      PROVE  op[<<x, i>>] = file_clear_block(x, l, i) /\ file_clear_block(x, l, i) \in G[i + 1]
  <2>1. i \in Nat /\ a <= i /\ i \in a .. b /\ i + 1 \in a .. b
    OBVIOUS
  <2>2. x \in MemRecs /\ Cleared(m, x, l, a, i)
    BY <2>1
  <2>3. Cleared(m, file_clear_block(x, l, i), l, a, i + 1)
    BY ONLY <2>1, <2>2, Good(m, {}), Here(m, l), ~IsDir(Cont(m), l), a \in Nat, ClearStep
  <2>4. file_clear_block(x, l, i) \in MemRecs
    BY <2>3 DEF Cleared, Grows, Good
  <2> QED BY <2>1, <2>2, <2>3, <2>4
<1> HIDE DEF G, op
<1>4. \E h : ClearLoop(h, m, l, a, b)
  <2>1. \A i \in a .. b - 1 : \A x \in G[i] : op[<<x, i>>] \in G[i + 1]
    BY <1>3
  <2>2. PICK f : LoopOf(f, m, op, a, b) /\ \A i \in a .. b : f[i] \in G[i]
    BY ONLY <1>2, <2>1, a \in Nat, b \in Nat, a <= b, LoopKeeps
  <2>3. ASSUME NEW i \in a .. b, i # a PROVE op[<<f[i - 1], i - 1>>] = file_clear_block(f[i - 1], l, i - 1)
    <3>1. i - 1 \in a .. b - 1 /\ i - 1 \in a .. b
      BY <2>3
    <3> QED BY <1>3, <2>2, <3>1
  <2> QED BY <2>2, <2>3 DEF LoopOf, ClearLoop
<1>5. CASE a < b
  <2>1. PICK h : h = CHOOSE g : ClearLoop(g, m, l, a, b)
    OBVIOUS
  <2>2. ClearLoop(h, m, l, a, b)
    BY <1>4, <2>1
  <2>3. n = h[b]
    BY <1>5, <2>1, UnfoldClear
  <2>4. \A i \in a .. b : h[i] = IF i = a THEN m ELSE file_clear_block(h[i - 1], l, i - 1)
    <3> DEFINE F(i) == IF i = a THEN m ELSE file_clear_block(h[i - 1], l, i - 1)
    <3>1. h = [i \in a .. b |-> F(i)]
      BY <2>2 DEF ClearLoop
    <3> HIDE DEF F
    <3>2. \A i \in a .. b : h[i] = F(i)
      BY <3>1
    <3> QED BY <3>2 DEF F
  <2>5. h[a] \in G[a]
    <3>1. a \in a .. b
      OBVIOUS
    <3> QED BY <1>2, <2>4, <3>1
  <2>6. ASSUME NEW i \in a .. b - 1, h[i] \in G[i] PROVE h[i + 1] \in G[i + 1]
    <3>1. i + 1 \in a .. b /\ i + 1 # a /\ (i + 1) - 1 = i
      OBVIOUS
    <3>2. h[i + 1] = file_clear_block(h[i], l, i)
      BY <2>4, <3>1
    <3> QED BY <1>3, <2>6, <3>2
  <2>7. h[b] \in G[b]
    BY ONLY <2>5, <2>6, a \in Nat, b \in Nat, a <= b, LoopEnds
  <2>8. b \in a .. b
    OBVIOUS
  <2> QED BY <2>3, <2>7, <2>8 DEF G
<1>6. CASE ~(a < b)
  <2>1. n = m /\ a = b
    BY <1>6, UnfoldClear
  <2> QED BY <1>1, <2>1
<1> QED BY <1>5, <1>6

\* A struct File gets another size, name or type.
LEMMA SetFileGood ==
  ASSUME NEW m, NEW X, Good(m, X), NEW l, Here(m, l), NEW f, Fits(Cont(m), l, f), NEW m2, m2 = SetFile(m, l, f)
  PROVE  /\ Good(m2, X) /\ Labelled(Cont(m), Cont(m2), l, f) /\ Loads(m, m2) /\ m2.unsaved \subseteq m.unsaved
         /\ m2.loc = m.loc /\ m2.par = m.par /\ m2.r = m.r /\ m2.r \in Int /\ Here(m2, l)
<1>1. f \in FileRecs /\ Sound(Cont(m), X) /\ l \in AllOf(Cont(m)) /\ m \in MemRecs /\ ~m.panic
  BY DEF Fits, Good, Here
<1>2. /\ Cont(m2) = PutRec(Cont(m), l, f) /\ Loads(m, m2) /\ InCache(m2) /\ m2.unsaved \subseteq m.unsaved
      /\ m2.r = m.r /\ m2.loc = m.loc /\ m2.par = m.par
  BY ONLY <1>1, Good(m, X), Here(m, l), m2 = SetFile(m, l, f), SetFileIs
<1>3. Sound(Cont(m2), X) /\ Labelled(Cont(m), Cont(m2), l, f)
  BY ONLY <1>1, <1>2, Fits(Cont(m), l, f), Relabel
<1>4. Good(m2, X)
  BY <1>1, <1>2, <1>3 DEF Good, Loads
<1>5. l[1] \in Blocks
  BY <1>1, AllIn, PlaceOf
<1>6. Here(m2, l)
  BY <1>2, <1>3, <1>5 DEF Here, Loads, Labelled
<1>7. m2.r \in Int
  BY <1>4 DEF Good, MemRecs
<1> QED BY <1>2, <1>3, <1>4, <1>6, <1>7

\* That of a file with a name, which keeps it.
LEMMA SizeGood ==
  ASSUME NEW m, Good(m, {}), NEW l, Here(m, l), HasName(Cont(m), l), NEW f, Fits(Cont(m), l, f),
         f.name = Rec(Cont(m), l).name, f.type = Rec(Cont(m), l).type, NEW E,
         (IsDir(Cont(m), l) /\ f.size >= Rec(Cont(m), l).size) \/ (~IsDir(Cont(m), l) /\ l \in E),
         NEW m2, m2 = SetFile(m, l, f)
  PROVE  /\ Good(m2, {}) /\ Labelled(Cont(m), Cont(m2), l, f) /\ Frame(m, m2, E)
         /\ m2.loc = m.loc /\ m2.par = m.par /\ m2.r = m.r /\ m2.r \in Int /\ Here(m2, l)
<1>1. /\ Good(m2, {}) /\ Labelled(Cont(m), Cont(m2), l, f) /\ Loads(m, m2) /\ m2.unsaved \subseteq m.unsaved
      /\ m2.loc = m.loc /\ m2.par = m.par /\ m2.r = m.r /\ m2.r \in Int /\ Here(m2, l)
  BY ONLY Good(m, {}), Here(m, l), Fits(Cont(m), l, f), m2 = SetFile(m, l, f), SetFileGood
<1>2. Sound(Cont(m), {}) /\ l \in AllOf(Cont(m))
  BY DEF Good, Here
<1>3. Spares(Cont(m), Cont(m2), E)
  BY ONLY <1>1, <1>2, Fits(Cont(m), l, f), HasName(Cont(m), l), f.name = Rec(Cont(m), l).name,
          f.type = Rec(Cont(m), l).type,
          (IsDir(Cont(m), l) /\ f.size >= Rec(Cont(m), l).size) \/ (~IsDir(Cont(m), l) /\ l \in E), RelabelSpares
<1>4. Frame(m, m2, E)
  BY <1>1, <1>3 DEF Frame, Saved
<1> QED BY <1>1, <1>4

\* An index with no numbers is blank.
LEMMA EmptyIndex ==
  ASSUME NEW c, NEW X, Sound(c, X), NEW l \in AllOf(c), Rec(c, l).ind # 0,
         \A j \in Idx : ~(j < NDIRECT) => Num(c, l, j) = 0
  PROVE  c[Rec(c, l).ind] = Word(0)
<1>1. PICK q : q = Rec(c, l).ind
  OBVIOUS
<1>2. PtrBlock(c[q])
  BY <1>1 DEF Sound, Kinds, Kind
<1>3. q \in Blocks
  <2>1. At(c, l, NINDIRECT) = q /\ NINDIRECT \in Held
    BY <1>1, HeldIs
  <2> QED BY <1>1, <2>1, HeldIn, DataIs
<1>4. SUFFICES ASSUME c[q] # Word(0) PROVE FALSE
  BY <1>1
<1>5. c[q].k = "ptr" /\ (\A i \in 0 .. NDIRECT - 1 : c[q].p[i] = 0)
  BY <1>2, <1>4 DEF PtrBlock
<1>6. PICK i \in Idx : c[q].p[i] # 0
  BY <1>2, <1>4 DEF PtrBlock
<1>7. ~(i < NDIRECT)
  BY <1>5, <1>6, Numbers DEF Idx
<1>8. Num(c, l, i) = c[q].p[i]
  BY <1>1, <1>3, <1>5, <1>7 DEF Num, In, AsPtr
<1> QED BY <1>6, <1>7, <1>8

\* What free_indirect leaves of l: the same without its index.
LEMMA free_indirect_Good ==
  ASSUME NEW m, Good(m, {}), NEW l, Here(m, l), ~IsDir(Cont(m), l),
         \A j \in Idx : ~(j < NDIRECT) => Num(Cont(m), l, j) = 0, NEW n, n = free_indirect(m, l)
  PROVE  /\ Grows(m, n, l, {l}) /\ \A j \in Held : At(Cont(n), l, j) = IF j = NINDIRECT THEN 0 ELSE At(Cont(m), l, j)
<1>1. File(m, l) = Rec(Cont(m), l) /\ l \in Locs /\ l[1] \in Blocks /\ l[1] # BITMAP /\ m \in MemRecs
  BY HereFile, PlaceOf DEF Good
<1>2. PICK v : v = Rec(Cont(m), l).ind
  OBVIOUS
<1>3. At(Cont(m), l, NINDIRECT) = v /\ NINDIRECT \in Held
  BY <1>2, HeldIs
<1>4. CASE v = 0
  <2>1. n = m
    BY <1>1, <1>2, <1>4 DEF free_indirect
  <2>2. Reads(m, m, {}, l)
    BY <1>1, QuietSelf DEF Reads, MemRecs
  <2>3. Grows(m, m, l, {l})
    BY <2>2, ReadsGrows
  <2> QED BY <1>3, <1>4, <2>1, <2>3
<1>5. CASE v # 0
  <2>1. v \in Data /\ Cont(m)[v] = Word(0)
    BY <1>2, <1>5, IndexIs, EmptyIndex DEF Here, Good
  <2>2. PICK f : f = [Rec(Cont(m), l) EXCEPT !.ind = 0]
    OBVIOUS
  <2>3. f \in FileRecs
    <3>1. Rec(Cont(m), l) \in FileRecs
      BY <1>1, RecType DEF Good, Sound
    <3> QED BY <2>2, <3>1 DEF FileRecs
  <2>4. PICK x : x = Dir([AsDir(m.cache[l[1]]) EXCEPT ![l[2]] = f])
    OBVIOUS
  <2>5. x \in Contents
    BY ONLY <2>3, <2>4, Good(m, {}), Here(m, l), SlotStored
  <2>6. PICK q : q = l[1]
    OBVIOUS
  <2>7. PICK S : S = Free(m)
    OBVIOUS
  <2>8. S \subseteq Blocks
    BY <2>7, FreeIs, BlockSets
  <2>9. PICK g : g = free_block(m, v)
    OBVIOUS
  <2>10. n = SetMeta(g, q, x)
    <3>1. PICK y : y = Bits(S \cup {v})
      OBVIOUS
    <3>2. /\ g \in MemRecs /\ g.cache = [m.cache EXCEPT ![BITMAP] = y]
          /\ g.unsaved = (m.unsaved \ {BITMAP}) \ {v} /\ g.dirty = m.dirty
          /\ g.panic = m.panic /\ g.mem = m.mem /\ g.r = m.r /\ g.loc = m.loc /\ g.par = m.par
      BY ONLY <1>1, <2>1, <2>7, <2>8, <2>9, <3>1, FreeFields
    <3>3. m.cache \in [Blocks -> Contents \cup {NIL}]
      BY <1>1, MemFields
    <3>4. g.cache[l[1]] = m.cache[l[1]]
      BY <1>1, <3>2, <3>3
    <3>5. n = SetFile(g, l, f)
      BY <1>1, <1>2, <1>5, <2>2, <2>9 DEF free_indirect
    <3> QED BY <2>4, <2>6, <3>4, <3>5 DEF SetFile
  <2>11. q \in Blocks /\ q # BITMAP
    BY <1>1, <2>6
  <2>12. PICK s : s = SetMeta(m, q, x)
    OBVIOUS
  <2>13. n = free_block(s, v)
    BY ONLY <1>1, <2>1, <2>5, <2>7, <2>8, <2>9, <2>10, <2>11, <2>12, FreeCommutes
  <2>14. s = SetFile(m, l, f)
    BY <2>4, <2>6, <2>12 DEF SetFile
  <2>15. /\ Cont(s) = PutRec(Cont(m), l, f) /\ Loads(m, s) /\ InCache(s) /\ s.unsaved \subseteq m.unsaved
         /\ s.r = m.r /\ s.loc = m.loc /\ s.par = m.par
    BY ONLY <2>3, <2>14, Good(m, {}), Here(m, l), SetFileIs
  <2>16. Cont(s) = Put(Cont(m), l, NINDIRECT, 0)
    BY <2>2, <2>15 DEF Put
  <2>17. Replaced(Cont(m), Cont(s), l, NINDIRECT, 0)
    <3>1. Sound(Cont(m), {}) /\ l \in AllOf(Cont(m))
      BY DEF Good, Here
    <3>2. PICK z : z = 0
      OBVIOUS
    <3>3. \/ z \in {} /\ At(Cont(m), l, NINDIRECT) = 0
          \/ z = 0 /\ At(Cont(m), l, NINDIRECT) # 0 /\ Cont(m)[At(Cont(m), l, NINDIRECT)] = Word(0)
      BY <1>3, <1>5, <2>1, <3>2
    <3>4. Cont(s) = Put(Cont(m), l, NINDIRECT, z)
      BY <2>16, <3>2
    <3>5. Replaced(Cont(m), Cont(s), l, NINDIRECT, z)
      BY ONLY <3>1, <3>3, <3>4, PutIndex
    <3> QED BY <3>2, <3>5
  <2>18. PICK X : X = {v}
    OBVIOUS
  <2>19. Loads(m, s) /\ InCache(s) /\ s.unsaved \subseteq m.unsaved
    BY <2>15
  <2>20. v = At(Cont(m), l, NINDIRECT)
    BY <1>3
  <2>21. /\ Good(s, X) /\ Frame(m, s, {l}) /\ Here(s, l) /\ SameRec(Cont(m), Cont(s), l)
         /\ At(Cont(s), l, NINDIRECT) = 0 /\ NumsSame(Cont(m), Cont(s), l, NINDIRECT) /\ DataSame(Cont(m), Cont(s), l, NINDIRECT)
    BY ONLY <1>3, <1>5, <2>1, <2>17, <2>18, <2>19, <2>20, Good(m, {}), Here(m, l), ~IsDir(Cont(m), l), DetachGood
  <2>22. /\ Grows(s, n, l, {l}) /\ SameStruct(Cont(s), Cont(n)) /\ SameBlocks(Cont(s), Cont(n)) /\ n.r = s.r
    BY ONLY <2>13, <2>18, <2>21, FreeCut
  <2>23. Good(n, {}) /\ Frame(s, n, {l}) /\ Here(n, l) /\ SameRec(Cont(s), Cont(n), l) /\ n.loc = s.loc /\ n.par = s.par /\ n.r \in Int
    BY <2>22 DEF Grows
  <2>24. Frame(m, n, {l})
    BY ONLY <2>21, <2>23, Good(m, {}), FrameTrans
  <2>25. SameRec(Cont(m), Cont(n), l)
    BY <2>21, <2>23 DEF SameRec
  <2>26. Grows(m, n, l, {l})
    BY <2>15, <2>23, <2>24, <2>25 DEF Grows
  <2>27. SameAt(Cont(s), Cont(n), l)
    BY <2>21, <2>22 DEF SameStruct, Here
  <2>28. \A j \in Held : At(Cont(n), l, j) = IF j = NINDIRECT THEN 0 ELSE At(Cont(m), l, j)
    BY <2>21, <2>27 DEF NumsSame, SameAt
  <2> QED BY <2>26, <2>28
<1> QED BY <1>4, <1>5

\* The size that a file may get.
SizeFits(c, l, s) == /\ s \in Nat /\ (IsDir(c, l) => Whole(s))
                     /\ \A i \in Held : At(c, l, i) # 0 => IF IsDir(c, l) THEN Low(i) < s \div BY2BLK ELSE Low(i) <= s \div BY2BLK

\* A struct File with a size that leaves room for its blocks fits.
LEMMA FitsSize ==
  ASSUME NEW c, NEW X, Sound(c, X), NEW l \in AllOf(c), HasName(c, l), NEW s, SizeFits(c, l, s),
         NEW f, f = [Rec(c, l) EXCEPT !.size = s]
  PROVE  Fits(c, l, f) /\ f.name = Rec(c, l).name /\ f.type = Rec(c, l).type /\ f.size = s
<1>1. l \in Locs /\ s \in Nat /\ Rec(c, l) \in FileRecs
  BY AllIn, RecType DEF Sound, SizeFits
<1>2. /\ f \in FileRecs /\ f.name = Rec(c, l).name /\ f.type = Rec(c, l).type /\ f.size = s
      /\ f.ptr = Rec(c, l).ptr /\ f.ind = Rec(c, l).ind
  BY <1>1 DEF FileRecs
<1>3. f.type \in {FTYPE_REG, FTYPE_DIR} /\ (f.type = FTYPE_DIR <=> IsDir(c, l))
  BY <1>2 DEF Sound, Kinds, Kind, IsDir
<1>4. l = ROOT => f.type = FTYPE_DIR /\ f.name # ""
  BY <1>2 DEF Sound, Boot, IsDir
<1>5. l # ROOT => f.name \in Names \cup {""}
  BY <1>2 DEF Sound, Named
<1>6. f.name # ""
  BY <1>2 DEF HasName
<1>7. f.type = FTYPE_DIR => Whole(f.size)
  BY <1>2, <1>3 DEF SizeFits
<1>8. \A i \in Held : At(c, l, i) # 0 => IF f.type = FTYPE_DIR THEN Low(i) < f.size \div BY2BLK
                                                               ELSE Low(i) <= f.size \div BY2BLK
  BY <1>2, <1>3 DEF SizeFits
<1> QED BY <1>2, <1>3, <1>4, <1>5, <1>6, <1>7, <1>8 DEF Fits

\* The size of a file is set to one that fits.
Resized(m, m2, l, s, E) ==
  /\ Good(m2, {}) /\ Frame(m, m2, E) /\ Here(m2, l) /\ m2.loc = m.loc /\ m2.par = m.par /\ m2.r \in Int
  /\ HasName(Cont(m2), l) /\ (IsDir(Cont(m2), l) <=> IsDir(Cont(m), l)) /\ Rec(Cont(m2), l).size = s

\* Such a size can be stored.
LEMMA SetSizeGood ==
  ASSUME NEW m, Good(m, {}), NEW l, Here(m, l), HasName(Cont(m), l), NEW s, SizeFits(Cont(m), l, s), NEW E,
         (IsDir(Cont(m), l) /\ s >= Rec(Cont(m), l).size) \/ (~IsDir(Cont(m), l) /\ l \in E),
         NEW m2, m2 = SetSize(m, l, s)
  PROVE  Resized(m, m2, l, s, E) /\ SameAt(Cont(m), Cont(m2), l) /\ m2.r = m.r
<1>1. PICK f : f = [Rec(Cont(m), l) EXCEPT !.size = s]
  OBVIOUS
<1>2. Sound(Cont(m), {}) /\ l \in AllOf(Cont(m))
  BY DEF Good, Here
<1>3. Fits(Cont(m), l, f) /\ f.name = Rec(Cont(m), l).name /\ f.type = Rec(Cont(m), l).type /\ f.size = s
  BY ONLY <1>1, <1>2, HasName(Cont(m), l), SizeFits(Cont(m), l, s), FitsSize
<1>4. m2 = SetFile(m, l, f)
  BY <1>1, HereFile DEF SetSize
<1>5. (IsDir(Cont(m), l) /\ f.size >= Rec(Cont(m), l).size) \/ (~IsDir(Cont(m), l) /\ l \in E)
  BY <1>3
<1>6. /\ Good(m2, {}) /\ Labelled(Cont(m), Cont(m2), l, f) /\ Frame(m, m2, E)
      /\ m2.loc = m.loc /\ m2.par = m.par /\ m2.r = m.r /\ m2.r \in Int /\ Here(m2, l)
  BY ONLY <1>3, <1>4, <1>5, Good(m, {}), Here(m, l), HasName(Cont(m), l), SizeGood
<1>7. Rec(Cont(m2), l) = f /\ SameAt(Cont(m), Cont(m2), l)
  BY <1>2, <1>6 DEF Labelled
<1> QED BY <1>3, <1>6, <1>7 DEF Resized, HasName, IsDir

\* new_nblocks keeps the blocks up to the one of the size.
LEMMA NewBlocks ==
  ASSUME NEW s \in Nat, NEW t \in Nat, s <= t
  PROVE  /\ new_nblocks(s) \in Nat /\ t \div BY2BLK + 1 \in Nat /\ new_nblocks(s) <= t \div BY2BLK + 1
         /\ \A j \in Nat : j < new_nblocks(s) => j <= s \div BY2BLK
         /\ s = 0 => new_nblocks(s) = 0
<1>1. PICK a : a = s \div BY2BLK
  OBVIOUS
<1>2. PICK b : b = t \div BY2BLK
  OBVIOUS
<1>3. a \in Nat /\ b \in Nat
  BY <1>1, <1>2, Numbers, DivType
<1>4. a <= b
  BY <1>1, <1>2, Numbers, DivGrows
<1>5. new_nblocks(s) = IF s = 0 THEN 0 ELSE a + 1
  BY <1>1 DEF new_nblocks
<1> QED BY <1>1, <1>2, <1>3, <1>4, <1>5

\* file_truncate leaves no number behind the new size, and none at all for size 0.
LEMMA file_truncate_Good ==
  ASSUME NEW m, Good(m, {}), NEW l, Here(m, l), HasName(Cont(m), l), ~IsDir(Cont(m), l),
         NEW s \in Nat, s <= Rec(Cont(m), l).size, BlankFrom(Cont(m), l, new_nblocks(s)),
         NEW n, n = file_truncate(m, l, s)
  PROVE  Resized(m, n, l, s, {l}) /\ (s = 0 => Empty(Cont(n), l))
<1>1. File(m, l) = Rec(Cont(m), l) /\ l \in Locs /\ Sound(Cont(m), {}) /\ l \in AllOf(Cont(m))
  BY HereFile DEF Good, Here
<1>2. PICK t : t = Rec(Cont(m), l).size
  OBVIOUS
<1>3. t \in Nat /\ s <= t
  BY <1>1, <1>2, RecType, RecFields DEF Sound
<1>4. PICK a : a = new_nblocks(s)
  OBVIOUS
<1>5. PICK b : b = t \div BY2BLK + 1
  OBVIOUS
<1>6. a \in Nat /\ b \in Nat /\ a <= b /\ (\A j \in Nat : j < a => j <= s \div BY2BLK) /\ (s = 0 => a = 0)
  BY <1>3, <1>4, <1>5, NewBlocks
<1>7. PICK x : x = clear_blocks(m, l, a, b)
  OBVIOUS
<1>8. Cleared(m, x, l, a, b)
  <2>1. BlankFrom(Cont(m), l, a)
    BY <1>4
  <2> QED BY ONLY <1>6, <1>7, <2>1, Good(m, {}), Here(m, l), ~IsDir(Cont(m), l), ClearAll
<1>9. PICK y : y = IF a <= NDIRECT THEN free_indirect(x, l) ELSE x
  OBVIOUS
<1>10. n = SetSize(y, l, s)
  BY <1>1, <1>2, <1>4, <1>5, <1>7, <1>9 DEF file_truncate
<1>11. Grows(m, x, l, {l}) /\ Good(x, {}) /\ Here(x, l) /\ HasName(Cont(x), l) /\ ~IsDir(Cont(x), l)
  BY <1>8 DEF Cleared, Grows, SameRec, HasName, IsDir
<1>12. ASSUME NEW j \in Idx, ~(j < a) PROVE Num(Cont(x), l, j) = 0
  <2>1. j \in Nat /\ j \in Held /\ j # NINDIRECT
    BY HeldIs DEF Idx
  <2>2. CASE j < b
    BY <1>6, <1>8, <1>12, <2>1, <2>2 DEF Cleared
  <2>3. CASE ~(j < b)
    <3>1. PICK d : d = t \div BY2BLK
      OBVIOUS
    <3>2. d \in Nat
      BY <1>3, <3>1, Numbers, DivType
    <3>3. ~(j <= d)
      BY <1>5, <2>1, <2>3, <3>1, <3>2
    <3>4. ~Room(Cont(m), l, j)
      BY <1>2, <2>1, <3>1, <3>3 DEF Room, Low
    <3>5. At(Cont(m), l, j) = 0
      BY <1>1, <2>1, <3>4 DEF Sound, Sized
    <3>6. Num(Cont(m), l, j) = 0
      BY <3>5, HeldIs
    <3> QED BY <1>8, <3>6 DEF Cleared
  <2> QED BY <2>2, <2>3
<1>13. Grows(m, y, l, {l}) /\ \A j \in Held : At(Cont(y), l, j) # 0 => IF j = NINDIRECT THEN NDIRECT < a ELSE j < a
  <2>1. CASE a <= NDIRECT
    <3>1. y = free_indirect(x, l)
      BY <1>9, <2>1
    <3>2. \A j \in Idx : ~(j < NDIRECT) => Num(Cont(x), l, j) = 0
      <4>1. \A j \in Idx : ~(j < NDIRECT) => ~(j < a)
        BY <1>6, <2>1, Numbers DEF Idx
      <4> QED BY <1>12, <4>1
    <3>3. /\ Grows(x, y, l, {l}) /\ \A j \in Held : At(Cont(y), l, j) = IF j = NINDIRECT THEN 0 ELSE At(Cont(x), l, j)
      BY ONLY <1>11, <3>1, <3>2, free_indirect_Good
    <3>4. Grows(m, y, l, {l})
      BY ONLY <1>11, <3>3, Good(m, {}), GrowsTrans
    <3>5. ASSUME NEW j \in Held, At(Cont(y), l, j) # 0 PROVE IF j = NINDIRECT THEN NDIRECT < a ELSE j < a
      <4>1. j # NINDIRECT /\ At(Cont(x), l, j) # 0
        BY <3>3, <3>5
      <4>2. j \in Idx /\ Num(Cont(x), l, j) # 0
        BY <4>1, HeldIs
      <4> QED BY <1>12, <4>1, <4>2
    <3> QED BY <3>4, <3>5
  <2>2. CASE ~(a <= NDIRECT)
    <3>1. y = x /\ NDIRECT < a
      BY <1>6, <1>9, <2>2, Numbers
    <3>2. ASSUME NEW j \in Held, At(Cont(y), l, j) # 0 PROVE IF j = NINDIRECT THEN NDIRECT < a ELSE j < a
      <4>1. CASE j = NINDIRECT
        BY <3>1, <4>1
      <4>2. CASE j # NINDIRECT
        <5>1. j \in Idx /\ Num(Cont(x), l, j) # 0
          BY <3>1, <3>2, <4>2, HeldIs
        <5> QED BY <1>12, <4>2, <5>1
      <4> QED BY <4>1, <4>2
    <3> QED BY <1>11, <3>1, <3>2
  <2> QED BY <2>1, <2>2
<1>14. Good(y, {}) /\ Here(y, l) /\ HasName(Cont(y), l) /\ ~IsDir(Cont(y), l) /\ y.loc = m.loc /\ y.par = m.par /\ Frame(m, y, {l})
  BY <1>13 DEF Grows, SameRec, HasName, IsDir
<1>15. SizeFits(Cont(y), l, s)
  <2>1. ASSUME NEW j \in Held, At(Cont(y), l, j) # 0 PROVE Low(j) <= s \div BY2BLK
    <3>1. Low(j) \in Nat /\ Low(j) < a
      BY <1>13, <2>1, Numbers DEF Low, Held
    <3> QED BY <1>6, <3>1
  <2> QED BY <1>14, <2>1 DEF SizeFits
<1>16. Resized(y, n, l, s, {l}) /\ SameAt(Cont(y), Cont(n), l)
  <2>1. (IsDir(Cont(y), l) /\ s >= Rec(Cont(y), l).size) \/ (~IsDir(Cont(y), l) /\ l \in {l})
    BY <1>14
  <2> QED BY ONLY <1>10, <1>14, <1>15, <2>1, SetSizeGood
<1>17. Frame(m, n, {l})
  <2>1. Good(n, {}) /\ Frame(y, n, {l})
    BY <1>16 DEF Resized
  <2> QED BY ONLY <1>14, <2>1, Good(m, {}), FrameTrans
<1>18. Resized(m, n, l, s, {l})
  BY <1>14, <1>16, <1>17 DEF Resized
<1>19. ASSUME s = 0 PROVE Empty(Cont(n), l)
  <2>1. a = 0
    BY <1>6, <1>19
  <2>2. ASSUME NEW j \in Held PROVE At(Cont(y), l, j) = 0
    <3>1. ~(IF j = NINDIRECT THEN NDIRECT < a ELSE j < a)
      BY <2>1, Numbers DEF Held
    <3> QED BY <1>13, <3>1
  <2> QED BY <1>16, <1>19, <2>2 DEF Empty, Resized, SameAt
<1> QED BY <1>18, <1>19

-----------------------------------------------------------------------------
(***************************************************************************)
(* Writing blocks to disk.                                                 *)
(***************************************************************************)
\* What a call leaves that only reads and writes to disk.
Calm(m, m2) == Quiet(m, m2) /\ Good(m2, {}) /\ m2.loc = m.loc /\ m2.par = m.par /\ m2.r \in Int

\* Calm calls are calm one after the other.
LEMMA CalmTrans ==
  ASSUME NEW m, NEW m2, Calm(m, m2), NEW m3, Calm(m2, m3)
  PROVE  Calm(m, m3)
BY QuietTrans DEF Calm

\* No call is a calm one.
LEMMA CalmSelf ==
  ASSUME NEW m, Good(m, {})
  PROVE  Calm(m, m)
BY QuietSelf DEF Calm, Good, MemRecs

\* write_block is calm and writes the block.
LEMMA WriteCalm ==
  ASSUME NEW m, Good(m, {}), NEW b, NEW m2, m2 = write_block(m, b)
  PROVE  Calm(m, m2) /\ m2.unsaved = m.unsaved \ {b} /\ m2.dirty = m.dirty /\ m2.r = m.r
<1>1. m \in MemRecs /\ m.r \in Int
  BY DEF Good, MemRecs
<1>2. /\ m2 \in MemRecs /\ m2.cache = m.cache /\ m2.unsaved = m.unsaved \ {b} /\ m2.dirty = m.dirty /\ m2.panic = m.panic
      /\ m2.r = m.r /\ m2.loc = m.loc /\ m2.par = m.par
  BY <1>1 DEF write_block, MemRecs
<1>3. Cont(m2) = Cont(m) /\ \A x : Mapped(m2, x) <=> Mapped(m, x)
  BY <1>2 DEF Cont, Mapped
<1>4. Quiet(m, m2)
  BY <1>2, <1>3 DEF Good, InCache, Quiet, Loads
<1>5. Good(m2, {})
  BY <1>4, QuietGood
<1> QED BY <1>1, <1>2, <1>4, <1>5 DEF Calm

\* One round of flush_to.
FlushOne(n, l, i) == Then(file_map_block(n, l, i, FALSE), LAMBDA a : IF block_is_dirty(a, a.r) THEN write_block(a, a.r) ELSE a)

Flushed(m, n, l, i) == /\ Calm(m, n)
                       /\ \A j \in Idx : j < i /\ Num(Cont(m), l, j) \in m.dirty => Num(Cont(m), l, j) \notin n.unsaved

\* One round of file_flush.
LEMMA FlushStep ==
  ASSUME NEW m, NEW l, Here(m, l), NEW i \in Nat, NEW n, Flushed(m, n, l, i), NEW n2, n2 = FlushOne(n, l, i)
  PROVE  Flushed(m, n2, l, i + 1)
<1>1. PICK a : a = file_map_block(n, l, i, FALSE)
  OBVIOUS
<1>2. Good(n, {}) /\ Here(n, l) /\ Cont(n) = Cont(m) /\ m.dirty \subseteq n.dirty
  BY QuietHere DEF Flushed, Calm, Quiet, Loads
<1>3. /\ Reads(n, a, {}, l)
      /\ IF a.r < 0 THEN i \in Idx => Num(Cont(n), l, i) = 0
                    ELSE i \in Idx /\ a.r = Num(Cont(n), l, i) /\ a.r # 0 /\ a.r \in Data
  BY ONLY <1>1, <1>2, i \in Nat, map_reads
<1>4. n2 = IF a.r < 0 THEN a ELSE IF a.r \in a.dirty THEN write_block(a, a.r) ELSE a
  BY <1>1 DEF FlushOne, Then, block_is_dirty
<1>5. Calm(n, a) /\ n.dirty \subseteq a.dirty /\ Good(a, {})
  BY <1>3 DEF Reads, Calm, Quiet, Loads
<1>6. Calm(a, n2) /\ n2.unsaved \subseteq a.unsaved /\ (~(a.r < 0) /\ a.r \in a.dirty => a.r \notin n2.unsaved)
  <2>1. CASE ~(a.r < 0) /\ a.r \in a.dirty
    <3>1. PICK b : b = a.r
      OBVIOUS
    <3>2. n2 = write_block(a, b)
      BY <1>4, <2>1, <3>1
    <3>3. Calm(a, n2) /\ n2.unsaved = a.unsaved \ {b}
      BY ONLY <1>5, <3>2, WriteCalm
    <3> QED BY <3>1, <3>3
  <2>2. CASE ~(~(a.r < 0) /\ a.r \in a.dirty)
    <3>1. n2 = a
      BY <1>4, <2>2
    <3> QED BY <1>5, <2>2, <3>1, CalmSelf
  <2> QED BY <2>1, <2>2
<1>7. Calm(m, n2)
  <2>1. Calm(m, n)
    BY DEF Flushed
  <2>2. Calm(m, a)
    BY ONLY <1>5, <2>1, CalmTrans
  <2> QED BY ONLY <1>6, <2>2, CalmTrans
<1>8. ASSUME NEW j \in Idx, j < i + 1, Num(Cont(m), l, j) \in m.dirty PROVE Num(Cont(m), l, j) \notin n2.unsaved
  <2>1. n2.unsaved \subseteq n.unsaved /\ m.dirty \subseteq Blocks
    BY <1>5, <1>6, <1>2 DEF Calm, Quiet, Flushed, Loads, MemRecs
  <2>2. CASE j < i
    BY <1>8, <2>1, <2>2 DEF Flushed
  <2>3. CASE j = i
    <3>1. n2.unsaved \subseteq Blocks
      BY <1>7 DEF Calm, Good, MemRecs
    <3>2. CASE a.r < 0
      <4>1. Num(Cont(m), l, j) = 0
        BY <1>2, <1>3, <2>3, <3>2
      <4> QED BY <3>1, <4>1, BlockSets
    <3>3. CASE ~(a.r < 0)
      <4>1. a.r = Num(Cont(m), l, j)
        BY <1>2, <1>3, <2>3, <3>3
      <4>2. a.r \in a.dirty
        BY <1>2, <1>5, <1>8, <4>1
      <4> QED BY <1>6, <3>3, <4>1, <4>2
    <3> QED BY <3>2, <3>3
  <2>4. j < i \/ j = i
    BY <1>8 DEF Idx
  <2> QED BY <2>2, <2>3, <2>4
<1> QED BY <1>7, <1>8 DEF Flushed

FlushLoop(h, m, l, b) == h = [i \in 0 .. b |-> IF i = 0 THEN m ELSE FlushOne(h[i - 1], l, i - 1)]

\* The loop of file_flush, as a function of the rounds.
LEMMA UnfoldFlush ==
  ASSUME NEW m, NEW l, NEW b
  PROVE  flush_to(m, l, b) = IF 0 < b THEN (CHOOSE h : FlushLoop(h, m, l, b))[b] ELSE m
BY DEF flush_to, Loop, FlushLoop, FlushOne

\* The loop of file_flush writes what is dirty of the first blocks.
LEMMA FlushAll ==
  ASSUME NEW m, Good(m, {}), NEW l, Here(m, l), NEW b \in Nat, NEW n, n = flush_to(m, l, b)
  PROVE  Flushed(m, n, l, b)
<1> DEFINE G  == [i \in 0 .. b |-> {x \in MemRecs : Flushed(m, x, l, i)}]
           op == [y \in MemRecs \X Int |-> FlushOne(y[1], l, y[2])]
<1>1. Flushed(m, m, l, 0) /\ m \in MemRecs
  <2>1. \A j \in Idx : ~(j < 0)
    BY DEF Idx
  <2> QED BY <2>1, CalmSelf DEF Flushed, Good
<1>2. m \in G[0]
  BY <1>1
<1>3. ASSUME NEW i \in 0 .. b - 1, NEW x \in G[i]
      PROVE  op[<<x, i>>] = FlushOne(x, l, i) /\ FlushOne(x, l, i) \in G[i + 1]
  <2>1. i \in Nat /\ i \in 0 .. b /\ i + 1 \in 0 .. b
    OBVIOUS
  <2>2. x \in MemRecs /\ Flushed(m, x, l, i)
    BY <2>1
  <2>3. Flushed(m, FlushOne(x, l, i), l, i + 1)
    BY ONLY <2>1, <2>2, Here(m, l), FlushStep
  <2>4. FlushOne(x, l, i) \in MemRecs
    BY <2>3 DEF Flushed, Calm, Good
  <2> QED BY <2>1, <2>2, <2>3, <2>4
<1> HIDE DEF G, op
<1>4. 0 \in Nat /\ 0 <= b
  OBVIOUS
<1>5. \E h : FlushLoop(h, m, l, b)
  <2>1. \A i \in 0 .. b - 1 : \A x \in G[i] : op[<<x, i>>] \in G[i + 1]
    BY <1>3
  <2>2. PICK f : LoopOf(f, m, op, 0, b) /\ \A i \in 0 .. b : f[i] \in G[i]
    BY ONLY <1>2, <1>4, <2>1, b \in Nat, LoopKeeps
  <2>3. ASSUME NEW i \in 0 .. b, i # 0 PROVE op[<<f[i - 1], i - 1>>] = FlushOne(f[i - 1], l, i - 1)
    <3>1. i - 1 \in 0 .. b - 1 /\ i - 1 \in 0 .. b
      BY <2>3
    <3> QED BY <1>3, <2>2, <3>1
  <2> QED BY <2>2, <2>3 DEF LoopOf, FlushLoop
<1>6. CASE 0 < b
  <2>1. PICK h : h = CHOOSE g : FlushLoop(g, m, l, b)
    OBVIOUS
  <2>2. FlushLoop(h, m, l, b)
    BY <1>5, <2>1
  <2>3. n = h[b]
    BY <1>6, <2>1, UnfoldFlush
  <2>4. \A i \in 0 .. b : h[i] = IF i = 0 THEN m ELSE FlushOne(h[i - 1], l, i - 1)
    <3> DEFINE F(i) == IF i = 0 THEN m ELSE FlushOne(h[i - 1], l, i - 1)
    <3>1. h = [i \in 0 .. b |-> F(i)]
      BY <2>2 DEF FlushLoop
    <3> HIDE DEF F
    <3>2. \A i \in 0 .. b : h[i] = F(i)
      BY <3>1
    <3> QED BY <3>2 DEF F
  <2>5. h[0] \in G[0]
    <3>1. 0 \in 0 .. b
      OBVIOUS
    <3> QED BY <1>2, <2>4, <3>1
  <2>6. ASSUME NEW i \in 0 .. b - 1, h[i] \in G[i] PROVE h[i + 1] \in G[i + 1]
    <3>1. i + 1 \in 0 .. b /\ i + 1 # 0 /\ (i + 1) - 1 = i
      OBVIOUS
    <3>2. h[i + 1] = FlushOne(h[i], l, i)
      BY <2>4, <3>1
    <3> QED BY <1>3, <2>6, <3>2
  <2>7. h[b] \in G[b]
    BY ONLY <1>4, <2>5, <2>6, b \in Nat, LoopEnds
  <2>8. b \in 0 .. b
    OBVIOUS
  <2> QED BY <2>3, <2>7, <2>8 DEF G
<1>7. CASE ~(0 < b)
  <2>1. n = m /\ b = 0
    BY <1>7, UnfoldFlush
  <2> QED BY <1>1, <2>1
<1> QED BY <1>6, <1>7

\* Block j of l is one within its size.
Inside(c, l, j) == j * BY2BLK < Rec(c, l).size

\* file_flush writes every dirty block within the size of the file.
LEMMA file_flush_Calm ==
  ASSUME NEW m, Good(m, {}), NEW l, Here(m, l), NEW n, n = file_flush(m, l)
  PROVE  /\ Calm(m, n)
         /\ \A j \in Idx : Inside(Cont(m), l, j) /\ Num(Cont(m), l, j) \in m.dirty => Num(Cont(m), l, j) \notin n.unsaved
<1>1. File(m, l) = Rec(Cont(m), l) /\ l \in Locs
  BY HereFile
<1>2. PICK s : s = Rec(Cont(m), l).size
  OBVIOUS
<1>3. s \in Nat
  BY <1>1, <1>2, RecType, RecFields DEF Good, Sound
<1>4. PICK d : d = s \div BY2BLK
  OBVIOUS
<1>5. d \in Nat /\ d + 1 \in Nat
  BY <1>3, <1>4, Numbers, DivType
<1>6. n = flush_to(m, l, d + 1)
  BY <1>1, <1>2, <1>4 DEF file_flush
<1>7. Flushed(m, n, l, d + 1)
  BY ONLY <1>5, <1>6, Good(m, {}), Here(m, l), FlushAll
<1>8. ASSUME NEW j \in Idx, Inside(Cont(m), l, j) PROVE j < d + 1
  <2>1. j \in Nat /\ j * BY2BLK < s
    BY <1>2, <1>8 DEF Inside, Idx
  <2>2. j <= d
    BY <1>3, <1>4, <2>1, Numbers, InLast
  <2> QED BY <1>5, <2>1, <2>2
<1> QED BY <1>7, <1>8 DEF Flushed

\* So does that of the directory, if there is one.
LEMMA flush_dir_Calm ==
  ASSUME NEW m, Good(m, {}), NEW d, d = NIL \/ Here(m, d), NEW n, n = flush_dir(m, d)
  PROVE  Calm(m, n)
<1>1. CASE d = NIL
  BY <1>1, CalmSelf DEF flush_dir
<1>2. CASE d # NIL
  BY <1>2, file_flush_Calm DEF flush_dir
<1> QED BY <1>1, <1>2

\* file_close writes every dirty block of the file.
LEMMA file_close_Calm ==
  ASSUME NEW m, Good(m, {}), NEW l, Here(m, l), NEW d, d = NIL \/ Here(m, d), NEW n, n = file_close(m, l, d)
  PROVE  /\ Calm(m, n)
         /\ \A j \in Idx : Inside(Cont(m), l, j) /\ Num(Cont(m), l, j) \in m.dirty => Num(Cont(m), l, j) \notin n.unsaved
<1>1. PICK a : a = file_flush(m, l)
  OBVIOUS
<1>2. /\ Calm(m, a)
      /\ \A j \in Idx : Inside(Cont(m), l, j) /\ Num(Cont(m), l, j) \in m.dirty => Num(Cont(m), l, j) \notin a.unsaved
  BY ONLY <1>1, Good(m, {}), Here(m, l), file_flush_Calm
<1>3. n = flush_dir(a, d)
  BY <1>1 DEF file_close
<1>4. Good(a, {}) /\ (d = NIL \/ Here(a, d))
  BY <1>2, QuietHere DEF Calm
<1>5. Calm(a, n)
  BY ONLY <1>3, <1>4, flush_dir_Calm
<1>6. Calm(m, n)
  BY ONLY <1>2, <1>5, CalmTrans
<1> QED BY <1>2, <1>5, <1>6 DEF Calm, Quiet

\* file_dirty marks the block if it is not on disk.
LEMMA file_dirty_Calm ==
  ASSUME NEW m, Good(m, {}), NEW l, Here(m, l), NEW i \in Nat, NEW n, n = file_dirty(m, l, i)
  PROVE  /\ Calm(m, n)
         /\ i \in Idx /\ Num(Cont(m), l, i) \in m.unsaved => Num(Cont(m), l, i) \in n.dirty
<1>1. PICK a : a = file_map_block(m, l, i, FALSE)
  OBVIOUS
<1>2. /\ Reads(m, a, {}, l)
      /\ IF a.r < 0 THEN i \in Idx => Num(Cont(m), l, i) = 0
                    ELSE i \in Idx /\ a.r = Num(Cont(m), l, i) /\ a.r # 0 /\ a.r \in Data
  BY ONLY <1>1, Good(m, {}), Here(m, l), i \in Nat, map_reads
<1>3. n = IF a.r < 0 THEN a ELSE IF a.r \in Blocks /\ Mapped(a, a.r) THEN [a EXCEPT !.dirty = @ \cup {a.r}] ELSE a
  BY <1>1 DEF file_dirty, Then, block_is_mapped, Mapped
<1>4. Calm(m, a) /\ Good(a, {}) /\ a \in MemRecs /\ InCache(m) /\ m.unsaved \subseteq Blocks
  BY <1>2 DEF Reads, Calm, Good, MemRecs
<1>5. CASE a.r < 0
  <2>1. n = a
    BY <1>3, <1>5
  <2>2. i \in Idx => Num(Cont(m), l, i) \notin m.unsaved
    BY <1>2, <1>4, <1>5, BlockSets
  <2> QED BY <1>4, <2>1, <2>2
<1>6. CASE ~(a.r < 0)
  <2>1. PICK b : b = a.r
    OBVIOUS
  <2>2. b = Num(Cont(m), l, i) /\ b \in Data /\ b \in Blocks
    BY <1>2, <1>6, <2>1, DataIs
  <2>3. b \in m.unsaved => Mapped(a, b)
    BY <1>4, <2>2 DEF InCache, Calm, Quiet, Loads
  <2>4. CASE Mapped(a, b)
    <3>1. n = [a EXCEPT !.dirty = @ \cup {b}]
      BY <1>3, <1>6, <2>1, <2>2, <2>4
    <3>2. /\ n \in MemRecs /\ n.cache = a.cache /\ n.unsaved = a.unsaved /\ n.dirty = a.dirty \cup {b} /\ n.panic = a.panic
          /\ n.loc = a.loc /\ n.par = a.par /\ n.r = a.r /\ n.r \in Int
      BY <1>4, <2>2, <3>1 DEF MemRecs
    <3>3. Cont(n) = Cont(a) /\ \A x : Mapped(n, x) <=> Mapped(a, x)
      BY <3>2 DEF Cont, Mapped
    <3>4. Quiet(a, n)
      BY <1>4, <2>4, <3>2, <3>3 DEF Good, InCache, Quiet, Loads
    <3>5. Calm(a, n)
      BY <1>4, <3>2, <3>4, QuietGood DEF Calm
    <3>6. Calm(m, n)
      BY ONLY <1>4, <3>5, CalmTrans
    <3> QED BY <2>2, <3>2, <3>6
  <2>5. CASE ~Mapped(a, b)
    <3>1. n = a
      BY <1>3, <1>6, <2>1, <2>5
    <3> QED BY <1>4, <2>2, <2>3, <2>5, <3>1
  <2> QED BY <2>4, <2>5
<1> QED BY <1>5, <1>6

\* One round of fs_sync.
SyncOne(n, b)      == IF block_is_dirty(n, b) THEN write_block(n, b) ELSE n
SyncLoop(h, m, b)  == h = [i \in 1 .. b |-> IF i = 1 THEN m ELSE SyncOne(h[i - 1], i - 1)]

\* The loop of fs_sync, as a function of the rounds.
LEMMA UnfoldSync ==
  ASSUME NEW m
  PROVE  fs_sync(m) = IF 1 < NBLOCKS THEN (CHOOSE h : SyncLoop(h, m, NBLOCKS))[NBLOCKS] ELSE m
BY DEF fs_sync, Loop, SyncLoop, SyncOne

\* One round of fs_sync.
LEMMA SyncStep ==
  ASSUME NEW m, NEW n, Calm(m, n), NEW b, NEW n2, n2 = SyncOne(n, b)
  PROVE  Calm(m, n2)
<1>1. CASE block_is_dirty(n, b)
  <2>1. Calm(n, n2)
    BY <1>1, WriteCalm DEF SyncOne, Calm
  <2> QED BY <2>1, CalmTrans
<1>2. CASE ~block_is_dirty(n, b)
  BY <1>2 DEF SyncOne
<1> QED BY <1>1, <1>2

\* fs_sync only writes.
LEMMA fs_sync_Calm ==
  ASSUME NEW m, Good(m, {}), NEW n, n = fs_sync(m)
  PROVE  Calm(m, n)
<1> DEFINE b  == NBLOCKS
           G  == [i \in 1 .. b |-> {x \in MemRecs : Calm(m, x)}]
           op == [y \in MemRecs \X Int |-> SyncOne(y[1], y[2])]
<1>1. b \in Nat /\ 1 \in Nat /\ 1 < b /\ 1 <= b
  BY Numbers
<1>2. Calm(m, m) /\ m \in MemRecs
  BY CalmSelf DEF Good
<1> HIDE DEF b
<1>3. m \in G[1]
  BY <1>1, <1>2
<1>4. ASSUME NEW i \in 1 .. b - 1, NEW x \in G[i]
      PROVE  op[<<x, i>>] = SyncOne(x, i) /\ SyncOne(x, i) \in G[i + 1]
  <2>1. i \in Nat /\ i \in 1 .. b /\ i + 1 \in 1 .. b
    BY <1>1
  <2>2. x \in MemRecs /\ Calm(m, x)
    BY <2>1
  <2>3. Calm(m, SyncOne(x, i))
    BY ONLY <2>2, SyncStep
  <2>4. SyncOne(x, i) \in MemRecs
    BY <2>3 DEF Calm, Good
  <2> QED BY <2>1, <2>2, <2>3, <2>4
<1> HIDE DEF G, op
<1>5. \E h : SyncLoop(h, m, b)
  <2>1. \A i \in 1 .. b - 1 : \A x \in G[i] : op[<<x, i>>] \in G[i + 1]
    BY <1>4
  <2>2. PICK f : LoopOf(f, m, op, 1, b) /\ \A i \in 1 .. b : f[i] \in G[i]
    BY ONLY <1>1, <1>3, <2>1, LoopKeeps
  <2>3. ASSUME NEW i \in 1 .. b, i # 1 PROVE op[<<f[i - 1], i - 1>>] = SyncOne(f[i - 1], i - 1)
    <3>1. i - 1 \in 1 .. b - 1 /\ i - 1 \in 1 .. b
      BY <1>1, <2>3
    <3> QED BY <1>4, <2>2, <3>1
  <2> DEFINE A(i) == IF i = 1 THEN m ELSE op[<<f[i - 1], i - 1>>]
             B(i) == IF i = 1 THEN m ELSE SyncOne(f[i - 1], i - 1)
  <2>4. \A i \in 1 .. b : A(i) = B(i)
    BY <2>3
  <2>5. f = [i \in 1 .. b |-> A(i)]
    BY <2>2 DEF LoopOf
  <2> HIDE DEF A, B
  <2>6. f = [i \in 1 .. b |-> B(i)]
    BY <2>4, <2>5
  <2>7. SyncLoop(f, m, b)
    BY <2>6 DEF B, SyncLoop
  <2> QED BY <2>7
<1>6. PICK h : h = CHOOSE g : SyncLoop(g, m, b)
  OBVIOUS
<1>7. SyncLoop(h, m, b)
  BY <1>5, <1>6
<1>8. n = h[b]
  BY <1>1, <1>6, UnfoldSync DEF b
<1>9. \A i \in 1 .. b : h[i] = IF i = 1 THEN m ELSE SyncOne(h[i - 1], i - 1)
  <2> DEFINE F(i) == IF i = 1 THEN m ELSE SyncOne(h[i - 1], i - 1)
  <2>1. h = [i \in 1 .. b |-> F(i)]
    BY <1>7 DEF SyncLoop
  <2> HIDE DEF F
  <2>2. \A i \in 1 .. b : h[i] = F(i)
    BY <2>1
  <2> QED BY <2>2 DEF F
<1>10. h[1] \in G[1]
  <2>1. 1 \in 1 .. b
    BY <1>1
  <2> QED BY <1>3, <1>9, <2>1
<1>11. ASSUME NEW i \in 1 .. b - 1, h[i] \in G[i] PROVE h[i + 1] \in G[i + 1]
  <2>1. i + 1 \in 1 .. b /\ i + 1 # 1 /\ (i + 1) - 1 = i
    BY <1>1
  <2>2. h[i + 1] = SyncOne(h[i], i)
    BY <1>9, <2>1
  <2> QED BY <1>4, <1>11, <2>2
<1>12. h[b] \in G[b]
  BY ONLY <1>1, <1>10, <1>11, LoopEnds
<1>13. b \in 1 .. b
  BY <1>1
<1> QED BY <1>8, <1>12, <1>13 DEF G

-----------------------------------------------------------------------------
(***************************************************************************)
(* The size of a file is set.                                              *)
(***************************************************************************)
\* A file's own size fits, and so does any larger one.
LEMMA LargerFits ==
  ASSUME NEW c, NEW X, Sound(c, X), NEW l \in AllOf(c), NEW s \in Nat, Rec(c, l).size <= s, IsDir(c, l) => Whole(s)
  PROVE  SizeFits(c, l, s)
<1>1. PICK t : t = Rec(c, l).size
  OBVIOUS
<1>2. t \in Nat /\ t <= s
  BY <1>1, AllIn, RecType, RecFields DEF Sound
<1>3. PICK a : a = t \div BY2BLK
  OBVIOUS
<1>4. PICK b : b = s \div BY2BLK
  OBVIOUS
<1>5. a \in Nat /\ b \in Nat /\ a <= b
  BY <1>2, <1>3, <1>4, Numbers, DivType, DivGrows
<1>6. ASSUME NEW i \in Held, At(c, l, i) # 0 PROVE IF IsDir(c, l) THEN Low(i) < b ELSE Low(i) <= b
  <2>1. Room(c, l, i)
    BY <1>6 DEF Sound, Sized
  <2>2. IF IsDir(c, l) THEN Low(i) < a ELSE Low(i) <= a
    BY <1>1, <1>3, <2>1 DEF Room
  <2>3. Low(i) \in Int
    BY Numbers DEF Low, Held
  <2> QED BY <1>5, <2>2, <2>3
<1> QED BY <1>4, <1>6 DEF SizeFits

\* The file itself and its directory are all that may change.
LEMMA file_set_size_Good ==
  ASSUME NEW m, Good(m, {}), NEW l, Here(m, l), HasName(Cont(m), l), ~IsDir(Cont(m), l), NEW d, d = NIL \/ Here(m, d),
         NEW s \in Nat, s < Rec(Cont(m), l).size => BlankFrom(Cont(m), l, new_nblocks(s)),
         NEW n, n = file_set_size(m, l, d, s)
  PROVE  Good(n, {}) /\ Frame(m, n, {l})
<1>1. File(m, l) = Rec(Cont(m), l) /\ l \in Locs /\ Sound(Cont(m), {}) /\ l \in AllOf(Cont(m)) /\ m \in MemRecs
  BY HereFile DEF Good, Here
<1>2. PICK t : t = Rec(Cont(m), l).size
  OBVIOUS
<1>3. t \in Nat
  BY <1>1, <1>2, RecType, RecFields DEF Sound
<1>4. PICK x : x = IF t > s THEN file_truncate(m, l, s) ELSE m
  OBVIOUS
<1>5. PICK y : y = SetSize(x, l, s)
  OBVIOUS
<1>6. PICK z : z = flush_dir(y, d)
  OBVIOUS
<1>7. n = Return(z, 0)
  BY <1>1, <1>2, <1>4, <1>5, <1>6 DEF file_set_size
<1>8. /\ Good(x, {}) /\ Frame(m, x, {l}) /\ Here(x, l) /\ HasName(Cont(x), l) /\ ~IsDir(Cont(x), l)
      /\ Rec(Cont(x), l).size <= s
  <2>1. CASE t > s
    <3>1. s <= Rec(Cont(m), l).size /\ s < Rec(Cont(m), l).size
      BY <1>2, <1>3, <2>1
    <3>2. x = file_truncate(m, l, s)
      BY <1>4, <2>1
    <3>3. BlankFrom(Cont(m), l, new_nblocks(s))
      BY <3>1
    <3>4. Resized(m, x, l, s, {l}) /\ (s = 0 => Empty(Cont(x), l))
      BY ONLY <3>1, <3>2, <3>3, Good(m, {}), Here(m, l), HasName(Cont(m), l), ~IsDir(Cont(m), l), s \in Nat,
              file_truncate_Good
    <3> QED BY <3>4 DEF Resized
  <2>2. CASE ~(t > s)
    <3>1. x = m /\ t <= s
      BY <1>3, <1>4, <2>2
    <3>2. Frame(m, m, {l})
      BY QuietSelf, QuietFrame
    <3> QED BY <1>2, <3>1, <3>2
  <2> QED BY <2>1, <2>2
<1>9. SizeFits(Cont(x), l, s)
  <2>1. Sound(Cont(x), {}) /\ l \in AllOf(Cont(x))
    BY <1>8 DEF Good, Here
  <2> QED BY <1>8, <2>1, LargerFits
<1>10. Resized(x, y, l, s, {l})
  <2>1. (IsDir(Cont(x), l) /\ s >= Rec(Cont(x), l).size) \/ (~IsDir(Cont(x), l) /\ l \in {l})
    BY <1>8
  <2>2. Resized(x, y, l, s, {l}) /\ SameAt(Cont(x), Cont(y), l) /\ y.r = x.r
    BY ONLY <1>5, <1>8, <1>9, <2>1, SetSizeGood
  <2> QED BY <2>2
<1>11. Good(y, {}) /\ Frame(x, y, {l})
  BY <1>10 DEF Resized
<1>12. Frame(m, y, {l})
  BY ONLY <1>8, <1>11, Good(m, {}), FrameTrans
<1>13. d = NIL \/ Here(y, d)
  BY <1>12, HereKept
<1>14. Calm(y, z)
  BY ONLY <1>6, <1>11, <1>13, flush_dir_Calm
<1>15. Good(n, {}) /\ Quiet(z, n)
  <2>1. Good(z, {}) /\ 0 \in Int
    BY <1>14 DEF Calm
  <2>2. PICK r \in Int : r = 0
    OBVIOUS
  <2>3. n = Return(z, r)
    BY <1>7, <2>2
  <2> QED BY <2>1, <2>3, ReturnGood
<1>16. Quiet(y, n)
  BY <1>14, <1>15, QuietTrans DEF Calm
<1>17. Frame(y, n, {l})
  BY <1>11, <1>16, QuietFrame
<1>18. Frame(m, n, {l})
  BY ONLY <1>11, <1>12, <1>15, <1>17, Good(m, {}), FrameTrans
<1> QED BY <1>15, <1>18

-----------------------------------------------------------------------------
(***************************************************************************)
(* Searching a directory.                                                  *)
(***************************************************************************)
\* A call has found a file of this name, or fails.
Finds(n, name) == n.r < 0 \/ (n.r = 0 /\ Here(n, n.loc) /\ n.loc # ROOT /\ Rec(Cont(n), n.loc).name = name)

\* What the search of directory d leaves.
Scans(m, n, d, name) == /\ Good(n, {}) /\ Frame(m, n, {}) /\ Here(n, d) /\ SameRec(Cont(m), Cont(n), d)
                        /\ n.par = m.par /\ n.r \in Int /\ Finds(n, name)

\* The place of a file is returned.
LEMMA Placed ==
  ASSUME NEW m, Good(m, {}), NEW x \in Locs, NEW n, n = Return([m EXCEPT !.loc = x], 0)
  PROVE  Good(n, {}) /\ Quiet(m, n) /\ n.loc = x /\ n.par = m.par /\ n.r = 0 /\ Cont(n) = Cont(m)
         /\ \A b : Mapped(n, b) <=> Mapped(m, b)
<1>1. m \in MemRecs
  BY DEF Good
<1>2. /\ n \in MemRecs /\ n.cache = m.cache /\ n.unsaved = m.unsaved /\ n.dirty = m.dirty /\ n.panic = m.panic
      /\ n.loc = x /\ n.par = m.par /\ n.r = 0
  <2>1. PICK y : y = [m EXCEPT !.loc = x]
    OBVIOUS
  <2>2. /\ y \in MemRecs /\ y.cache = m.cache /\ y.unsaved = m.unsaved /\ y.dirty = m.dirty /\ y.panic = m.panic
        /\ y.loc = x /\ y.par = m.par
    BY <1>1, <2>1 DEF MemRecs
  <2>3. PICK r \in Int : r = 0
    OBVIOUS
  <2>4. n = Return(y, r)
    BY <2>1, <2>3
  <2>5. /\ n \in MemRecs /\ n.r = r /\ n.cache = y.cache /\ n.unsaved = y.unsaved /\ n.dirty = y.dirty
        /\ n.panic = y.panic /\ n.loc = y.loc /\ n.par = y.par
    BY <2>2, <2>4, ReturnIs
  <2> QED BY <2>2, <2>3, <2>5
<1>3. Cont(n) = Cont(m) /\ \A b : Mapped(n, b) <=> Mapped(m, b)
  BY <1>2 DEF Cont, Mapped
<1>4. \A X : Good(m, X) => Good(n, X) /\ Quiet(m, n)
  BY ONLY <1>2, SameMemory
<1> QED BY <1>2, <1>3, <1>4

\* One block is looked at, and one round of the search.
LookIn(g, name) ==
  LET S == {s \in Slots : AsDir(g.cache[g.r])[s].name = name}
  IN  IF S = {} THEN Return(g, -E_NOT_FOUND) ELSE Return([g EXCEPT !.loc = <<g.r, Min(S)>>], 0)
LookOne(n, d, i, name) == IF n.r = -E_NOT_FOUND THEN Then(file_get_block(n, d, i), LAMBDA g : LookIn(g, name)) ELSE n

\* A look into one block of a directory finds a slot of this name, or none.
LEMMA LookIs ==
  ASSUME NEW g, Good(g, {}), NEW d, Here(g, d), IsDir(Cont(g), d), NEW i \in Idx, NEW b \in Data, g.r = b,
         Num(Cont(g), d, i) = b, Mapped(g, b), NEW name, NEW n, n = LookIn(g, name)
  PROVE  Good(n, {}) /\ Quiet(g, n) /\ n.par = g.par /\ n.r \in Int /\ Finds(n, name)
<1>1. PICK S : S = {s \in Slots : AsDir(g.cache[g.r])[s].name = name}
  OBVIOUS
<1>2. S \subseteq Nat
  BY <1>1 DEF Slots
<1>3. CASE S = {}
  <2>1. PICK e \in Int : e = -E_NOT_FOUND /\ e < 0
    BY Errors
  <2>2. n = Return(g, e)
    BY <1>1, <1>3, <2>1 DEF LookIn
  <2>3. Good(n, {}) /\ Quiet(g, n) /\ n.r = e /\ n.par = g.par
    BY <2>2, ReturnGood
  <2> QED BY <2>1, <2>3 DEF Finds
<1>4. CASE S # {}
  <2>1. PICK s : s = Min(S)
    OBVIOUS
  <2>2. s \in S
    BY <1>2, <1>4, <2>1, LeastOf
  <2>3. s \in Slots /\ AsDir(g.cache[b])[s].name = name
    BY <1>1, <2>2
  <2>4. PICK x : x = <<b, s>>
    OBVIOUS
  <2>5. x \in Locs /\ x # ROOT /\ x[1] = b /\ x[2] = s
    BY <2>3, <2>4, MakePlace
  <2>6. n = Return([g EXCEPT !.loc = x], 0)
    BY <1>1, <1>4, <2>1, <2>4 DEF LookIn
  <2>7. /\ Good(n, {}) /\ Quiet(g, n) /\ n.loc = x /\ n.par = g.par /\ n.r = 0 /\ Cont(n) = Cont(g)
        /\ \A y : Mapped(n, y) <=> Mapped(g, y)
    BY ONLY <2>5, <2>6, Good(g, {}), Placed
  <2>8. x \in AllOf(Cont(g))
    BY <2>5, SlotIsFile DEF Here
  <2>9. Here(n, n.loc)
    BY <2>5, <2>7, <2>8 DEF Here
  <2>10. Rec(Cont(n), n.loc).name = name
    <3>1. Cont(g)[b] = g.cache[b]
      BY ContIs, DataIs
    <3> QED BY <2>3, <2>5, <2>7, <3>1 DEF Rec
  <2> QED BY <2>5, <2>7, <2>9, <2>10 DEF Finds
<1> QED BY <1>3, <1>4

\* One round of the search.
LEMMA LookStep ==
  ASSUME NEW m, Good(m, {}), NEW d, Here(m, d), IsDir(Cont(m), d), HasName(Cont(m), d), NEW name,
         NEW i \in Nat, i < Rec(Cont(m), d).size \div BY2BLK,
         NEW n, Scans(m, n, d, name), NEW n2, n2 = LookOne(n, d, i, name)
  PROVE  Scans(m, n2, d, name)
<1>1. CASE n.r # -E_NOT_FOUND
  BY <1>1 DEF LookOne
<1>2. CASE n.r = -E_NOT_FOUND
  <2>1. Good(n, {}) /\ Here(n, d) /\ IsDir(Cont(n), d) /\ HasName(Cont(n), d) /\ Frame(m, n, {}) /\ n.par = m.par
    BY DEF Scans, SameRec, IsDir, HasName
  <2>2. Rec(Cont(n), d).size = Rec(Cont(m), d).size
    BY DEF Scans, SameRec
  <2>3. i \in Idx => Room(Cont(n), d, i)
    <3>1. i \in Idx => Low(i) = i
      BY HeldIs DEF Low
    <3> QED BY <2>1, <2>2, <3>1 DEF Room
  <2>4. PICK g : g = file_get_block(n, d, i)
    OBVIOUS
  <2>5. PICK E : E = {}
    OBVIOUS
  <2>6. Grows(n, g, d, E) /\ (~(g.r < 0) => Found(n, g, d, i) /\ Mapped(g, g.r))
    <3>1. IsDir(Cont(n), d) \/ d \in E
      BY <2>1
    <3> QED BY ONLY <2>1, <2>3, <2>4, <3>1, i \in Nat, get_grows
  <2>7. /\ Good(g, {}) /\ Frame(n, g, {}) /\ Here(g, d) /\ SameRec(Cont(n), Cont(g), d) /\ g.par = n.par /\ g.r \in Int
    BY <2>5, <2>6 DEF Grows
  <2>8. n2 = IF g.r < 0 THEN g ELSE LookIn(g, name)
    BY <1>2, <2>4 DEF LookOne, Then
  <2>9. SameRec(Cont(m), Cont(g), d) /\ IsDir(Cont(g), d)
    BY <2>1, <2>7 DEF SameRec, Scans, IsDir
  <2>10. Frame(m, g, {})
    BY ONLY <2>1, <2>7, Good(m, {}), FrameTrans
  <2>11. CASE g.r < 0
    BY <2>1, <2>7, <2>8, <2>9, <2>10, <2>11 DEF Scans, Finds
  <2>12. CASE ~(g.r < 0)
    <3>1. PICK b : b = g.r
      OBVIOUS
    <3>2. i \in Idx /\ b \in Data /\ Num(Cont(g), d, i) = b /\ Mapped(g, b)
      BY <2>6, <2>12, <3>1 DEF Found
    <3>3. n2 = LookIn(g, name)
      BY <2>8, <2>12
    <3>4. Good(n2, {}) /\ Quiet(g, n2) /\ n2.par = g.par /\ n2.r \in Int /\ Finds(n2, name)
      BY ONLY <2>7, <2>9, <3>1, <3>2, <3>3, LookIs
    <3>5. Frame(g, n2, {})
      BY <2>7, <3>4, QuietFrame
    <3>6. Frame(m, n2, {})
      BY ONLY <2>7, <2>10, <3>4, <3>5, Good(m, {}), FrameTrans
    <3>7. Here(n2, d)
      BY <2>7, <3>4, QuietHere
    <3>8. SameRec(Cont(m), Cont(n2), d)
      BY <2>9, <3>4 DEF Quiet
    <3> QED BY <2>1, <2>7, <3>4, <3>6, <3>7, <3>8 DEF Scans
  <2> QED BY <2>11, <2>12
<1> QED BY <1>1, <1>2

LookLoop(h, m, d, name, b) == h = [i \in 0 .. b |-> IF i = 0 THEN m ELSE LookOne(h[i - 1], d, i - 1, name)]

\* The loop of the search, as a function of the rounds.
LEMMA UnfoldLook ==
  ASSUME NEW m, NEW d, NEW name
  PROVE  scan(m, d, name) = LET s == Return(m, -E_NOT_FOUND)
                                b == nblock(m, d)
                            IN  IF 0 < b THEN (CHOOSE h : LookLoop(h, s, d, name, b))[b] ELSE s
BY DEF scan, Loop, LookLoop, LookOne, LookIn

\* dir_lookup finds a slot of this name or fails; blocks it adds belong to the
\* directory.
LEMMA scan_Good ==
  ASSUME NEW m, Good(m, {}), NEW d, Here(m, d), IsDir(Cont(m), d), HasName(Cont(m), d), NEW name,
         NEW n, n = scan(m, d, name)
  PROVE  Scans(m, n, d, name)
<1>1. PICK e \in Int : e = -E_NOT_FOUND /\ e < 0
  BY Errors
<1>2. PICK s : s = Return(m, e)
  OBVIOUS
<1>3. Good(s, {}) /\ Quiet(m, s) /\ s.r = e /\ s.par = m.par /\ Cont(s) = Cont(m)
  BY <1>2, ReturnGood
<1>4. Scans(m, s, d, name)
  <2>1. Frame(m, s, {}) /\ Here(s, d)
    BY <1>3, QuietFrame, QuietHere
  <2> QED BY <1>1, <1>3, <2>1 DEF Scans, SameRec, Finds
<1>5. File(m, d) = Rec(Cont(m), d) /\ d \in Locs
  BY HereFile
<1>6. PICK b : b = nblock(m, d)
  OBVIOUS
<1>7. b = Rec(Cont(m), d).size \div BY2BLK /\ b \in Nat
  <2>1. PICK t : t = Rec(Cont(m), d).size
    OBVIOUS
  <2>2. t \in Nat
    BY <1>5, <2>1, RecType, RecFields DEF Good, Sound
  <2> QED BY <1>5, <1>6, <2>1, <2>2, Numbers, DivType DEF nblock
<1> DEFINE G  == [i \in 0 .. b |-> {x \in MemRecs : Scans(m, x, d, name)}]
           op == [y \in MemRecs \X Int |-> LookOne(y[1], d, y[2], name)]
<1>8. s \in G[0]
  <2>1. 0 \in 0 .. b /\ s \in MemRecs
    BY <1>3, <1>7 DEF Good
  <2> QED BY <1>4, <2>1
<1>9. ASSUME NEW i \in 0 .. b - 1, NEW x \in G[i]
      PROVE  op[<<x, i>>] = LookOne(x, d, i, name) /\ LookOne(x, d, i, name) \in G[i + 1]
  <2>1. i \in Nat /\ i \in 0 .. b /\ i + 1 \in 0 .. b /\ i < b
    BY <1>7
  <2>2. x \in MemRecs /\ Scans(m, x, d, name)
    BY <2>1
  <2>3. i < Rec(Cont(m), d).size \div BY2BLK
    BY <1>7, <2>1
  <2>4. Scans(m, LookOne(x, d, i, name), d, name)
    BY ONLY <2>1, <2>2, <2>3, Good(m, {}), Here(m, d), IsDir(Cont(m), d), HasName(Cont(m), d), LookStep
  <2>5. LookOne(x, d, i, name) \in MemRecs
    BY <2>4 DEF Scans, Good
  <2> QED BY <2>1, <2>2, <2>4, <2>5
<1> HIDE DEF G, op
<1>10. 0 \in Nat /\ 0 <= b
  BY <1>7
<1>11. \E h : LookLoop(h, s, d, name, b)
  <2>1. \A i \in 0 .. b - 1 : \A x \in G[i] : op[<<x, i>>] \in G[i + 1]
    BY <1>9
  <2>2. PICK f : LoopOf(f, s, op, 0, b) /\ \A i \in 0 .. b : f[i] \in G[i]
    BY ONLY <1>7, <1>8, <1>10, <2>1, LoopKeeps
  <2>3. ASSUME NEW i \in 0 .. b, i # 0 PROVE op[<<f[i - 1], i - 1>>] = LookOne(f[i - 1], d, i - 1, name)
    <3>1. i - 1 \in 0 .. b - 1 /\ i - 1 \in 0 .. b
      BY <1>7, <2>3
    <3> QED BY <1>9, <2>2, <3>1
  <2> DEFINE A(i) == IF i = 0 THEN s ELSE op[<<f[i - 1], i - 1>>]
             B(i) == IF i = 0 THEN s ELSE LookOne(f[i - 1], d, i - 1, name)
  <2>4. \A i \in 0 .. b : A(i) = B(i)
    BY <2>3
  <2>5. f = [i \in 0 .. b |-> A(i)]
    BY <2>2 DEF LoopOf
  <2> HIDE DEF A, B
  <2>6. f = [i \in 0 .. b |-> B(i)]
    BY <2>4, <2>5
  <2>7. LookLoop(f, s, d, name, b)
    BY <2>6 DEF B, LookLoop
  <2> QED BY <2>7
<1>12. CASE 0 < b
  <2>1. PICK h : h = CHOOSE g : LookLoop(g, s, d, name, b)
    OBVIOUS
  <2>2. LookLoop(h, s, d, name, b)
    BY <1>11, <2>1
  <2>3. n = h[b]
    BY <1>1, <1>2, <1>6, <1>12, <2>1, UnfoldLook
  <2>4. \A i \in 0 .. b : h[i] = IF i = 0 THEN s ELSE LookOne(h[i - 1], d, i - 1, name)
    <3> DEFINE F(i) == IF i = 0 THEN s ELSE LookOne(h[i - 1], d, i - 1, name)
    <3>1. h = [i \in 0 .. b |-> F(i)]
      BY <2>2 DEF LookLoop
    <3> HIDE DEF F
    <3>2. \A i \in 0 .. b : h[i] = F(i)
      BY <3>1
    <3> QED BY <3>2 DEF F
  <2>5. h[0] \in G[0]
    <3>1. 0 \in 0 .. b
      BY <1>7
    <3> QED BY <1>8, <2>4, <3>1
  <2>6. ASSUME NEW i \in 0 .. b - 1, h[i] \in G[i] PROVE h[i + 1] \in G[i + 1]
    <3>1. i + 1 \in 0 .. b /\ i + 1 # 0 /\ (i + 1) - 1 = i
      BY <1>7
    <3>2. h[i + 1] = LookOne(h[i], d, i, name)
      BY <2>4, <3>1
    <3> QED BY <1>9, <2>6, <3>2
  <2>7. h[b] \in G[b]
    BY ONLY <1>7, <1>10, <2>5, <2>6, LoopEnds
  <2>8. b \in 0 .. b
    BY <1>7
  <2> QED BY <2>3, <2>7, <2>8 DEF G
<1>13. CASE ~(0 < b)
  <2>1. n = s
    BY <1>1, <1>2, <1>6, <1>13, UnfoldLook
  <2> QED BY <1>4, <2>1
<1> QED BY <1>12, <1>13

-----------------------------------------------------------------------------
(***************************************************************************)
(* A slot for a new file.                                                  *)
(***************************************************************************)
\* The directory gets one more block, whose first slot has no name.
LEMMA grow_dir_Good ==
  ASSUME NEW m, Good(m, {}), NEW d, Here(m, d), IsDir(Cont(m), d), HasName(Cont(m), d), m.r = -E_NOT_FOUND,
         NEW n, n = grow_dir(m, d)
  PROVE  Good(n, {}) /\ Frame(m, n, {}) /\ n.par = m.par /\ n.r \in Int /\ Finds(n, "")
<1>1. File(m, d) = Rec(Cont(m), d) /\ d \in Locs /\ Sound(Cont(m), {}) /\ d \in AllOf(Cont(m))
  BY HereFile DEF Good, Here
<1>2. PICK t : t = Rec(Cont(m), d).size
  OBVIOUS
<1>3. t \in Nat /\ BY2BLK * (t \div BY2BLK) = t
  BY <1>1, <1>2, RecType, RecFields DEF Sound, Sized, Whole
<1>4. PICK q : q = t \div BY2BLK
  OBVIOUS
<1>5. PICK s : s = t + BY2BLK
  OBVIOUS
<1>6. q \in Nat /\ s \in Nat /\ t <= s /\ Whole(s) /\ s \div BY2BLK = q + 1 /\ s >= t
  <2>1. BY2BLK * (s \div BY2BLK) = s /\ s \div BY2BLK = q + 1
    BY <1>3, <1>4, <1>5, Numbers, WholeBlocks
  <2>2. q \in Nat
    BY <1>3, <1>4, Numbers, DivType
  <2> QED BY <1>3, <1>5, <2>1, <2>2, Numbers DEF Whole
<1>7. PICK x : x = SetSize(m, d, s)
  OBVIOUS
<1>8. PICK g : g = file_get_block(x, d, q)
  OBVIOUS
<1>9. n = IF g.r < 0 THEN g ELSE Return([g EXCEPT !.loc = <<g.r, 1>>], 0)
  BY <1>1, <1>2, <1>4, <1>5, <1>7, <1>8 DEF grow_dir, Then, nblock
<1>10. PICK E : E = {}
  OBVIOUS
<1>11. SizeFits(Cont(m), d, s)
  BY <1>1, <1>2, <1>6, LargerFits
<1>12. Resized(m, x, d, s, E) /\ SameAt(Cont(m), Cont(x), d) /\ x.r = m.r
  <2>1. (IsDir(Cont(m), d) /\ s >= Rec(Cont(m), d).size) \/ (~IsDir(Cont(m), d) /\ d \in E)
    <3>1. s >= Rec(Cont(m), d).size
      BY <1>2, <1>6
    <3> QED BY <3>1
  <2>2. s \in Nat
    BY <1>6
  <2> QED BY ONLY <1>7, <1>11, <2>1, <2>2, Good(m, {}), Here(m, d), HasName(Cont(m), d), SetSizeGood
<1>13. /\ Good(x, {}) /\ Frame(m, x, {}) /\ Here(x, d) /\ x.par = m.par /\ HasName(Cont(x), d) /\ IsDir(Cont(x), d)
       /\ Rec(Cont(x), d).size = s
  BY <1>10, <1>12 DEF Resized
<1>14. q \in Idx => Low(q) = q
  BY HeldIs DEF Low
<1>15. q \in Idx => Room(Cont(x), d, q)
  BY <1>6, <1>13, <1>14 DEF Room
<1>16. q \in Idx => Num(Cont(x), d, q) = 0
  <2> SUFFICES ASSUME q \in Idx PROVE Num(Cont(x), d, q) = 0
    OBVIOUS
  <2>1. ~Room(Cont(m), d, q)
    BY <1>2, <1>4, <1>6, <1>14 DEF Room
  <2>2. q \in Held
    BY HeldIs
  <2>3. At(Cont(m), d, q) = 0
    BY <1>1, <2>1, <2>2 DEF Sound, Sized
  <2>4. At(Cont(x), d, q) = 0
    BY <1>12, <2>2, <2>3 DEF SameAt
  <2> QED BY <2>4, HeldIs
<1>17. Grows(x, g, d, E) /\ (~(g.r < 0) => Found(x, g, d, q) /\ Mapped(g, g.r))
  <2>1. IsDir(Cont(x), d) \/ d \in E
    BY <1>13
  <2>2. q \in Nat
    BY <1>6
  <2> QED BY ONLY <1>8, <1>13, <1>15, <2>1, <2>2, get_grows
<1>18. /\ Good(g, {}) /\ Frame(x, g, {}) /\ Here(g, d) /\ g.par = m.par /\ g.r \in Int /\ IsDir(Cont(g), d)
  BY <1>10, <1>13, <1>17 DEF Grows, SameRec, IsDir
<1>19. Frame(m, g, {})
  BY ONLY <1>13, <1>18, Good(m, {}), FrameTrans
<1>20. CASE g.r < 0
  BY <1>9, <1>18, <1>19, <1>20 DEF Finds
<1>21. CASE ~(g.r < 0)
  <2>1. PICK b : b = g.r
    OBVIOUS
  <2>2. q \in Idx /\ b \in Data /\ Num(Cont(g), d, q) = b /\ Mapped(g, b) /\ Cont(g)[b] = Word(0)
    BY <1>16, <1>17, <1>21, <2>1 DEF Found
  <2>3. PICK y : y = <<b, 1>>
    OBVIOUS
  <2>4. y \in Locs /\ y # ROOT /\ y[1] = b
    BY <2>2, <2>3, MakePlace, BlockSets
  <2>5. y \in AllOf(Cont(g))
    BY <1>18, <2>2, <2>4, SlotIsFile DEF Here
  <2>6. Rec(Cont(g), y).name = ""
    BY <2>2, <2>4, BlankSlot DEF Fresh
  <2>7. n = Return([g EXCEPT !.loc = y], 0)
    BY <1>9, <1>21, <2>1, <2>3
  <2>8. /\ Good(n, {}) /\ Quiet(g, n) /\ n.loc = y /\ n.par = g.par /\ n.r = 0 /\ Cont(n) = Cont(g)
        /\ \A z : Mapped(n, z) <=> Mapped(g, z)
    BY ONLY <1>18, <2>4, <2>7, Placed
  <2>9. Frame(g, n, {})
    BY <1>18, <2>8, QuietFrame
  <2>10. Frame(m, n, {})
    BY ONLY <1>18, <1>19, <2>8, <2>9, Good(m, {}), FrameTrans
  <2>11. Here(n, n.loc)
    BY <2>2, <2>4, <2>5, <2>8 DEF Here
  <2>12. Finds(n, "")
    <3>1. Rec(Cont(n), n.loc).name = "" /\ n.loc # ROOT /\ n.r = 0
      BY <2>4, <2>6, <2>8
    <3> QED BY <2>11, <3>1 DEF Finds
  <2>13. n.r \in Int /\ n.par = m.par
    BY <1>18, <2>8
  <2> QED BY <2>8, <2>10, <2>12, <2>13
<1> QED BY <1>20, <1>21

\* dir_alloc_file finds a slot without a name, in a new block if need be, or fails.
LEMMA dir_alloc_file_Good ==
  ASSUME NEW m, Good(m, {}), NEW d, Here(m, d), IsDir(Cont(m), d), HasName(Cont(m), d),
         NEW n, n = dir_alloc_file(m, d)
  PROVE  Good(n, {}) /\ Frame(m, n, {}) /\ n.par = m.par /\ n.r \in Int /\ Finds(n, "")
<1>1. PICK a : a = scan(m, d, "")
  OBVIOUS
<1>2. PICK name : name = ""
  OBVIOUS
<1>3. Scans(m, a, d, name)
  <2>1. a = scan(m, d, name)
    BY <1>1, <1>2
  <2> QED BY ONLY <2>1, Good(m, {}), Here(m, d), IsDir(Cont(m), d), HasName(Cont(m), d), scan_Good
<1>4. n = grow_dir(a, d)
  BY <1>1 DEF dir_alloc_file
<1>5. CASE a.r # -E_NOT_FOUND
  <2>1. n = a
    BY <1>4, <1>5 DEF grow_dir
  <2> QED BY <1>2, <1>3, <2>1 DEF Scans
<1>6. CASE a.r = -E_NOT_FOUND
  <2>1. Good(a, {}) /\ Frame(m, a, {}) /\ Here(a, d) /\ IsDir(Cont(a), d) /\ HasName(Cont(a), d) /\ a.par = m.par
    BY <1>3 DEF Scans, SameRec, IsDir, HasName
  <2>2. Good(n, {}) /\ Frame(a, n, {}) /\ n.par = a.par /\ n.r \in Int /\ Finds(n, "")
    BY ONLY <1>4, <1>6, <2>1, grow_dir_Good
  <2>3. Frame(m, n, {})
    BY ONLY <2>1, <2>2, Good(m, {}), FrameTrans
  <2> QED BY <2>1, <2>2, <2>3
<1> QED BY <1>5, <1>6

-----------------------------------------------------------------------------
(***************************************************************************)
(* Paths.                                                                  *)
(***************************************************************************)
\* A file with a name that the request has in the cache; a directory like that.
Known(m, l) == Here(m, l) /\ HasName(Cont(m), l)
IsPar(m, d) == d = NIL \/ (Known(m, d) /\ IsDir(Cont(m), d))

\* What the walk leaves: the file and its directory, or an error.
Walks(m, n) == /\ Good(n, {}) /\ Frame(m, n, {}) /\ n.r \in Int /\ IsPar(n, n.par)
               /\ n.r < 0 \/ (n.r = 0 /\ Known(n, n.loc))

\* A file that the server knows stays one when others are changed.
LEMMA KnownKept ==
  ASSUME NEW m, NEW m2, NEW E, Frame(m, m2, E), NEW d
  PROVE  /\ Known(m, d) => Known(m2, d)
         /\ IsPar(m, d) => IsPar(m2, d)
<1>1. ASSUME Known(m, d) PROVE Known(m2, d) /\ (IsDir(Cont(m2), d) <=> IsDir(Cont(m), d))
  <2>1. Here(m, d) /\ HasName(Cont(m), d) /\ d \in AllOf(Cont(m))
    BY <1>1 DEF Known, Here
  <2>2. Here(m2, d)
    BY ONLY <2>1, Frame(m, m2, E), HereKept
  <2>3. Rec(Cont(m2), d).name = Rec(Cont(m), d).name /\ (IsDir(Cont(m2), d) <=> IsDir(Cont(m), d))
    BY <2>1 DEF Frame, Spares
  <2> QED BY <2>1, <2>2, <2>3 DEF Known, HasName
<1> QED BY <1>1 DEF IsPar

\* Only f_dir is set.
LEMMA SetParIs ==
  ASSUME NEW m, Good(m, {}), NEW d \in Locs \cup {NIL}, NEW last, NEW n, n = SetPar(m, d, last)
  PROVE  Good(n, {}) /\ Quiet(m, n) /\ n.loc = m.loc /\ n.par \in {d, NIL} /\ n.r = m.r
<1>1. PICK p : p = IF m.r = 0 \/ (m.r = -E_NOT_FOUND /\ last) THEN d ELSE NIL
  OBVIOUS
<1>2. n = [m EXCEPT !.par = p] /\ p \in {d, NIL} /\ p \in Locs \cup {NIL} /\ m \in MemRecs
  BY <1>1 DEF SetPar, Good
<1>3. /\ n \in MemRecs /\ n.cache = m.cache /\ n.unsaved = m.unsaved /\ n.dirty = m.dirty /\ n.panic = m.panic
      /\ n.loc = m.loc /\ n.par = p /\ n.r = m.r
  BY <1>2 DEF MemRecs
<1>4. \A X : Good(m, X) => Good(n, X) /\ Quiet(m, n)
  BY ONLY <1>3, SameMemory
<1> QED BY <1>2, <1>3, <1>4

\* One name of the path.
WalkOne(n, path, i) ==
  IF n.r < 0 THEN n
  ELSE IF File(n, n.loc).type # FTYPE_DIR THEN SetPar(Return(n, -E_NOT_FOUND), NIL, FALSE)
  ELSE SetPar(dir_lookup(n, n.loc, path[i]), n.loc, i = Len(path))

\* One name of the path.
LEMMA WalkStep ==
  ASSUME NEW m, Good(m, {}), NEW path, NEW i \in Int, path[i] \in Names, NEW n, Walks(m, n),
         NEW n2, n2 = WalkOne(n, path, i)
  PROVE  Walks(m, n2)
<1>1. CASE n.r < 0
  BY <1>1 DEF WalkOne
<1>2. CASE ~(n.r < 0)
  <2>1. PICK l : l = n.loc
    OBVIOUS
  <2>2. Good(n, {}) /\ Frame(m, n, {}) /\ Known(n, l) /\ Here(n, l) /\ HasName(Cont(n), l)
    BY <1>2, <2>1 DEF Walks, Known
  <2>3. File(n, l) = Rec(Cont(n), l) /\ l \in Locs
    BY <2>2, HereFile
  <2>4. CASE ~IsDir(Cont(n), l)
    <3>1. PICK e \in Int : e = -E_NOT_FOUND /\ e < 0
      BY Errors
    <3>2. PICK a : a = Return(n, e)
      OBVIOUS
    <3>3. Good(a, {}) /\ Quiet(n, a) /\ a.r = e
      BY <2>2, <3>2, ReturnGood
    <3>4. n2 = SetPar(a, NIL, FALSE)
      BY <1>2, <2>1, <2>3, <2>4, <3>1, <3>2 DEF WalkOne, IsDir
    <3>5. PICK d \in Locs \cup {NIL} : d = NIL
      OBVIOUS
    <3>6. PICK last : last = FALSE
      OBVIOUS
    <3>7. n2 = SetPar(a, d, last)
      BY <3>4, <3>5, <3>6
    <3>8. Good(n2, {}) /\ Quiet(a, n2) /\ n2.loc = a.loc /\ n2.par \in {d, NIL} /\ n2.r = a.r
      BY ONLY <3>3, <3>7, SetParIs
    <3>9. Quiet(n, n2)
      BY ONLY <3>3, <3>8, QuietTrans
    <3>10. Frame(n, n2, {})
      BY <2>2, <3>9, QuietFrame
    <3>11. Frame(m, n2, {})
      BY ONLY <2>2, <3>8, <3>10, Good(m, {}), FrameTrans
    <3> QED BY <3>1, <3>3, <3>5, <3>8, <3>11 DEF Walks, IsPar
  <2>5. CASE IsDir(Cont(n), l)
    <3>1. PICK name : name = path[i]
      OBVIOUS
    <3>2. name # "" /\ name \in Names
      BY <3>1, ProgramAssumption
    <3>3. PICK a : a = scan(n, l, name)
      OBVIOUS
    <3>4. Scans(n, a, l, name)
      BY ONLY <2>2, <2>5, <3>3, scan_Good
    <3>5. Good(a, {}) /\ Frame(n, a, {}) /\ a.r \in Int /\ Finds(a, name) /\ Here(a, l)
      BY <3>4 DEF Scans
    <3>6. PICK last : last = (i = Len(path))
      OBVIOUS
    <3>7. n2 = SetPar(a, l, last)
      BY <1>2, <2>1, <2>3, <2>5, <3>1, <3>3, <3>6 DEF WalkOne, IsDir, dir_lookup
    <3>8. Good(n2, {}) /\ Quiet(a, n2) /\ n2.loc = a.loc /\ n2.par \in {l, NIL} /\ n2.r = a.r
      <4>1. l \in Locs \cup {NIL}
        BY <2>3
      <4> QED BY ONLY <3>5, <3>7, <4>1, SetParIs
    <3>9. Frame(a, n2, {})
      BY <3>5, <3>8, QuietFrame
    <3>10. Frame(n, n2, {})
      BY ONLY <2>2, <3>5, <3>8, <3>9, FrameTrans
    <3>11. Frame(m, n2, {})
      BY ONLY <2>2, <3>8, <3>10, Good(m, {}), FrameTrans
    <3>12. IsPar(n2, l)
      <4>1. IsPar(n, l)
        BY <2>2, <2>5 DEF IsPar
      <4> QED BY ONLY <3>10, <4>1, KnownKept
    <3>13. IsPar(n2, n2.par)
      BY <3>8, <3>12 DEF IsPar
    <3>14. n2.r < 0 \/ (n2.r = 0 /\ Known(n2, n2.loc))
      <4>1. CASE a.r < 0
        BY <3>8, <4>1
      <4>2. CASE ~(a.r < 0)
        <5>1. a.r = 0 /\ Here(a, a.loc) /\ Rec(Cont(a), a.loc).name = name
          BY <3>5, <4>2 DEF Finds
        <5>2. Here(n2, n2.loc)
          BY <3>8, <5>1, QuietHere
        <5>3. HasName(Cont(n2), n2.loc)
          BY <3>2, <3>8, <5>1 DEF HasName, Quiet
        <5> QED BY <3>8, <5>1, <5>2, <5>3 DEF Known
      <4> QED BY <4>1, <4>2
    <3> QED BY <3>5, <3>8, <3>11, <3>13, <3>14 DEF Walks
  <2> QED BY <2>4, <2>5
<1> QED BY <1>1, <1>2

WalkLoop(h, m, path, b) == h = [i \in 1 .. b |-> IF i = 1 THEN m ELSE WalkOne(h[i - 1], path, i - 1)]

\* The loop of walk_path, as a function of the rounds.
LEMMA UnfoldWalk ==
  ASSUME NEW m, NEW path
  PROVE  walk_path(m, path) = LET s == [m EXCEPT !.r = 0, !.loc = ROOT, !.par = NIL]
                                  b == Len(path) + 1
                              IN  IF 1 < b THEN (CHOOSE h : WalkLoop(h, s, path, b))[b] ELSE s
BY DEF walk_path, Loop, WalkLoop, WalkOne

\* walk_path finds a file and its directory, or fails; it changes no file.
LEMMA walk_path_Good ==
  ASSUME NEW m, Good(m, {}), NEW path \in Paths, NEW n, n = walk_path(m, path)
  PROVE  Walks(m, n)
<1>1. PICK s : s = [m EXCEPT !.r = 0, !.loc = ROOT, !.par = NIL]
  OBVIOUS
<1>2. /\ s \in MemRecs /\ s.cache = m.cache /\ s.unsaved = m.unsaved /\ s.dirty = m.dirty /\ s.panic = m.panic
      /\ s.r = 0 /\ s.loc = ROOT /\ s.par = NIL
  <2>1. PICK l : l = ROOT
    OBVIOUS
  <2>2. l \in Locs /\ m \in MemRecs
    BY <2>1, BlockSets DEF Good
  <2>3. PICK z \in Int : z = 0
    OBVIOUS
  <2>4. s = [m EXCEPT !.r = z, !.loc = l, !.par = NIL]
    BY <1>1, <2>1, <2>3
  <2>5. /\ s \in MemRecs /\ s.cache = m.cache /\ s.unsaved = m.unsaved /\ s.dirty = m.dirty /\ s.panic = m.panic
        /\ s.r = z /\ s.loc = l /\ s.par = NIL
    BY <2>2, <2>4 DEF MemRecs
  <2> QED BY <2>1, <2>3, <2>5
<1>3. Walks(m, s)
  <2>1. \A X : Good(m, X) => Good(s, X) /\ Quiet(m, s)
    BY ONLY <1>2, SameMemory
  <2>2. Good(s, {}) /\ Quiet(m, s)
    BY <2>1
  <2>3. Frame(m, s, {})
    BY <2>2, QuietFrame
  <2>4. Known(s, ROOT)
    <3>1. ROOT \in AllOf(Cont(s)) /\ ROOT[1] = SUPER
      BY AllIn, PlaceOf, BlockSets
    <3>2. Mapped(s, SUPER) /\ HasName(Cont(s), ROOT)
      BY <2>2 DEF Good, InCache, Sound, Boot, HasName
    <3> QED BY <3>1, <3>2 DEF Known, Here
  <2> QED BY <1>2, <2>2, <2>3, <2>4 DEF Walks, IsPar
<1>4. PICK b : b = Len(path) + 1
  OBVIOUS
<1>5. path \in Seq(Names) /\ b \in Nat /\ 1 <= b /\ 1 \in Nat /\ \A i \in 1 .. b - 1 : path[i] \in Names
  <2>1. path \in Seq(Names)
    BY ProgramAssumption
  <2>2. Len(path) \in Nat /\ path \in [1 .. Len(path) -> Names]
    BY <2>1
  <2>3. b - 1 = Len(path)
    BY <1>4, <2>2
  <2> QED BY <1>4, <2>1, <2>2, <2>3
<1> DEFINE G  == [i \in 1 .. b |-> {x \in MemRecs : Walks(m, x)}]
           op == [y \in MemRecs \X Int |-> WalkOne(y[1], path, y[2])]
<1>6. s \in G[1]
  <2>1. 1 \in 1 .. b
    BY <1>5
  <2> QED BY <1>2, <1>3, <2>1
<1>7. ASSUME NEW i \in 1 .. b - 1, NEW x \in G[i]
      PROVE  op[<<x, i>>] = WalkOne(x, path, i) /\ WalkOne(x, path, i) \in G[i + 1]
  <2>1. i \in Int /\ i \in 1 .. b /\ i + 1 \in 1 .. b /\ path[i] \in Names
    BY <1>5
  <2>2. x \in MemRecs /\ Walks(m, x)
    BY <2>1
  <2>3. Walks(m, WalkOne(x, path, i))
    BY ONLY <2>1, <2>2, Good(m, {}), WalkStep
  <2>4. WalkOne(x, path, i) \in MemRecs
    BY <2>3 DEF Walks, Good
  <2> QED BY <2>1, <2>2, <2>3, <2>4
<1> HIDE DEF G, op
<1>8. \E h : WalkLoop(h, s, path, b)
  <2>1. \A i \in 1 .. b - 1 : \A x \in G[i] : op[<<x, i>>] \in G[i + 1]
    BY <1>7
  <2>2. PICK f : LoopOf(f, s, op, 1, b) /\ \A i \in 1 .. b : f[i] \in G[i]
    BY ONLY <1>5, <1>6, <2>1, LoopKeeps
  <2>3. ASSUME NEW i \in 1 .. b, i # 1 PROVE op[<<f[i - 1], i - 1>>] = WalkOne(f[i - 1], path, i - 1)
    <3>1. i - 1 \in 1 .. b - 1 /\ i - 1 \in 1 .. b
      BY <1>5, <2>3
    <3> QED BY <1>7, <2>2, <3>1
  <2> DEFINE A(i) == IF i = 1 THEN s ELSE op[<<f[i - 1], i - 1>>]
             B(i) == IF i = 1 THEN s ELSE WalkOne(f[i - 1], path, i - 1)
  <2>4. \A i \in 1 .. b : A(i) = B(i)
    BY <2>3
  <2>5. f = [i \in 1 .. b |-> A(i)]
    BY <2>2 DEF LoopOf
  <2> HIDE DEF A, B
  <2>6. f = [i \in 1 .. b |-> B(i)]
    BY <2>4, <2>5
  <2>7. WalkLoop(f, s, path, b)
    BY <2>6 DEF B, WalkLoop
  <2> QED BY <2>7
<1>9. CASE 1 < b
  <2>1. PICK h : h = CHOOSE g : WalkLoop(g, s, path, b)
    OBVIOUS
  <2>2. WalkLoop(h, s, path, b)
    BY <1>8, <2>1
  <2>3. n = h[b]
    BY <1>1, <1>4, <1>9, <2>1, UnfoldWalk
  <2>4. \A i \in 1 .. b : h[i] = IF i = 1 THEN s ELSE WalkOne(h[i - 1], path, i - 1)
    <3> DEFINE F(i) == IF i = 1 THEN s ELSE WalkOne(h[i - 1], path, i - 1)
    <3>1. h = [i \in 1 .. b |-> F(i)]
      BY <2>2 DEF WalkLoop
    <3> HIDE DEF F
    <3>2. \A i \in 1 .. b : h[i] = F(i)
      BY <3>1
    <3> QED BY <3>2 DEF F
  <2>5. h[1] \in G[1]
    <3>1. 1 \in 1 .. b
      BY <1>5
    <3> QED BY <1>6, <2>4, <3>1
  <2>6. ASSUME NEW i \in 1 .. b - 1, h[i] \in G[i] PROVE h[i + 1] \in G[i + 1]
    <3>1. i + 1 \in 1 .. b /\ i + 1 # 1 /\ (i + 1) - 1 = i
      BY <1>5
    <3>2. h[i + 1] = WalkOne(h[i], path, i)
      BY <2>4, <3>1
    <3> QED BY <1>7, <2>6, <3>2
  <2>7. h[b] \in G[b]
    BY ONLY <1>5, <2>5, <2>6, LoopEnds
  <2>8. b \in 1 .. b
    BY <1>5
  <2> QED BY <2>3, <2>7, <2>8 DEF G
<1>10. CASE ~(1 < b)
  <2>1. n = s
    BY <1>1, <1>4, <1>10, UnfoldWalk
  <2> QED BY <1>3, <2>1
<1> QED BY <1>9, <1>10

-----------------------------------------------------------------------------
(***************************************************************************)
(* Creating and removing.                                                  *)
(***************************************************************************)
\* What a request does to the files but E: nothing that can be seen, also not in names.
Near(m, n, E) ==
  /\ Loads(m, n) /\ Saved(m, n, E)
  /\ AllOf(Cont(m)) \subseteq AllOf(Cont(n))
  /\ \A k \in AllOf(Cont(m)) \ E : HasName(Cont(m), k) =>
       /\ HasName(Cont(n), k)
       /\ IsDir(Cont(n), k) <=> IsDir(Cont(m), k)
       /\ ~IsDir(Cont(m), k) => SameFile(Cont(m), Cont(n), k)
  /\ \A k \in AllOf(Cont(n)) \ E : HasName(Cont(n), k) => k \in AllOf(Cont(m)) /\ HasName(Cont(m), k)

\* What changes the files in E only does so if these may also be made or removed.
LEMMA FrameNear ==
  ASSUME NEW m, NEW n, NEW E, Frame(m, n, E)
  PROVE  /\ Near(m, n, E)
         /\ \A k \in AllOf(Cont(m)) : HasName(Cont(m), k) =>
              k \in AllOf(Cont(n)) /\ HasName(Cont(n), k) /\ (IsDir(Cont(n), k) <=> IsDir(Cont(m), k))
         /\ \A k \in AllOf(Cont(n)) : HasName(Cont(n), k) => k \in AllOf(Cont(m)) /\ HasName(Cont(m), k)
<1>1. Spares(Cont(m), Cont(n), E)
  BY DEF Frame
<1>2. \A k \in AllOf(Cont(m)) : HasName(Cont(m), k) =>
         k \in AllOf(Cont(n)) /\ HasName(Cont(n), k) /\ (IsDir(Cont(n), k) <=> IsDir(Cont(m), k))
  BY <1>1 DEF Spares, HasName
<1>3. \A k \in AllOf(Cont(n)) : HasName(Cont(n), k) => k \in AllOf(Cont(m)) /\ HasName(Cont(m), k)
  BY <1>1 DEF Spares
<1>4. Near(m, n, E)
  BY <1>1, <1>2, <1>3 DEF Near, Frame, Spares
<1> QED BY <1>2, <1>3, <1>4

\* A slot without a name gets one.
Created(m, n, x) == /\ Near(m, n, {x}) /\ ~(x \in AllOf(Cont(m)) /\ HasName(Cont(m), x))
                    /\ x \in AllOf(Cont(n)) /\ Rec(Cont(n), x).size = 0

\* A slot without a name becomes an empty file.
LEMMA new_file_Good ==
  ASSUME NEW m, Good(m, {}), NEW w, Good(w, {}), Frame(m, w, {}), IsPar(w, w.par), w.par # NIL,
         NEW name \in Names, NEW type \in {FTYPE_REG, FTYPE_DIR}, NEW n, n = new_file(w, name, type)
  PROVE  Good(n, {}) /\ (Frame(m, n, {}) \/ \E x : Created(m, n, x))
<1>1. PICK d : d = w.par
  OBVIOUS
<1>2. Here(w, d) /\ IsDir(Cont(w), d) /\ HasName(Cont(w), d)
  BY <1>1 DEF IsPar, Known
<1>3. PICK a : a = dir_alloc_file(w, d)
  OBVIOUS
<1>4. Good(a, {}) /\ Frame(w, a, {}) /\ a.par = w.par /\ a.r \in Int /\ Finds(a, "")
  BY ONLY <1>2, <1>3, Good(w, {}), dir_alloc_file_Good
<1>5. Frame(m, a, {})
  BY ONLY <1>4, Good(m, {}), Good(w, {}), Frame(m, w, {}), FrameTrans
<1>6. n = IF a.r < 0 THEN a ELSE SetFile(a, a.loc, [File(a, a.loc) EXCEPT !.name = name, !.type = type])
  BY <1>1, <1>3 DEF new_file, Then
<1>7. CASE a.r < 0
  BY <1>4, <1>5, <1>6, <1>7
<1>8. CASE ~(a.r < 0)
  <2>1. PICK x : x = a.loc
    OBVIOUS
  <2>2. Here(a, x) /\ x # ROOT /\ Rec(Cont(a), x).name = ""
    BY <1>4, <1>8, <2>1 DEF Finds
  <2>3. x \in AllOf(Cont(a)) /\ x \in Locs /\ Sound(Cont(a), {}) /\ File(a, x) = Rec(Cont(a), x)
    BY <1>4, <2>2, HereFile DEF Here, Good
  <2>4. PICK f : f = [Rec(Cont(a), x) EXCEPT !.name = name, !.type = type]
    OBVIOUS
  <2>5. n = SetFile(a, x, f)
    BY <1>6, <1>8, <2>1, <2>3, <2>4
  <2>6. Rec(Cont(a), x) \in FileRecs
    BY <2>3, RecType DEF Sound
  <2>7. type \in Nat
    BY DEF FTYPE_REG, FTYPE_DIR
  <2>8. /\ f \in FileRecs /\ f.name = name /\ f.type = type /\ f.size = Rec(Cont(a), x).size
        /\ f.ptr = Rec(Cont(a), x).ptr /\ f.ind = Rec(Cont(a), x).ind
    BY <2>4, <2>6, <2>7 DEF FileRecs
  <2>9. Empty(Cont(a), x)
    BY <2>2, <2>3 DEF Sound, Named
  <2>10. f.size = 0 /\ \A i \in Held : At(Cont(a), x, i) = 0
    BY <2>8, <2>9 DEF Empty
  <2>11. name # ""
    BY ProgramAssumption
  <2>12. Whole(0)
    BY Numbers DEF Whole
  <2>13. Fits(Cont(a), x, f)
    <3>1. /\ f \in FileRecs /\ f.ptr = Rec(Cont(a), x).ptr /\ f.ind = Rec(Cont(a), x).ind
          /\ f.type \in {FTYPE_REG, FTYPE_DIR} /\ f.name \in Names \cup {""} /\ f.name # ""
      BY <2>8, <2>11
    <3>2. Whole(f.size)
      BY <2>10, <2>12
    <3> QED BY ONLY <2>2, <2>9, <2>10, <3>1, <3>2 DEF Fits
  <2>14. /\ Good(n, {}) /\ Labelled(Cont(a), Cont(n), x, f) /\ Loads(a, n) /\ n.unsaved \subseteq a.unsaved
         /\ n.loc = a.loc /\ n.par = a.par /\ n.r = a.r /\ n.r \in Int /\ Here(n, x)
    <3>1. Good(a, {}) /\ Here(a, x)
      BY <1>4, <2>2
    <3> QED BY ONLY <2>5, <2>13, <3>1, SetFileGood
  <2>15. AllOf(Cont(n)) = AllOf(Cont(a)) /\ \A k \in AllOf(Cont(a)) : Rec(Cont(n), k) = IF k = x THEN f ELSE Rec(Cont(a), k)
    BY <2>14 DEF Labelled
  <2>16. ~(x \in AllOf(Cont(m)) /\ HasName(Cont(m), x))
    BY <1>5, <2>2, FrameNear DEF HasName
  <2>17. Loads(m, n)
    BY <1>5, <2>14 DEF Frame, Loads
  <2>18. Near(m, a, {})
    BY <1>5, FrameNear
  <2>19. Saved(m, n, {x})
    BY <2>14, <2>18 DEF Near, Saved
  <2>20. ASSUME NEW k \in AllOf(Cont(a)), ~IsDir(Cont(a), k), k # x PROVE SameFile(Cont(a), Cont(n), k)
    <3>1. StoredAt(Cont(a), Cont(n), x) /\ SameAt(Cont(a), Cont(n), k)
      BY <2>14 DEF Labelled
    <3>2. Rec(Cont(n), k).size = Rec(Cont(a), k).size
      BY <2>15, <2>20
    <3>3. \A j \in Idx : Num(Cont(n), k, j) = Num(Cont(a), k, j)
      BY <3>1, HeldIs DEF SameAt
    <3> QED BY <2>3, <2>20, <3>1, <3>2, <3>3, FileKept
  <2>21. ASSUME NEW k \in AllOf(Cont(m)) \ {x}, HasName(Cont(m), k)
         PROVE  /\ HasName(Cont(n), k)
                /\ IsDir(Cont(n), k) <=> IsDir(Cont(m), k)
                /\ ~IsDir(Cont(m), k) => SameFile(Cont(m), Cont(n), k)
    <3>1. /\ k \in AllOf(Cont(a)) /\ k # x /\ HasName(Cont(a), k) /\ (IsDir(Cont(a), k) <=> IsDir(Cont(m), k))
          /\ ~IsDir(Cont(m), k) => SameFile(Cont(m), Cont(a), k)
      BY <2>18, <2>21 DEF Near
    <3>2. Rec(Cont(n), k) = Rec(Cont(a), k)
      BY <2>15, <3>1
    <3>3. ~IsDir(Cont(m), k) => SameFile(Cont(m), Cont(n), k)
      BY <2>20, <3>1 DEF SameFile
    <3> QED BY <3>1, <3>2, <3>3 DEF HasName, IsDir
  <2>22. ASSUME NEW k \in AllOf(Cont(n)) \ {x}, HasName(Cont(n), k) PROVE k \in AllOf(Cont(m)) /\ HasName(Cont(m), k)
    <3>1. k \in AllOf(Cont(a)) /\ HasName(Cont(a), k)
      BY <2>15, <2>22 DEF HasName
    <3> QED BY <2>18, <3>1 DEF Near
  <2>23. AllOf(Cont(m)) \subseteq AllOf(Cont(n))
    BY <2>15, <2>18 DEF Near
  <2>24. Near(m, n, {x})
    BY <2>17, <2>19, <2>21, <2>22, <2>23 DEF Near
  <2>25. x \in AllOf(Cont(n)) /\ Rec(Cont(n), x).size = 0
    BY <2>3, <2>10, <2>15
  <2> QED BY <2>14, <2>16, <2>24, <2>25 DEF Created
<1> QED BY <1>7, <1>8

\* file_create makes an empty file or changes no file.
LEMMA file_create_Good ==
  ASSUME NEW m, Good(m, {}), NEW path \in Paths, NEW type \in {FTYPE_REG, FTYPE_DIR}, NEW n, n = file_create(m, path, type)
  PROVE  Good(n, {}) /\ (Frame(m, n, {}) \/ \E x : Created(m, n, x))
<1>1. PICK w : w = walk_path(m, path)
  OBVIOUS
<1>2. Walks(m, w)
  BY <1>1, walk_path_Good
<1>3. Good(w, {}) /\ Frame(m, w, {}) /\ IsPar(w, w.par) /\ w.r \in Int
  BY <1>2 DEF Walks
<1>4. PICK name : name = path[Len(path)]
  OBVIOUS
<1>5. n = create_at(w, name, type)
  BY <1>1, <1>4 DEF file_create
<1>6. CASE w.r = 0
  <2>1. PICK e \in Int : e = -E_FILE_EXISTS
    BY Errors
  <2>2. n = Return(w, e)
    BY <1>5, <1>6, <2>1 DEF create_at
  <2>3. Good(n, {}) /\ Quiet(w, n)
    BY <1>3, <2>2, ReturnGood
  <2>4. Frame(w, n, {})
    BY <1>3, <2>3, QuietFrame
  <2>5. Frame(m, n, {})
    BY ONLY <1>3, <2>3, <2>4, Good(m, {}), FrameTrans
  <2> QED BY <2>3, <2>5
<1>7. CASE w.r # 0 /\ (w.r # -E_NOT_FOUND \/ w.par = NIL)
  <2>1. n = w
    BY <1>5, <1>7 DEF create_at
  <2> QED BY <1>3, <2>1
<1>8. CASE w.r # 0 /\ ~(w.r # -E_NOT_FOUND \/ w.par = NIL)
  <2>1. n = new_file(w, name, type)
    BY <1>5, <1>8 DEF create_at
  <2>2. path # <<>>
    <3> SUFFICES ASSUME path = <<>> PROVE FALSE
      OBVIOUS
    <3>1. Len(path) = 0
      OBVIOUS
    <3>2. w = [m EXCEPT !.r = 0, !.loc = ROOT, !.par = NIL]
      <4>1. PICK b : b = Len(path) + 1
        OBVIOUS
      <4>2. ~(1 < b)
        BY <3>1, <4>1
      <4> QED BY <1>1, <4>1, <4>2, UnfoldWalk
    <3>3. w.r = 0
      <4>1. PICK z : z = 0
        OBVIOUS
      <4>2. PICK l : l = ROOT
        OBVIOUS
      <4>3. w = [m EXCEPT !.r = z, !.loc = l, !.par = NIL] /\ m \in MemRecs
        BY <3>2, <4>1, <4>2 DEF Good
      <4>4. w.r = z
        BY <4>3 DEF MemRecs
      <4> QED BY <4>1, <4>4
    <3> QED BY <1>8, <3>3
  <2>3. path \in Seq(Names)
    BY ProgramAssumption
  <2>4. name \in Names
    BY <1>4, <2>2, <2>3
  <2>5. w.par # NIL
    BY <1>8
  <2> QED BY ONLY <1>3, <2>1, <2>4, <2>5, Good(m, {}), type \in {FTYPE_REG, FTYPE_DIR}, new_file_Good
<1> QED BY <1>6, <1>7, <1>8

\* Changes of the files in E, one after the other.
LEMMA NearTrans ==
  ASSUME NEW m, NEW a, NEW n, NEW E, Near(m, a, E), Near(a, n, E)
  PROVE  Near(m, n, E)
<1>1. Loads(m, n)
  BY DEF Near, Loads
<1>2. AllOf(Cont(m)) \subseteq AllOf(Cont(n))
  BY DEF Near
<1>3. ASSUME NEW k \in AllOf(Cont(m)) \ E, HasName(Cont(m), k)
      PROVE  /\ HasName(Cont(n), k)
             /\ IsDir(Cont(n), k) <=> IsDir(Cont(m), k)
             /\ ~IsDir(Cont(m), k) => SameFile(Cont(m), Cont(n), k)
  <2>1. /\ k \in AllOf(Cont(a)) \ E /\ HasName(Cont(a), k) /\ (IsDir(Cont(a), k) <=> IsDir(Cont(m), k))
        /\ ~IsDir(Cont(m), k) => SameFile(Cont(m), Cont(a), k)
    BY <1>3 DEF Near
  <2>2. /\ HasName(Cont(n), k) /\ (IsDir(Cont(n), k) <=> IsDir(Cont(a), k))
        /\ ~IsDir(Cont(a), k) => SameFile(Cont(a), Cont(n), k)
    BY <2>1 DEF Near
  <2>3. ~IsDir(Cont(m), k) => SameFile(Cont(m), Cont(n), k)
    BY <2>1, <2>2 DEF SameFile
  <2> QED BY <2>1, <2>2, <2>3
<1>4. \A k \in AllOf(Cont(n)) \ E : HasName(Cont(n), k) => k \in AllOf(Cont(m)) /\ HasName(Cont(m), k)
  BY DEF Near
<1>5. ASSUME NEW k \in AllOf(Cont(m)), HasName(Cont(m), k), ~IsDir(Cont(m), k), k \notin E, NEW j \in Idx,
             Num(Cont(m), k, j) \in n.unsaved
      PROVE  Num(Cont(m), k, j) \in m.unsaved
  <2>1. k \in AllOf(Cont(a)) /\ HasName(Cont(a), k) /\ ~IsDir(Cont(a), k) /\ SameFile(Cont(m), Cont(a), k)
    BY <1>5 DEF Near
  <2>2. Num(Cont(a), k, j) = Num(Cont(m), k, j)
    BY <2>1 DEF SameFile
  <2>3. Num(Cont(m), k, j) \in a.unsaved
    BY <1>5, <2>1, <2>2 DEF Near, Saved
  <2> QED BY <1>5, <2>3 DEF Near, Saved
<1>6. Saved(m, n, E)
  BY <1>5 DEF Saved
<1> QED BY <1>1, <1>2, <1>3, <1>4, <1>6 DEF Near

\* They are changes of the files in a larger set.
LEMMA NearMore ==
  ASSUME NEW m, NEW n, NEW E, NEW F, E \subseteq F, Near(m, n, E)
  PROVE  Near(m, n, F)
BY DEF Near, Saved

\* Only the struct File of x is written.
LEMMA LabelledNear ==
  ASSUME NEW m, Good(m, {}), NEW x \in AllOf(Cont(m)), NEW n, Loads(m, n), n.unsaved \subseteq m.unsaved,
         NEW f, Labelled(Cont(m), Cont(n), x, f)
  PROVE  Near(m, n, {x})
<1>1. Sound(Cont(m), {})
  BY DEF Good
<1>2. /\ AllOf(Cont(n)) = AllOf(Cont(m)) /\ StoredAt(Cont(m), Cont(n), x)
      /\ \A k \in AllOf(Cont(m)) : SameAt(Cont(m), Cont(n), k) /\ Rec(Cont(n), k) = IF k = x THEN f ELSE Rec(Cont(m), k)
  BY DEF Labelled
<1>3. ASSUME NEW k \in AllOf(Cont(m)), k # x, ~IsDir(Cont(m), k) PROVE SameFile(Cont(m), Cont(n), k)
  <2>1. Rec(Cont(n), k).size = Rec(Cont(m), k).size
    BY <1>2, <1>3
  <2>2. \A j \in Idx : Num(Cont(n), k, j) = Num(Cont(m), k, j)
    BY <1>2, HeldIs DEF SameAt
  <2> QED BY <1>1, <1>2, <1>3, <2>1, <2>2, FileKept
<1>4. ASSUME NEW k \in AllOf(Cont(m)) \ {x}
      PROVE  (HasName(Cont(n), k) <=> HasName(Cont(m), k)) /\ (IsDir(Cont(n), k) <=> IsDir(Cont(m), k))
  <2>1. Rec(Cont(n), k) = Rec(Cont(m), k)
    BY <1>2
  <2> QED BY <2>1 DEF HasName, IsDir
<1>5. Saved(m, n, {x})
  BY DEF Saved
<1> QED BY <1>2, <1>3, <1>4, <1>5 DEF Near

\* A file that is no directory loses its name.
Removed(m, n, x) == /\ Near(m, n, {x}) /\ x \in AllOf(Cont(m)) /\ HasName(Cont(m), x) /\ ~IsDir(Cont(m), x)
                    /\ ~HasName(Cont(n), x)

\* file_remove takes a blanked file from its directory, or changes no file.
LEMMA file_remove_Good ==
  ASSUME NEW m, Good(m, {}), NEW path \in Paths, NEW w, w = walk_path(m, path),
         w.r = 0 => ~IsDir(Cont(w), w.loc) /\ BlankFrom(Cont(w), w.loc, 0),
         NEW n, n = file_remove(m, path)
  PROVE  Good(n, {}) /\ (Frame(m, n, {}) \/ (w.r = 0 /\ Removed(m, n, w.loc)))
<1>1. Walks(m, w)
  BY walk_path_Good
<1>2. Good(w, {}) /\ Frame(m, w, {}) /\ IsPar(w, w.par) /\ w.r \in Int
  BY <1>1 DEF Walks
<1>3. PICK l : l = w.loc
  OBVIOUS
<1>4. PICK d : d = w.par
  OBVIOUS
<1>5. PICK z \in Nat : z = 0
  OBVIOUS
<1>6. CASE w.r < 0
  <2>1. n = w
    BY <1>6 DEF file_remove, Then
  <2> QED BY <1>2, <2>1
<1>7. CASE ~(w.r < 0)
  <2>1. w.r = 0 /\ Here(w, l) /\ HasName(Cont(w), l) /\ ~IsDir(Cont(w), l) /\ BlankFrom(Cont(w), l, z)
    BY <1>1, <1>3, <1>5, <1>7 DEF Walks, Known
  <2>2. PICK t : t = file_truncate(w, l, z)
    OBVIOUS
  <2>3. Resized(w, t, l, z, {l}) /\ (z = 0 => Empty(Cont(t), l))
    <3>1. new_nblocks(z) = z
      BY <1>5 DEF new_nblocks
    <3>2. BlankFrom(Cont(w), l, new_nblocks(z))
      BY <2>1, <3>1
    <3>3. Rec(Cont(w), l).size \in Nat
      BY <1>2, <2>1, HereFile, RecType, RecFields DEF Good, Sound
    <3>4. z <= Rec(Cont(w), l).size
      BY <1>5, <3>3
    <3> QED BY ONLY <1>2, <2>1, <2>2, <3>2, <3>4, z \in Nat, file_truncate_Good
  <2>4. /\ Good(t, {}) /\ Frame(w, t, {l}) /\ Here(t, l) /\ Empty(Cont(t), l) /\ ~IsDir(Cont(t), l)
    BY <1>5, <2>1, <2>3 DEF Resized
  <2>5. File(t, l) = Rec(Cont(t), l) /\ l \in Locs /\ Sound(Cont(t), {}) /\ l \in AllOf(Cont(t))
    BY <2>4, HereFile DEF Good, Here
  <2>6. PICK e : e = ""
    OBVIOUS
  <2>7. PICK f : f = [Rec(Cont(t), l) EXCEPT !.name = e]
    OBVIOUS
  <2>8. PICK u : u = SetFile(t, l, f)
    OBVIOUS
  <2>9. PICK v : v = file_close(u, l, d)
    OBVIOUS
  <2>10. n = Return(v, z)
    BY <1>3, <1>4, <1>5, <1>7, <2>2, <2>5, <2>6, <2>7, <2>8, <2>9 DEF file_remove, Then
  <2>11. Rec(Cont(t), l) \in FileRecs
    BY <2>5, RecType DEF Sound
  <2>12. /\ f \in FileRecs /\ f.name = e /\ f.type = Rec(Cont(t), l).type /\ f.size = Rec(Cont(t), l).size
         /\ f.ptr = Rec(Cont(t), l).ptr /\ f.ind = Rec(Cont(t), l).ind
    <3>1. e \in Names \cup {"", "junk", "/"}
      BY <2>6
    <3> QED BY <2>7, <2>11, <3>1 DEF FileRecs
  <2>13. f.size = 0 /\ \A i \in Held : At(Cont(t), l, i) = 0
    BY <2>4, <2>12 DEF Empty
  <2>14. f.type \in {FTYPE_REG, FTYPE_DIR}
    BY <2>5, <2>12 DEF Sound, Kinds, Kind
  <2>15. l # ROOT
    BY <2>4, <2>5 DEF Sound, Boot
  <2>16. Fits(Cont(t), l, f)
    <3>1. f.name \in Names \cup {""}
      BY <2>6, <2>12
    <3>2. Whole(f.size)
      BY <2>13, Numbers DEF Whole
    <3> QED BY ONLY <2>12, <2>4, <2>13, <2>14, <2>15, <3>1, <3>2 DEF Fits
  <2>17. /\ Good(u, {}) /\ Labelled(Cont(t), Cont(u), l, f) /\ Loads(t, u) /\ u.unsaved \subseteq t.unsaved
         /\ u.loc = t.loc /\ u.par = t.par /\ u.r = t.r /\ u.r \in Int /\ Here(u, l)
    BY ONLY <2>4, <2>8, <2>16, SetFileGood
  <2>18. d = NIL \/ Here(u, d)
    <3> SUFFICES ASSUME d # NIL PROVE Here(u, d)
      OBVIOUS
    <3>1. Here(w, d)
      BY <1>2, <1>4 DEF IsPar, Known
    <3>2. Here(t, d)
      BY ONLY <2>4, <3>1, HereKept
    <3>3. d[1] \in Blocks
      BY <3>2, AllIn, PlaceOf DEF Here
    <3> QED BY <2>17, <3>2, <3>3 DEF Here, Labelled, Loads
  <2>19. Calm(u, v)
    BY <2>9, <2>17, <2>18, file_close_Calm
  <2>20. Good(n, {}) /\ Quiet(u, n)
    <3>1. Good(v, {}) /\ Quiet(u, v)
      BY <2>19 DEF Calm
    <3>2. Good(n, {}) /\ Quiet(v, n)
      BY <2>10, <3>1, ReturnGood
    <3> QED BY <3>1, <3>2, QuietTrans
  <2>21. Near(m, w, {l})
    BY <1>2, FrameNear, NearMore
  <2>22. Near(w, t, {l})
    BY <2>4, FrameNear
  <2>23. Near(t, u, {l})
    BY ONLY <2>4, <2>5, <2>17, LabelledNear
  <2>24. Near(u, n, {l})
    BY <2>17, <2>20, QuietFrame, FrameNear
  <2>25. Near(m, n, {l})
    BY ONLY <2>21, <2>22, <2>23, <2>24, NearTrans
  <2>26. l \in AllOf(Cont(m)) /\ HasName(Cont(m), l) /\ ~IsDir(Cont(m), l)
    <3>1. l \in AllOf(Cont(w))
      BY <2>1 DEF Here
    <3> QED BY <1>2, <2>1, <3>1, FrameNear
  <2>27. ~HasName(Cont(n), l)
    <3>1. Rec(Cont(u), l) = f
      BY <2>5, <2>17 DEF Labelled
    <3> QED BY <2>6, <2>12, <2>20, <3>1 DEF HasName, Quiet
  <2> QED BY <1>3, <2>1, <2>20, <2>25, <2>26, <2>27 DEF Removed
<1> QED BY <1>6, <1>7

-----------------------------------------------------------------------------
(***************************************************************************)
(* The state between requests.                                             *)
(***************************************************************************)
Disk == Cont(Memory(Blocks))

\* The memory of a request is the state.
LEMMA MemoryIs ==
  \A mem : /\ Memory(mem).cache = cache /\ Memory(mem).unsaved = unsaved /\ Memory(mem).dirty = dirty
           /\ Memory(mem).panic = panic /\ Memory(mem).r = 0 /\ Memory(mem).loc = ROOT /\ Memory(mem).par = NIL
           /\ Memory(mem).mem = mem /\ Cont(Memory(mem)) = Disk
BY DEF Memory, Cont, Disk

\* What the properties read of the disk is what the lemmas do.
LEMMA ContentIs == \A b : Content(b) = In(Disk, b)
BY DEF Content, In, Disk, Cont, Memory

\* The struct File that the properties read.
LEMMA FileAtIs == \A l \in Locs : FileAt(l) = Rec(Disk, l)
<1>1. ASSUME NEW l \in Locs PROVE FileAt(l) = Rec(Disk, l)
  <2>1. l[1] \in Blocks
    BY PlaceOf
  <2> QED BY <2>1, ContentIs DEF FileAt, Rec, In
<1> QED BY <1>1

\* The numbers that the properties read.
LEMMA BlockOfIs == \A l \in Locs : \A i : BlockOf(l, i) = Num(Disk, l, i)
BY FileAtIs, ContentIs DEF BlockOf, Num

-----------------------------------------------------------------------------
(***************************************************************************)
(* All files: what the recursive function `closure' computes is the least  *)
(* set with the slots of its directories.                                  *)
(***************************************************************************)
KidsOf(c, D) == {x \in Locs : \E l \in D : \E i \in Idx : Num(c, l, i) = x[1]}
DirsOf(c, D) == {ROOT} \cup {l \in D : IsDir(c, l)}
Deeper(c, D)   == KidsOf(c, DirsOf(c, D))
Least(c, D)  == {l \in Locs : \A E \in SUBSET Locs : D \subseteq E /\ Deeper(c, E) \subseteq E => l \in E}

\* One round of the search for all files.
LEMMA BelowIs == \A D \in SUBSET Locs : Below(D) = Deeper(Disk, D)
<1>1. ASSUME NEW D \in SUBSET Locs PROVE SlotsOf(D) = KidsOf(Disk, D)
  <2>1. ASSUME NEW x \in SlotsOf(D) PROVE x \in KidsOf(Disk, D)
    <3>1. x \in Locs /\ x \in {BlockOf(y[1], y[2]) : y \in D \X (0 .. NINDIRECT - 1)} \X Slots
      BY DEF SlotsOf
    <3>2. PICK y \in D \X (0 .. NINDIRECT - 1) : x[1] = BlockOf(y[1], y[2])
      BY <3>1
    <3>3. PICK l \in D, i \in Idx : y = <<l, i>>
      BY DEF Idx
    <3>4. Num(Disk, l, i) = x[1]
      BY <3>2, <3>3, BlockOfIs
    <3> QED BY <3>1, <3>4 DEF KidsOf
  <2>2. ASSUME NEW x \in KidsOf(Disk, D) PROVE x \in SlotsOf(D)
    <3>1. x \in Locs /\ \E l \in D : \E i \in Idx : Num(Disk, l, i) = x[1]
      BY DEF KidsOf
    <3>2. PICK l \in D, i \in Idx : Num(Disk, l, i) = x[1]
      BY <3>1
    <3>3. PICK y : y = <<l, i>>
      OBVIOUS
    <3>4. y \in D \X (0 .. NINDIRECT - 1) /\ y[1] = l /\ y[2] = i
      BY <3>3 DEF Idx
    <3>5. x[1] = BlockOf(y[1], y[2])
      BY <3>2, <3>4, BlockOfIs
    <3>6. x[1] \in {BlockOf(z[1], z[2]) : z \in D \X (0 .. NINDIRECT - 1)}
      BY <3>4, <3>5
    <3>7. x = <<x[1], x[2]>> /\ x[2] \in Slots
      BY <3>1, PlaceOf
    <3> QED BY <3>1, <3>6, <3>7 DEF SlotsOf
  <2> QED BY <2>1, <2>2
<1>2. ASSUME NEW D \in SUBSET Locs PROVE Below(D) = Deeper(Disk, D)
  <2>1. {l \in D : FileAt(l).type = FTYPE_DIR} = {l \in D : IsDir(Disk, l)}
    BY FileAtIs DEF IsDir
  <2>2. DirsOf(Disk, D) \in SUBSET Locs
    BY BlockSets DEF DirsOf
  <2> QED BY <1>1, <2>1, <2>2 DEF Below, Deeper, DirsOf
<1> QED BY <1>2

\* More directories have more slots.
LEMMA DeeperIs ==
  ASSUME NEW c, NEW D \in SUBSET Locs, NEW E \in SUBSET Locs, D \subseteq E
  PROVE  Deeper(c, D) \subseteq Deeper(c, E) /\ Deeper(c, D) \subseteq Locs
BY DEF Deeper, KidsOf, DirsOf

\* The least set that has the slots of its directories.
LEMMA LeastIs ==
  ASSUME NEW c, NEW D \in SUBSET Locs
  PROVE  /\ D \subseteq Least(c, D) /\ Least(c, D) \in SUBSET Locs
         /\ Deeper(c, Least(c, D)) \subseteq Least(c, D)
         /\ \A E \in SUBSET Locs : D \subseteq E /\ Deeper(c, E) \subseteq E => Least(c, D) \subseteq E
<1>1. D \subseteq Least(c, D) /\ Least(c, D) \in SUBSET Locs
  BY DEF Least
<1>2. \A E \in SUBSET Locs : D \subseteq E /\ Deeper(c, E) \subseteq E => Least(c, D) \subseteq E
  BY DEF Least
<1>3. ASSUME NEW x \in Deeper(c, Least(c, D)) PROVE x \in Least(c, D)
  <2>1. ASSUME NEW E \in SUBSET Locs, D \subseteq E, Deeper(c, E) \subseteq E PROVE x \in E
    <3>1. Least(c, D) \subseteq E
      BY <1>2, <2>1
    <3>2. Deeper(c, Least(c, D)) \subseteq Deeper(c, E)
      BY <1>1, <3>1, DeeperIs
    <3> QED BY <2>1, <3>2
  <2>2. x \in Locs
    BY <1>1, DeeperIs
  <2> QED BY <2>1, <2>2 DEF Least
<1> QED BY <1>1, <1>2, <1>3

\* A set is the least one, or the search goes on with more.
LEMMA LeastStep ==
  ASSUME NEW c, NEW D \in SUBSET Locs
  PROVE  /\ Deeper(c, D) \ D = {} => Least(c, D) = D
         /\ Least(c, D \cup (Deeper(c, D) \ D)) = Least(c, D)
         /\ D \cup (Deeper(c, D) \ D) \in SUBSET Locs
<1>1. PICK M : M = D \cup (Deeper(c, D) \ D)
  OBVIOUS
<1>2. M \in SUBSET Locs /\ D \subseteq M /\ Deeper(c, D) \subseteq M
  BY <1>1, DeeperIs
<1>3. ASSUME Deeper(c, D) \ D = {} PROVE Least(c, D) = D
  BY <1>3, LeastIs
<1>4. Least(c, D) \subseteq Least(c, M)
  <2>1. D \subseteq Least(c, M) /\ Least(c, M) \in SUBSET Locs /\ Deeper(c, Least(c, M)) \subseteq Least(c, M)
    BY <1>2, LeastIs
  <2> QED BY <2>1, LeastIs
<1>5. Least(c, M) \subseteq Least(c, D)
  <2>1. D \subseteq Least(c, D) /\ Least(c, D) \in SUBSET Locs /\ Deeper(c, Least(c, D)) \subseteq Least(c, D)
    BY LeastIs
  <2>2. Deeper(c, D) \subseteq Deeper(c, Least(c, D))
    BY <2>1, DeeperIs
  <2>3. M \subseteq Least(c, D)
    BY <1>1, <2>1, <2>2
  <2> QED BY <1>2, <2>1, <2>3, LeastIs
<1> QED BY <1>1, <1>2, <1>3, <1>4, <1>5

\* There are finitely many places for files.
LEMMA LocsFinite == IsFiniteSet(Locs)
<1>1. IsFiniteSet(BITMAP + 1 .. NBLOCKS - 1) /\ IsFiniteSet(Slots)
  BY FS_Interval, Numbers DEF Slots, BITMAP
<1>2. IsFiniteSet((BITMAP + 1 .. NBLOCKS - 1) \X Slots)
  BY <1>1, FS_Product
<1>3. IsFiniteSet({<<SUPER, 1>>})
  BY FS_Singleton
<1> QED BY <1>2, <1>3, FS_Union DEF Locs

\* How the recursion goes on.
Search(f, D) == IF Below(D) \ D = {} THEN D ELSE f[D \cup (Below(D) \ D)]

\* The recursive function that searches for all files exists.
LEMMA closureIs == closure = [D \in SUBSET Locs |-> Search(closure, D)]
<1> DEFINE g == [D \in SUBSET Locs |-> Least(Disk, D)]
<1>1. ASSUME NEW D \in SUBSET Locs PROVE Least(Disk, D) = Search(g, D)
  <2>1. PICK M : M = D \cup (Deeper(Disk, D) \ D)
    OBVIOUS
  <2>2. /\ Deeper(Disk, D) \ D = {} => Least(Disk, D) = D
        /\ Least(Disk, M) = Least(Disk, D) /\ M \in SUBSET Locs
    BY <2>1, LeastStep
  <2>3. g[M] = Least(Disk, M)
    BY <2>2
  <2>4. Below(D) = Deeper(Disk, D)
    BY BelowIs
  <2> HIDE DEF g
  <2> QED BY <2>1, <2>2, <2>3, <2>4 DEF Search
<1>2. g = [D \in SUBSET Locs |-> Search(g, D)]
  BY <1>1
<1>3. \E f : f = [D \in SUBSET Locs |-> Search(f, D)]
  <2> HIDE DEF g
  <2> QED BY <1>2
<1>4. closure = CHOOSE f : f = [D \in SUBSET Locs |-> Search(f, D)]
  BY DEF closure, Search
<1> QED BY <1>3, <1>4

\* The search ends because the set grows.
LEMMA closureLeast == \A D \in SUBSET Locs : closure[D] = Least(Disk, D)
<1>1. \A D \in SUBSET Locs : closure[D] = Search(closure, D)
  <2> DEFINE F(D) == Search(closure, D)
  <2>1. closure = [D \in SUBSET Locs |-> F(D)]
    BY closureIs
  <2> HIDE DEF F
  <2>2. \A D \in SUBSET Locs : closure[D] = F(D)
    BY <2>1
  <2> QED BY <2>2 DEF F
<1> DEFINE P == {n \in Nat : \A D \in SUBSET Locs : Cardinality(Locs \ D) < n => closure[D] = Least(Disk, D)}
<1>2. \A D \in SUBSET Locs : IsFiniteSet(Locs \ D) /\ Cardinality(Locs \ D) \in Nat
  BY LocsFinite, FS_Difference, FS_CardinalityType
<1>3. 0 \in P
  BY <1>2
<1>4. ASSUME NEW n \in Nat, n \in P PROVE n + 1 \in P
  <2>1. ASSUME NEW D \in SUBSET Locs, Cardinality(Locs \ D) < n + 1 PROVE closure[D] = Least(Disk, D)
    <3>1. PICK M : M = D \cup (Deeper(Disk, D) \ D)
      OBVIOUS
    <3>2. /\ Deeper(Disk, D) \ D = {} => Least(Disk, D) = D
          /\ Least(Disk, M) = Least(Disk, D) /\ M \in SUBSET Locs
      BY <3>1, LeastStep
    <3>3. Below(D) = Deeper(Disk, D)
      BY BelowIs
    <3>4. CASE Deeper(Disk, D) \ D = {}
      BY <1>1, <3>2, <3>3, <3>4 DEF Search
    <3>5. CASE Deeper(Disk, D) \ D # {}
      <4>1. closure[D] = closure[M]
        BY <1>1, <3>1, <3>3, <3>5 DEF Search
      <4>2. Locs \ M \subseteq Locs \ D /\ Locs \ M # Locs \ D
        <5>1. PICK x : x \in Deeper(Disk, D) /\ x \notin D
          BY <3>5
        <5>2. x \in M /\ x \in Locs
          BY <3>1, <3>2, <5>1
        <5> QED BY <3>1, <5>1, <5>2
      <4>3. PICK S : S = Locs \ M
        OBVIOUS
      <4>4. PICK T : T = Locs \ D
        OBVIOUS
      <4>5. IsFiniteSet(T) /\ Cardinality(T) \in Nat /\ Cardinality(S) \in Nat /\ S \subseteq T /\ S # T
        BY <1>2, <3>2, <4>2, <4>3, <4>4
      <4>6. Cardinality(S) < Cardinality(T)
        BY <4>5, FS_Subset
      <4>7. Cardinality(S) < n
        BY <2>1, <4>4, <4>5, <4>6
      <4>8. closure[M] = Least(Disk, M)
        BY <1>4, <3>2, <4>3, <4>7
      <4> QED BY <3>2, <4>1, <4>8
    <3> QED BY <3>4, <3>5
  <2> QED BY <2>1
<1>5. P = Nat
  <2>1. P \in SUBSET Nat
    OBVIOUS
  <2> HIDE DEF P
  <2> QED BY <1>3, <1>4, <2>1, LeastNat
<1>6. ASSUME NEW D \in SUBSET Locs PROVE closure[D] = Least(Disk, D)
  <2>1. PICK n : n = Cardinality(Locs \ D)
    OBVIOUS
  <2>2. n \in Nat /\ n + 1 \in Nat /\ n < n + 1
    <3>1. n \in Nat
      BY <1>2, <2>1
    <3> QED BY ONLY <3>1
  <2>3. n + 1 \in P
    BY <1>5, <2>2
  <2> QED BY <2>1, <2>2, <2>3
<1> QED BY <1>6

\* All files, as the properties and as the invariant name them.
LEMMA FilesAre == Boot(Disk) => {ROOT} \cup Files = AllOf(Disk)
<1> SUFFICES ASSUME Boot(Disk) PROVE {ROOT} \cup Files = AllOf(Disk)
  OBVIOUS
<1>1. Files = Least(Disk, {})
  <2>1. {} \in SUBSET Locs
    OBVIOUS
  <2> QED BY <2>1, closureLeast DEF Files
<1>2. PICK L : L = Least(Disk, {})
  OBVIOUS
<1>3. L \in SUBSET Locs /\ Deeper(Disk, L) \subseteq L /\ \A E \in SUBSET Locs : Deeper(Disk, E) \subseteq E => L \subseteq E
  <2>1. {} \in SUBSET Locs /\ \A E : {} \subseteq E
    OBVIOUS
  <2> QED BY <1>2, <2>1, LeastIs
<1>4. L \subseteq AllOf(Disk)
  <2>1. ASSUME NEW x \in Deeper(Disk, AllOf(Disk)) PROVE x \in AllOf(Disk)
    <3>1. x \in Locs /\ \E l \in DirsOf(Disk, AllOf(Disk)) : \E i \in Idx : Num(Disk, l, i) = x[1]
      BY DEF Deeper, KidsOf
    <3>2. PICK l \in DirsOf(Disk, AllOf(Disk)), i \in Idx : Num(Disk, l, i) = x[1]
      BY <3>1
    <3>3. l \in AllOf(Disk)
      BY AllIn DEF DirsOf
    <3>4. IsDir(Disk, l)
      BY DEF DirsOf, Boot
    <3> QED BY <3>1, <3>2, <3>3, <3>4, SlotIsFile
  <2>2. AllOf(Disk) \in SUBSET Locs
    BY AllIn
  <2> QED BY <1>3, <2>1, <2>2
<1>5. AllOf(Disk) \subseteq {ROOT} \cup L
  <2>1. {ROOT} \cup L \in SUBSET Locs
    BY <1>3, BlockSets
  <2>2. ASSUME NEW l \in {ROOT} \cup L, IsDir(Disk, l), NEW x \in Kids(Disk, l) PROVE x \in {ROOT} \cup L
    <3>1. x \in Locs /\ \E i \in Idx : Num(Disk, l, i) = x[1]
      BY DEF Kids
    <3>2. l \in DirsOf(Disk, L)
      BY <2>2 DEF DirsOf
    <3>3. x \in Deeper(Disk, L)
      BY <3>1, <3>2 DEF Deeper, KidsOf
    <3> QED BY <1>3, <3>3
  <2>3. Closed(Disk, {ROOT} \cup L)
    BY <2>2 DEF Closed
  <2> QED BY <2>1, <2>3, AllLeast
<1> QED BY <1>1, <1>2, <1>4, <1>5, AllIn

-----------------------------------------------------------------------------
(***************************************************************************)
(* The inductive invariant of the state.                                   *)
(***************************************************************************)
FdRecs == [dir : Locs \cup {NIL}, marked : Nat]

\* A file that is open has a name and is in the cache, and so is its directory; what is
\* not on disk of the blocks that close has passed will be written.
FdsOk(m, f) ==
  /\ f \in [DOMAIN f -> FdRecs]
  /\ \A l \in DOMAIN f :
       /\ Known(m, l) /\ IsPar(m, f[l].dir)
       /\ ~IsDir(Cont(m), l) => \A j \in Idx : j < f[l].marked /\ Num(Cont(m), l, j) \in m.unsaved =>
                                                 Num(Cont(m), l, j) \in m.dirty

\* What a file that is not open holds is on disk.
DataOk(m, f) ==
  \A l \in AllOf(Cont(m)) \ DOMAIN f : HasName(Cont(m), l) /\ ~IsDir(Cont(m), l) =>
    \A j \in Idx : Inside(Cont(m), l, j) => Num(Cont(m), l, j) \notin m.unsaved

IInv == Good(Memory(Blocks), {}) /\ FdsOk(Memory(Blocks), fds) /\ DataOk(Memory(Blocks), fds)

\* Which files a request may change: one that is open and not being closed, or one that
\* gets or loses its name.
Allowed(m, n, f, E) ==
  \A e \in E :
    \/ /\ e \in DOMAIN f /\ f[e].marked = 0 /\ ~IsDir(Cont(m), e)
       /\ e \in AllOf(Cont(n)) /\ HasName(Cont(n), e)
    \/ /\ e \notin DOMAIN f /\ ~(e \in AllOf(Cont(m)) /\ HasName(Cont(m), e) /\ IsDir(Cont(m), e))
       /\ HasName(Cont(n), e) => Rec(Cont(n), e).size = 0

\* A request that changes only files it may change keeps what holds of the open and the
\* closed files.
LEMMA Keeps ==
  ASSUME NEW m, Good(m, {}), NEW f, FdsOk(m, f), DataOk(m, f), NEW n, NEW E, Near(m, n, E), Allowed(m, n, f, E)
  PROVE  FdsOk(n, f) /\ DataOk(n, f)
<1>1. ASSUME NEW k, Known(m, k), k \notin E
      PROVE  Known(n, k) /\ (IsDir(Cont(n), k) <=> IsDir(Cont(m), k)) /\ (~IsDir(Cont(m), k) => SameFile(Cont(m), Cont(n), k))
  <2>1. k \in AllOf(Cont(m)) /\ HasName(Cont(m), k) /\ Mapped(m, k[1]) /\ k[1] \in Blocks
    BY <1>1, AllIn, PlaceOf DEF Known, Here
  <2>2. Mapped(n, k[1]) /\ k \in AllOf(Cont(n))
    BY <2>1 DEF Near, Loads
  <2> QED BY <1>1, <2>1, <2>2 DEF Near, Known, Here
<1>2. ASSUME NEW d, IsPar(m, d) PROVE IsPar(n, d)
  <2>1. CASE d = NIL
    BY <2>1 DEF IsPar
  <2>2. CASE d # NIL
    <3>1. Known(m, d) /\ IsDir(Cont(m), d)
      BY <1>2, <2>2 DEF IsPar
    <3>2. d \notin E
      BY <3>1 DEF Allowed, Known, Here
    <3> QED BY <1>1, <3>1, <3>2 DEF IsPar
  <2> QED BY <2>1, <2>2
<1>3. ASSUME NEW l \in DOMAIN f
      PROVE  /\ Known(n, l) /\ IsPar(n, f[l].dir)
             /\ ~IsDir(Cont(n), l) => \A j \in Idx : j < f[l].marked /\ Num(Cont(n), l, j) \in n.unsaved =>
                                                       Num(Cont(n), l, j) \in n.dirty
  <2>1. /\ Known(m, l) /\ IsPar(m, f[l].dir) /\ l \in AllOf(Cont(m)) /\ HasName(Cont(m), l)
        /\ ~IsDir(Cont(m), l) => \A j \in Idx : j < f[l].marked /\ Num(Cont(m), l, j) \in m.unsaved =>
                                                  Num(Cont(m), l, j) \in m.dirty
    BY DEF FdsOk, Known, Here
  <2>2. IsPar(n, f[l].dir)
    BY <1>2, <2>1
  <2>3. CASE l \notin E
    <3>1. Known(n, l) /\ (IsDir(Cont(n), l) <=> IsDir(Cont(m), l)) /\ (~IsDir(Cont(m), l) => SameFile(Cont(m), Cont(n), l))
      BY <1>1, <2>1, <2>3
    <3>2. ASSUME ~IsDir(Cont(n), l), NEW j \in Idx, j < f[l].marked, Num(Cont(n), l, j) \in n.unsaved
          PROVE  Num(Cont(n), l, j) \in n.dirty
      <4>1. ~IsDir(Cont(m), l) /\ Num(Cont(n), l, j) = Num(Cont(m), l, j)
        BY <3>1, <3>2 DEF SameFile
      <4>2. Num(Cont(m), l, j) \in m.unsaved
        BY <2>1, <2>3, <3>2, <4>1 DEF Near, Saved
      <4>3. Num(Cont(m), l, j) \in m.dirty
        BY <2>1, <3>2, <4>1, <4>2
      <4> QED BY <4>1, <4>3 DEF Near, Loads
    <3> QED BY <2>2, <3>1, <3>2
  <2>4. CASE l \in E
    <3>1. f[l].marked = 0 /\ l \in AllOf(Cont(n)) /\ HasName(Cont(n), l)
      BY <2>4 DEF Allowed
    <3>2. Mapped(m, l[1]) /\ l[1] \in Blocks
      BY <2>1, AllIn, PlaceOf DEF Known, Here
    <3>3. Known(n, l)
      BY <3>1, <3>2 DEF Known, Here, Near, Loads
    <3>4. \A j \in Idx : ~(j < 0)
      BY DEF Idx
    <3> QED BY <2>2, <3>1, <3>3, <3>4
  <2> QED BY <2>3, <2>4
<1>4. ASSUME NEW l \in AllOf(Cont(n)) \ DOMAIN f, HasName(Cont(n), l), ~IsDir(Cont(n), l), NEW j \in Idx, Inside(Cont(n), l, j)
      PROVE  Num(Cont(n), l, j) \notin n.unsaved
  <2>1. CASE l \notin E
    <3>1. l \in AllOf(Cont(m)) /\ HasName(Cont(m), l)
      BY <1>4, <2>1 DEF Near
    <3>2. ~IsDir(Cont(m), l) /\ SameFile(Cont(m), Cont(n), l)
      BY <1>4, <2>1, <3>1 DEF Near
    <3>3. Num(Cont(n), l, j) = Num(Cont(m), l, j) /\ Inside(Cont(m), l, j)
      BY <1>4, <3>2 DEF SameFile, Inside
    <3>4. Num(Cont(m), l, j) \notin m.unsaved
      BY <3>1, <3>2, <3>3 DEF DataOk
    <3> QED BY <2>1, <3>1, <3>2, <3>3, <3>4 DEF Near, Saved
  <2>2. CASE l \in E
    <3>1. Rec(Cont(n), l).size = 0
      BY <1>4, <2>2 DEF Allowed
    <3>2. j \in Nat /\ BY2BLK \in Nat
      BY Numbers DEF Idx
    <3>3. ~(j * BY2BLK < 0)
      BY <3>2
    <3> QED BY <1>4, <3>1, <3>3 DEF Inside
  <2> QED BY <2>1, <2>2
<1> QED BY <1>3, <1>4 DEF FdsOk, DataOk

\* No file is changed.
LEMMA KeepsAll ==
  ASSUME NEW m, Good(m, {}), NEW f, FdsOk(m, f), DataOk(m, f), NEW n, Frame(m, n, {})
  PROVE  FdsOk(n, f) /\ DataOk(n, f) /\ Near(m, n, {})
<1>1. Near(m, n, {}) /\ Allowed(m, n, f, {})
  BY FrameNear DEF Allowed
<1> QED BY ONLY <1>1, Good(m, {}), FdsOk(m, f), DataOk(m, f), Keeps

\* One file that is open is changed.
LEMMA KeepsOne ==
  ASSUME NEW m, Good(m, {}), NEW f, FdsOk(m, f), DataOk(m, f), NEW l \in DOMAIN f, f[l].marked = 0, ~IsDir(Cont(m), l),
         NEW n, Frame(m, n, {l})
  PROVE  FdsOk(n, f) /\ DataOk(n, f) /\ Near(m, n, {l})
<1>1. l \in AllOf(Cont(m)) /\ HasName(Cont(m), l)
  BY DEF FdsOk, Known, Here
<1>2. l \in AllOf(Cont(n)) /\ HasName(Cont(n), l)
  BY <1>1, FrameNear
<1>3. Near(m, n, {l})
  BY FrameNear
<1>4. Allowed(m, n, f, {l})
  BY <1>2 DEF Allowed
<1> QED BY ONLY <1>3, <1>4, Good(m, {}), FdsOk(m, f), DataOk(m, f), Keeps

\* Only the memory proper counts.
LEMMA SameState ==
  ASSUME NEW m, NEW m2 \in MemRecs, m2.cache = m.cache, m2.unsaved = m.unsaved, m2.dirty = m.dirty, m2.panic = m.panic,
         NEW f
  PROVE  /\ Good(m, {}) => Good(m2, {})
         /\ FdsOk(m, f) => FdsOk(m2, f)
         /\ DataOk(m, f) => DataOk(m2, f)
         /\ \A n, e : Near(m, n, {e}) => Near(m2, n, {e})
<1>1. Cont(m2) = Cont(m) /\ \A b : Mapped(m2, b) <=> Mapped(m, b)
  BY DEF Cont, Mapped
<1>2. Good(m, {}) => Good(m2, {})
  BY <1>1 DEF Good, InCache
<1>3. \A k : Known(m2, k) <=> Known(m, k)
  BY <1>1 DEF Known, Here
<1>4. \A d : IsPar(m2, d) <=> IsPar(m, d)
  BY <1>1, <1>3 DEF IsPar
<1>5. FdsOk(m, f) => FdsOk(m2, f)
  BY <1>1, <1>3, <1>4 DEF FdsOk
<1>6. DataOk(m, f) => DataOk(m2, f)
  BY <1>1 DEF DataOk
<1>7. ASSUME NEW n, NEW e, Near(m, n, {e}) PROVE Near(m2, n, {e})
  <2>1. Loads(m2, n)
    BY <1>1, <1>7 DEF Near, Loads
  <2>2. Saved(m2, n, {e})
    BY <1>1, <1>7 DEF Near, Saved
  <2> QED BY <1>1, <1>7, <2>1, <2>2 DEF Near
<1> QED BY <1>2, <1>5, <1>6, <1>7

\* The memory of a request.
Ready(m, f) == Good(m, {}) /\ FdsOk(m, f) /\ DataOk(m, f)

\* The invariant holds in the memory of a request, whichever pages there are for it.
LEMMA Begins ==
  ASSUME IInv, NEW mem \in SUBSET Blocks
  PROVE  Ready(Memory(mem), fds)
<1>1. PICK m : m = Memory(Blocks)
  OBVIOUS
<1>2. PICK m2 : m2 = Memory(mem)
  OBVIOUS
<1>3. m \in MemRecs
  BY <1>1 DEF IInv, Good
<1>4. m2 = [m EXCEPT !.mem = mem]
  BY <1>1, <1>2 DEF Memory
<1>5. m2 \in MemRecs /\ m2.cache = m.cache /\ m2.unsaved = m.unsaved /\ m2.dirty = m.dirty /\ m2.panic = m.panic
  BY <1>3, <1>4 DEF MemRecs
<1>6. Good(m, {}) /\ FdsOk(m, fds) /\ DataOk(m, fds)
  BY <1>1 DEF IInv
<1>7. Good(m2, {}) /\ FdsOk(m2, fds) /\ DataOk(m2, fds)
  BY ONLY <1>5, <1>6, SameState
<1> QED BY <1>2, <1>7 DEF Ready

\* A request has pages for some blocks.
LEMMA MemIs == \A mem \in Mem : mem \in SUBSET Blocks
BY DEF Mem

-----------------------------------------------------------------------------
(***************************************************************************)
(* What each request leaves: the memory n and the open files f2, with one  *)
(* file, e, that it may have changed.                                      *)
(***************************************************************************)
Serves(m, n, f2) == Ready(n, f2) /\ \E e : Near(m, n, {e})

\* A call that changes no file can serve a request.
LEMMA ServesFrame ==
  ASSUME NEW m, NEW f, Ready(m, f), NEW n, Good(n, {}), Frame(m, n, {})
  PROVE  Serves(m, n, f)
<1>1. FdsOk(n, f) /\ DataOk(n, f) /\ Near(m, n, {})
  BY KeepsAll DEF Ready
<1>2. Near(m, n, {ROOT})
  BY <1>1, NearMore
<1> QED BY <1>1, <1>2 DEF Serves, Ready

\* So can one that only writes.
LEMMA ServesCalm ==
  ASSUME NEW m, NEW f, Ready(m, f), NEW n, Calm(m, n)
  PROVE  Serves(m, n, f)
<1>1. Good(m, {}) /\ Good(n, {}) /\ Quiet(m, n)
  BY DEF Ready, Calm
<1>2. Frame(m, n, {})
  BY <1>1, QuietFrame
<1> QED BY <1>1, <1>2, ServesFrame

\* FSREQ_CREATE.
LEMMA create_Serves ==
  ASSUME NEW m, NEW f, Ready(m, f), NEW path \in Paths, NEW type \in {FTYPE_REG, FTYPE_DIR}, NEW n, n = file_create(m, path, type)
  PROVE  Serves(m, n, f)
<1>1. Good(n, {}) /\ (Frame(m, n, {}) \/ \E x : Created(m, n, x))
  BY file_create_Good DEF Ready
<1>2. CASE Frame(m, n, {})
  BY <1>1, <1>2, ServesFrame
<1>3. ASSUME NEW x, Created(m, n, x) PROVE Serves(m, n, f)
  <2>1. Near(m, n, {x}) /\ ~(x \in AllOf(Cont(m)) /\ HasName(Cont(m), x)) /\ Rec(Cont(n), x).size = 0
    BY <1>3 DEF Created
  <2>2. x \notin DOMAIN f
    BY <2>1 DEF Ready, FdsOk, Known, Here
  <2>3. Allowed(m, n, f, {x})
    BY <2>1, <2>2 DEF Allowed
  <2>4. Good(m, {}) /\ FdsOk(m, f) /\ DataOk(m, f)
    BY DEF Ready
  <2>5. FdsOk(n, f) /\ DataOk(n, f)
    BY ONLY <2>1, <2>3, <2>4, Keeps
  <2> QED BY <1>1, <2>1, <2>5 DEF Serves, Ready
<1> QED BY <1>1, <1>2, <1>3

\* FSREQ_REMOVE.
LEMMA remove_Serves ==
  ASSUME NEW m, NEW f, Ready(m, f), NEW path \in Paths, NEW w, w = walk_path(m, path),
         w.r = 0 => w.loc \notin DOMAIN f /\ ~IsDir(Cont(w), w.loc) /\ BlankFrom(Cont(w), w.loc, 0),
         NEW n, n = file_remove(m, path)
  PROVE  Serves(m, n, f)
<1>1. Good(n, {}) /\ (Frame(m, n, {}) \/ (w.r = 0 /\ Removed(m, n, w.loc)))
  BY file_remove_Good DEF Ready
<1>2. CASE Frame(m, n, {})
  BY <1>1, <1>2, ServesFrame
<1>3. CASE w.r = 0 /\ Removed(m, n, w.loc)
  <2>1. PICK x : x = w.loc
    OBVIOUS
  <2>2. Near(m, n, {x}) /\ ~IsDir(Cont(m), x) /\ ~HasName(Cont(n), x) /\ x \notin DOMAIN f
    BY <1>3, <2>1 DEF Removed
  <2>3. Allowed(m, n, f, {x})
    BY <2>2 DEF Allowed
  <2>4. Good(m, {}) /\ FdsOk(m, f) /\ DataOk(m, f)
    BY DEF Ready
  <2>5. FdsOk(n, f) /\ DataOk(n, f)
    BY ONLY <2>2, <2>3, <2>4, Keeps
  <2> QED BY <1>1, <2>2, <2>5 DEF Serves, Ready
<1> QED BY <1>1, <1>2, <1>3

\* A file that is found and not open yet is opened.
LEMMA open_Serves ==
  ASSUME NEW m, NEW f, Ready(m, f), NEW path \in Paths, NEW n, n = walk_path(m, path),
         NEW f2, f2 = IF n.r = 0 THEN [x \in DOMAIN f \cup {n.loc} |->
                                      IF x = n.loc THEN [dir |-> n.par, marked |-> 0] ELSE f[x]]
                       ELSE f
  PROVE  Serves(m, n, f2)
<1>1. Walks(m, n)
  BY walk_path_Good DEF Ready
<1>2. Serves(m, n, f)
  BY <1>1, ServesFrame DEF Walks
<1>3. CASE n.r # 0
  BY <1>2, <1>3
<1>4. CASE n.r = 0
  <2>1. PICK l : l = n.loc
    OBVIOUS
  <2>2. PICK r : r = [dir |-> n.par, marked |-> 0]
    OBVIOUS
  <2>3. f2 = [x \in (DOMAIN f) \cup {l} |-> IF x = l THEN r ELSE f[x]]
    BY <1>4, <2>1, <2>2
  <2>4. Known(n, l) /\ IsPar(n, n.par) /\ n.par \in Locs \cup {NIL}
    BY <1>1, <1>4, <2>1 DEF Walks, Good, MemRecs
  <2>5. r \in FdRecs /\ r.dir = n.par /\ r.marked = 0
    BY <2>2, <2>4 DEF FdRecs
  <2>6. FdsOk(n, f) /\ DataOk(n, f) /\ Good(n, {})
    BY <1>2 DEF Serves, Ready
  <2>7. f2 \in [DOMAIN f2 -> FdRecs]
    <3>1. \A x \in DOMAIN f : f[x] \in FdRecs
      BY <2>6 DEF FdsOk
    <3> DEFINE F(x) == IF x = l THEN r ELSE f[x]
    <3>2. \A x \in (DOMAIN f) \cup {l} : F(x) \in FdRecs
      BY <2>5, <3>1
    <3>3. f2 = [x \in (DOMAIN f) \cup {l} |-> F(x)]
      BY <2>3
    <3> HIDE DEF F
    <3> QED BY <3>2, <3>3
  <2>8. ASSUME NEW k \in DOMAIN f2
        PROVE  /\ Known(n, k) /\ IsPar(n, f2[k].dir)
               /\ ~IsDir(Cont(n), k) => \A j \in Idx : j < f2[k].marked /\ Num(Cont(n), k, j) \in n.unsaved =>
                                                         Num(Cont(n), k, j) \in n.dirty
    <3>1. CASE k # l
      <4>1. k \in DOMAIN f /\ f2[k] = f[k]
        BY <2>3, <3>1
      <4> QED BY <2>6, <3>1, <4>1 DEF FdsOk
    <3>2. CASE k = l
      <4>1. f2[k] = r
        BY <2>3, <3>2
      <4>2. \A j \in Idx : ~(j < 0)
        BY DEF Idx
      <4> QED BY <2>4, <2>5, <3>2, <4>1, <4>2
    <3> QED BY <3>1, <3>2
  <2>9. DataOk(n, f2)
    BY <2>3, <2>6 DEF DataOk
  <2> QED BY <1>2, <2>6, <2>7, <2>8, <2>9 DEF Serves, Ready, FdsOk
<1> QED BY <1>3, <1>4

\* A block of the file that is within its size.
LEMMA InsideRoom ==
  ASSUME NEW c, NEW X, Sound(c, X), NEW l \in AllOf(c), NEW i \in Nat, Inside(c, l, i), i \in Idx
  PROVE  Room(c, l, i)
<1>1. PICK s : s = Rec(c, l).size
  OBVIOUS
<1>2. s \in Nat /\ i * BY2BLK < s
  BY <1>1, AllIn, RecType, RecFields DEF Sound, Inside
<1>3. PICK d : d = s \div BY2BLK
  OBVIOUS
<1>4. i <= d /\ (BY2BLK * (s \div BY2BLK) = s => i < d)
  BY <1>2, <1>3, Numbers, InLast
<1>5. Low(i) = i
  BY HeldIs DEF Low
<1>6. IsDir(c, l) => i < d
  BY <1>1, <1>4 DEF Sound, Sized, Whole
<1> QED BY <1>1, <1>3, <1>4, <1>5, <1>6 DEF Room

\* FSREQ_MAP.
LEMMA map_Serves ==
  ASSUME NEW m, NEW f, Ready(m, f), NEW l \in DOMAIN f, f[l].marked = 0, NEW i \in Nat, Inside(Cont(m), l, i),
         NEW n, n = file_get_block(m, l, i)
  PROVE  Serves(m, n, f)
<1>1. Good(m, {}) /\ Here(m, l) /\ HasName(Cont(m), l) /\ FdsOk(m, f) /\ DataOk(m, f)
  BY DEF Ready, FdsOk, Known
<1>2. i \in Idx => Room(Cont(m), l, i)
  BY <1>1, InsideRoom DEF Good, Here
<1>3. CASE IsDir(Cont(m), l)
  <2>1. PICK E : E = {}
    OBVIOUS
  <2>2. IsDir(Cont(m), l) \/ l \in E
    BY <1>3
  <2>3. Grows(m, n, l, E) /\ (~(n.r < 0) => Found(m, n, l, i) /\ Mapped(n, n.r))
    BY ONLY <1>1, <1>2, <2>2, i \in Nat, n = file_get_block(m, l, i), get_grows
  <2>4. Good(n, {}) /\ Frame(m, n, {})
    BY <2>1, <2>3 DEF Grows
  <2> QED BY <2>4, ServesFrame
<1>4. CASE ~IsDir(Cont(m), l)
  <2>1. PICK E : E = {l}
    OBVIOUS
  <2>2. IsDir(Cont(m), l) \/ l \in E
    BY <2>1
  <2>3. Grows(m, n, l, E) /\ (~(n.r < 0) => Found(m, n, l, i) /\ Mapped(n, n.r))
    BY ONLY <1>1, <1>2, <2>2, i \in Nat, n = file_get_block(m, l, i), get_grows
  <2>4. Good(n, {}) /\ Frame(m, n, {l})
    BY <2>1, <2>3 DEF Grows
  <2>5. FdsOk(n, f) /\ DataOk(n, f) /\ Near(m, n, {l})
    BY ONLY <1>1, <1>4, <2>4, l \in DOMAIN f, f[l].marked = 0, KeepsOne
  <2> QED BY <2>4, <2>5 DEF Serves, Ready
<1> QED BY <1>3, <1>4

Written(m, b, x) == [m EXCEPT !.cache[b] = x, !.unsaved = @ \cup {b}]

\* What a store of a program changes of the memory.
LEMMA WriteMem ==
  ASSUME NEW m \in MemRecs, NEW b \in Blocks, NEW x \in Contents, NEW n, n = Written(m, b, x)
  PROVE  /\ n \in MemRecs /\ n.cache = [m.cache EXCEPT ![b] = x] /\ n.unsaved = m.unsaved \cup {b} /\ n.dirty = m.dirty
         /\ n.panic = m.panic
<1>1. PICK c : c = [m.cache EXCEPT ![b] = x]
  OBVIOUS
<1>2. PICK u : u = m.unsaved \cup {b}
  OBVIOUS
<1>3. n = [m EXCEPT !.cache = c, !.unsaved = u]
  BY <1>1, <1>2 DEF Written
<1>4. m.cache \in [Blocks -> Contents \cup {NIL}] /\ m.unsaved \subseteq Blocks
  BY MemFields
<1>5. c \in [Blocks -> Contents \cup {NIL}] /\ u \in SUBSET Blocks
  BY <1>1, <1>2, <1>4
<1>6. n \in MemRecs /\ n.cache = c /\ n.unsaved = u /\ n.dirty = m.dirty /\ n.panic = m.panic
  BY ONLY <1>3, <1>5, m \in MemRecs DEF MemRecs
<1> QED BY <1>1, <1>2, <1>6

\* A program writes into a block of its file.
LEMMA write_Serves ==
  ASSUME NEW m, NEW f, Ready(m, f), NEW l \in DOMAIN f, f[l].marked = 0, ~IsDir(Cont(m), l), NEW i \in Idx,
         NEW b, b = Num(Cont(m), l, i), b \in Blocks, Mapped(m, b), NEW w \in Nat,
         NEW n, n = Written(m, b, Word(w))
  PROVE  Serves(m, n, f)
<1>1. Good(m, {}) /\ Here(m, l) /\ HasName(Cont(m), l) /\ FdsOk(m, f) /\ DataOk(m, f) /\ l \in AllOf(Cont(m))
  BY DEF Ready, FdsOk, Known, Here
<1>2. m \in MemRecs /\ InCache(m) /\ Sound(Cont(m), {}) /\ ~m.panic
  BY <1>1 DEF Good
<1>3. b # 0
  BY BlockSets
<1>4. PICK x : x = Word(w)
  OBVIOUS
<1>5. x \in Contents /\ x # NIL
  BY <1>4, ContentKinds, NilAssumption
<1>6. /\ n \in MemRecs /\ n.cache = [m.cache EXCEPT ![b] = x] /\ n.unsaved = m.unsaved \cup {b} /\ n.dirty = m.dirty
      /\ n.panic = m.panic
  <2>1. n = Written(m, b, x)
    BY <1>4
  <2>2. m \in MemRecs /\ x \in Contents
    BY <1>2, <1>5
  <2> QED BY ONLY <2>1, <2>2, b \in Blocks, WriteMem
<1>7. m.cache \in [Blocks -> Contents \cup {NIL}] /\ m.unsaved \subseteq Blocks
  BY <1>2, MemFields
<1>8. n.cache[b] = x /\ \A y \in Blocks : y # b => n.cache[y] = m.cache[y]
  BY <1>6, <1>7
<1>9. \A y \in Blocks : Mapped(m, y) => Mapped(n, y)
  BY <1>5, <1>8 DEF Mapped
<1>10. PICK c : c = Cont(m)
  OBVIOUS
<1>11. PICK c2 : c2 = Cont(n)
  OBVIOUS
<1>12. c2 = Filled(c, b, w)
  BY <1>4, <1>5, <1>8, <1>10, <1>11 DEF Cont, Filled
<1>13. /\ Sound(c2, {}) /\ AllOf(c2) = AllOf(c) /\ b \in Data
       /\ \A k \in AllOf(c) : Rec(c2, k) = Rec(c, k) /\ SameAt(c, c2, k)
       /\ \A y \in Blocks \ {b} : c2[y] = c[y]
  <2>1. Sound(c, {}) /\ l \in AllOf(c) /\ ~IsDir(c, l) /\ b = Num(c, l, i)
    BY <1>1, <1>2, <1>10
  <2>2. PICK X : X = {}
    OBVIOUS
  <2>3. Sound(c, X)
    BY <2>1, <2>2
  <2>4. /\ Sound(c2, X) /\ AllOf(c2) = AllOf(c) /\ b \in Data
        /\ \A k \in AllOf(c) : Rec(c2, k) = Rec(c, k) /\ SameAt(c, c2, k)
        /\ \A y \in Blocks \ {b} : c2[y] = c[y]
    BY ONLY <1>3, <1>12, <2>1, <2>3, i \in Idx, w \in Nat, Overwrite
  <2> QED BY <2>2, <2>4
<1>14. Loads(m, n)
  <2>1. \A y \in n.unsaved \cup n.dirty : Mapped(n, y)
    BY <1>2, <1>6, <1>7, <1>9 DEF InCache, MemRecs
  <2> QED BY <1>6, <1>9, <2>1 DEF Loads
<1>15. Good(n, {})
  <2>1. InCache(n)
    BY <1>2, <1>9, <1>14, BlockSets DEF InCache, Loads
  <2> QED BY <1>2, <1>6, <1>11, <1>13, <2>1 DEF Good
<1>16. ASSUME NEW k \in AllOf(c), k # l, NEW j \in Idx PROVE Num(c2, k, j) = Num(c, k, j) /\ Num(c, k, j) # b
  <2>1. Num(c2, k, j) = Num(c, k, j)
    BY <1>13, HeldIs DEF SameAt
  <2>2. At(c, l, i) = b /\ At(c, k, j) = Num(c, k, j) /\ i \in Held /\ j \in Held
    BY <1>10, HeldIs
  <2>3. ASSUME Num(c, k, j) = b PROVE FALSE
    <3>1. At(c, l, i) # 0 /\ At(c, l, i) = At(c, k, j)
      BY <1>3, <2>2, <2>3
    <3>2. l = k
      BY <1>1, <1>2, <1>10, <2>2, <3>1, OnlyOnce DEF Sound
    <3> QED BY <1>16, <3>2
  <2> QED BY <2>1, <2>3
<1>17. Saved(m, n, {l})
  BY <1>6, <1>10, <1>16 DEF Saved
<1>18. ASSUME NEW k \in AllOf(c), k # l, ~IsDir(c, k) PROVE SameFile(c, c2, k)
  <2>1. ASSUME NEW j \in Idx, Num(c, k, j) # 0 PROVE c2[Num(c, k, j)] = c[Num(c, k, j)]
    <3>1. Num(c, k, j) \in Data
      BY <1>2, <1>10, <2>1, NumIn
    <3> QED BY <1>13, <1>16, <1>18, <3>1, DataIs
  <2>2. Rec(c2, k).size = Rec(c, k).size
    BY <1>13
  <2> QED BY <1>16, <1>18, <2>1, <2>2 DEF SameFile
<1>19. \A k \in AllOf(c) : (HasName(c2, k) <=> HasName(c, k)) /\ (IsDir(c2, k) <=> IsDir(c, k))
  BY <1>13 DEF HasName, IsDir
<1>20. Near(m, n, {l})
  BY <1>10, <1>11, <1>13, <1>14, <1>17, <1>18, <1>19 DEF Near
<1>21. Allowed(m, n, f, {l})
  BY <1>1, <1>10, <1>11, <1>13, <1>19 DEF Allowed
<1>22. FdsOk(n, f) /\ DataOk(n, f)
  BY ONLY <1>1, <1>20, <1>21, Keeps
<1> QED BY <1>15, <1>20, <1>22 DEF Serves, Ready

\* FSREQ_SET_SIZE.
LEMMA set_size_Serves ==
  ASSUME NEW m, NEW f, Ready(m, f), NEW l \in DOMAIN f, f[l].marked = 0, ~IsDir(Cont(m), l), NEW s \in Nat,
         s < Rec(Cont(m), l).size => BlankFrom(Cont(m), l, new_nblocks(s)),
         NEW n, n = file_set_size(m, l, f[l].dir, s)
  PROVE  Serves(m, n, f)
<1>1. Good(m, {}) /\ Here(m, l) /\ HasName(Cont(m), l) /\ FdsOk(m, f) /\ DataOk(m, f) /\ IsPar(m, f[l].dir)
  BY DEF Ready, FdsOk, Known
<1>2. PICK d : d = f[l].dir
  OBVIOUS
<1>3. d = NIL \/ Here(m, d)
  BY <1>1, <1>2 DEF IsPar, Known
<1>4. n = file_set_size(m, l, d, s)
  BY <1>2
<1>5. Good(n, {}) /\ Frame(m, n, {l})
  BY ONLY <1>1, <1>3, <1>4, ~IsDir(Cont(m), l), s \in Nat,
          s < Rec(Cont(m), l).size => BlankFrom(Cont(m), l, new_nblocks(s)), file_set_size_Good
<1>6. FdsOk(n, f) /\ DataOk(n, f) /\ Near(m, n, {l})
  BY ONLY <1>1, <1>5, ~IsDir(Cont(m), l), l \in DOMAIN f, f[l].marked = 0, KeepsOne
<1> QED BY <1>5, <1>6 DEF Serves, Ready

\* close marks one more block.
LEMMA mark_Serves ==
  ASSUME NEW m, NEW f, Ready(m, f), NEW l \in DOMAIN f, NEW n, n = file_dirty(m, l, f[l].marked),
         NEW f2, f2 = [f EXCEPT ![l].marked = @ + 1]
  PROVE  Serves(m, n, f2)
<1>1. Good(m, {}) /\ Here(m, l) /\ FdsOk(m, f) /\ f \in [DOMAIN f -> FdRecs]
  BY DEF Ready, FdsOk, Known
<1>2. PICK i : i = f[l].marked
  OBVIOUS
<1>3. i \in Nat /\ f[l] \in FdRecs
  BY <1>1, <1>2 DEF FdRecs
<1>4. n = file_dirty(m, l, i)
  BY <1>2
<1>5. /\ Calm(m, n)
      /\ i \in Idx /\ Num(Cont(m), l, i) \in m.unsaved => Num(Cont(m), l, i) \in n.dirty
  BY ONLY <1>1, <1>3, <1>4, file_dirty_Calm
<1>6. Serves(m, n, f)
  BY <1>5, ServesCalm
<1>7. Cont(n) = Cont(m) /\ n.unsaved \subseteq m.unsaved
  BY <1>5 DEF Calm, Quiet
<1>8. /\ DOMAIN f2 = DOMAIN f /\ f2 \in [DOMAIN f2 -> FdRecs] /\ \A k \in DOMAIN f : k # l => f2[k] = f[k]
      /\ f2[l].dir = f[l].dir /\ f2[l].marked = i + 1
  BY <1>1, <1>2, <1>3 DEF FdRecs
<1>9. FdsOk(n, f) /\ DataOk(n, f)
  BY <1>6 DEF Serves, Ready
<1>10. ASSUME NEW k \in DOMAIN f2
       PROVE  /\ Known(n, k) /\ IsPar(n, f2[k].dir)
              /\ ~IsDir(Cont(n), k) => \A j \in Idx : j < f2[k].marked /\ Num(Cont(n), k, j) \in n.unsaved =>
                                                        Num(Cont(n), k, j) \in n.dirty
  <2>1. k \in DOMAIN f /\ Known(n, k) /\ IsPar(n, f2[k].dir)
    BY <1>8, <1>9 DEF FdsOk
  <2>2. CASE k # l
    <3>1. f2[k] = f[k]
      BY <1>8, <2>1, <2>2
    <3> QED BY <1>9, <2>1, <3>1 DEF FdsOk
  <2>3. CASE k = l
    <3>1. ASSUME ~IsDir(Cont(n), l), NEW j \in Idx, j < i + 1, Num(Cont(n), l, j) \in n.unsaved
          PROVE  Num(Cont(n), l, j) \in n.dirty
      <4>1. CASE j < i
        BY <1>2, <1>9, <3>1, <4>1 DEF FdsOk
      <4>2. CASE j = i
        BY <1>5, <1>7, <3>1, <4>2
      <4>3. j < i \/ j = i
        BY <1>3, <3>1 DEF Idx
      <4> QED BY <4>1, <4>2, <4>3
    <3> QED BY <1>8, <2>1, <2>3, <3>1
  <2> QED BY <2>2, <2>3
<1>11. DataOk(n, f2)
  BY <1>8, <1>9 DEF DataOk
<1>12. FdsOk(n, f2)
  BY <1>8, <1>10 DEF FdsOk
<1> QED BY <1>6, <1>11, <1>12 DEF Serves, Ready

\* close has marked every block of the file.
LEMMA close_Serves ==
  ASSUME NEW m, NEW f, Ready(m, f), NEW l \in DOMAIN f, Inside(Cont(m), l, f[l].marked) => IsDir(Cont(m), l),
         NEW n, n = file_close(m, l, f[l].dir), NEW f2, f2 = [k \in DOMAIN f \ {l} |-> f[k]]
  PROVE  Serves(m, n, f2)
<1>1. Good(m, {}) /\ Here(m, l) /\ HasName(Cont(m), l) /\ FdsOk(m, f) /\ f \in [DOMAIN f -> FdRecs] /\ IsPar(m, f[l].dir)
  BY DEF Ready, FdsOk, Known
<1>2. PICK d : d = f[l].dir
  OBVIOUS
<1>3. d = NIL \/ Here(m, d)
  BY <1>1, <1>2 DEF IsPar, Known
<1>4. n = file_close(m, l, d)
  BY <1>2
<1>5. /\ Calm(m, n)
      /\ \A j \in Idx : Inside(Cont(m), l, j) /\ Num(Cont(m), l, j) \in m.dirty => Num(Cont(m), l, j) \notin n.unsaved
  BY ONLY <1>1, <1>3, <1>4, file_close_Calm
<1>6. Serves(m, n, f)
  BY <1>5, ServesCalm
<1>7. Cont(n) = Cont(m) /\ n.unsaved \subseteq m.unsaved
  BY <1>5 DEF Calm, Quiet
<1>8. DOMAIN f2 = DOMAIN f \ {l} /\ f2 \in [DOMAIN f2 -> FdRecs] /\ \A k \in DOMAIN f2 : f2[k] = f[k]
  BY <1>1
<1>9. FdsOk(n, f) /\ DataOk(n, f)
  BY <1>6 DEF Serves, Ready
<1>10. FdsOk(n, f2)
  BY <1>8, <1>9 DEF FdsOk
<1>11. ASSUME ~IsDir(Cont(n), l), NEW j \in Idx, Inside(Cont(n), l, j) PROVE Num(Cont(n), l, j) \notin n.unsaved
  <2>1. PICK i : i = f[l].marked
    OBVIOUS
  <2>2. i \in Nat /\ j \in Nat
    BY <1>1, <2>1 DEF FdRecs, Idx
  <2>3. PICK s : s = Rec(Cont(m), l).size
    OBVIOUS
  <2>4. s \in Nat
    BY <1>1, <2>3, HereFile, RecType, RecFields DEF Good, Sound
  <2>5. j * BY2BLK < s /\ ~(i * BY2BLK < s)
    BY <1>7, <1>11, <2>1, <2>3 DEF Inside
  <2>6. j < i
    BY ONLY <2>2, <2>4, <2>5, Numbers, FewerBlocks
  <2>7. Num(Cont(m), l, j) \in m.unsaved => Num(Cont(m), l, j) \in m.dirty
    BY <1>1, <1>7, <1>11, <2>1, <2>6 DEF FdsOk
  <2> QED BY <1>5, <1>7, <1>11, <2>7
<1>12. DataOk(n, f2)
  BY <1>8, <1>9, <1>11 DEF DataOk
<1> QED BY <1>6, <1>10, <1>12 DEF Serves, Ready

-----------------------------------------------------------------------------
(***************************************************************************)
(* Every step serves a request.                                            *)
(***************************************************************************)
Served == \E n : Become(n) /\ Serves(Memory(Blocks), n, fds')

\* Whether the kernel had a page does not matter afterwards.
LEMMA AnyMemory ==
  ASSUME IInv, NEW mem \in SUBSET Blocks, NEW n, NEW f, Serves(Memory(mem), n, f)
  PROVE  Serves(Memory(Blocks), n, f)
<1>1. PICK m : m = Memory(mem)
  OBVIOUS
<1>2. PICK m2 : m2 = Memory(Blocks)
  OBVIOUS
<1>3. m2 \in MemRecs
  BY <1>2 DEF IInv, Good
<1>4. m2.cache = m.cache /\ m2.unsaved = m.unsaved /\ m2.dirty = m.dirty /\ m2.panic = m.panic
  BY <1>1, <1>2, MemoryIs
<1>5. PICK e : Near(m, n, {e})
  BY <1>1 DEF Serves
<1>6. \A k, x : Near(m, k, {x}) => Near(m2, k, {x})
  BY ONLY <1>3, <1>4, SameState
<1>7. Near(m2, n, {e})
  BY <1>5, <1>6
<1> QED BY <1>2, <1>7 DEF Serves

\* So the step of creating a file serves one.
LEMMA create_Step ==
  ASSUME IInv, NEW path \in Paths, NEW type \in {FTYPE_REG, FTYPE_DIR}, create(path, type)
  PROVE  Served
<1>1. PICK mem \in Mem : Become(file_create(Memory(mem), path, type))
  BY DEF create
<1>2. fds' = fds /\ mem \in SUBSET Blocks
  BY MemIs DEF create
<1>3. PICK n : n = file_create(Memory(mem), path, type)
  OBVIOUS
<1>4. Ready(Memory(mem), fds)
  BY <1>2, Begins
<1>5. Serves(Memory(mem), n, fds)
  BY ONLY <1>3, <1>4, path \in Paths, type \in {FTYPE_REG, FTYPE_DIR}, create_Serves
<1>6. Serves(Memory(Blocks), n, fds)
  BY ONLY <1>2, <1>5, IInv, AnyMemory
<1> QED BY <1>1, <1>2, <1>3, <1>6 DEF Served

\* That of opening a file.
LEMMA open_Step ==
  ASSUME IInv, NEW path \in Paths, open(path)
  PROVE  Served
<1>1. PICK n \in {file_open(Memory(mem), path) : mem \in Mem} :
         /\ Become(n)
         /\ fds' = IF n.r = 0 THEN [l \in DOMAIN fds \cup {n.loc} |->
                                      IF l = n.loc THEN [dir |-> n.par, marked |-> 0] ELSE fds[l]]
                    ELSE fds
  BY DEF open
<1>2. PICK mem \in Mem : n = walk_path(Memory(mem), path)
  BY <1>1 DEF file_open
<1>3. mem \in SUBSET Blocks
  BY MemIs
<1>4. Ready(Memory(mem), fds)
  BY <1>3, Begins
<1>5. PICK f2 : f2 = fds'
  OBVIOUS
<1>6. f2 = IF n.r = 0 THEN [x \in DOMAIN fds \cup {n.loc} |->
                                      IF x = n.loc THEN [dir |-> n.par, marked |-> 0] ELSE fds[x]]
           ELSE fds
  BY <1>1, <1>5
<1>7. Serves(Memory(mem), n, f2)
  BY ONLY <1>2, <1>4, <1>6, path \in Paths, open_Serves
<1>8. Serves(Memory(Blocks), n, f2)
  BY ONLY <1>3, <1>7, IInv, AnyMemory
<1> QED BY <1>1, <1>5, <1>8 DEF Served

\* What the descriptors point to, in the terms of the properties.
LEMMA OpenIs ==
  ASSUME IInv, NEW l \in DOMAIN fds
  PROVE  /\ Ready(Memory(Blocks), fds) /\ l \in Locs /\ l \in AllOf(Disk) /\ fds[l] \in FdRecs /\ Sound(Disk, {})
         /\ Rec(Disk, l).size \in Nat /\ Rec(Disk, l).type \in {FTYPE_REG, FTYPE_DIR}
         /\ \A i : InSize(l, i) <=> Inside(Disk, l, i)
<1>1. Ready(Memory(Blocks), fds)
  BY Begins
<1>2. l \in AllOf(Disk) /\ l \in Locs /\ fds[l] \in FdRecs /\ Sound(Disk, {})
  <2>1. Known(Memory(Blocks), l) /\ fds \in [DOMAIN fds -> FdRecs]
    BY <1>1 DEF Ready, FdsOk
  <2>2. l \in AllOf(Disk)
    BY <2>1 DEF Known, Here, Disk
  <2>3. Sound(Disk, {})
    BY <1>1 DEF Ready, Good, Disk
  <2> QED BY <2>1, <2>2, <2>3, AllIn
<1>3. Rec(Disk, l).size \in Nat
  BY <1>2, RecType, RecFields DEF Sound
<1>4. Rec(Disk, l).type \in {FTYPE_REG, FTYPE_DIR}
  BY <1>2 DEF Sound, Kinds, Kind
<1>5. \A i : InSize(l, i) <=> Inside(Disk, l, i)
  BY <1>2, FileAtIs DEF InSize, Inside
<1> QED BY <1>1, <1>2, <1>3, <1>4, <1>5

\* That of mapping a block.
LEMMA map_Step ==
  ASSUME IInv, NEW l \in DOMAIN fds, NEW bno \in 0 .. NINDIRECT, map(l, bno)
  PROVE  Served
<1>1. PICK mem \in Mem : Become(file_get_block(Memory(mem), l, bno))
  BY DEF map
<1>2. fds' = fds /\ mem \in SUBSET Blocks /\ fds[l].marked = 0 /\ bno \in Nat
  BY MemIs DEF map, InUse
<1>3. PICK m : m = Memory(mem)
  OBVIOUS
<1>4. PICK n : n = file_get_block(m, l, bno)
  OBVIOUS
<1>5. Ready(m, fds)
  BY <1>2, <1>3, Begins
<1>6. Inside(Cont(m), l, bno)
  BY <1>3, MemoryIs, OpenIs DEF map
<1>7. Serves(m, n, fds)
  BY ONLY <1>2, <1>4, <1>5, <1>6, l \in DOMAIN fds, map_Serves
<1>8. Serves(Memory(mem), n, fds)
  BY <1>3, <1>7
<1>9. Serves(Memory(Blocks), n, fds)
  BY ONLY <1>2, <1>8, IInv, AnyMemory
<1> QED BY <1>1, <1>2, <1>3, <1>4, <1>9 DEF Served

\* A regular file is no directory.
LEMMA RegIs ==
  ASSUME NEW l \in Locs, FileAt(l).type = FTYPE_REG
  PROVE  ~IsDir(Disk, l)
BY FileAtIs, Types DEF IsDir

\* That of writing into a block.
LEMMA write_Step ==
  ASSUME IInv, NEW l \in DOMAIN fds, NEW bno \in 0 .. NINDIRECT - 1, NEW w \in Words, write(l, bno, w)
  PROVE  Served
<1>1. fds' = fds /\ fds[l].marked = 0 /\ bno \in Idx /\ w \in Nat
  BY ProgramAssumption DEF write, InUse, Idx
<1>2. l \in Locs /\ Ready(Memory(Blocks), fds)
  BY OpenIs
<1>3. PICK m : m = Memory(Blocks)
  OBVIOUS
<1>4. PICK b : b = BlockOf(l, bno)
  OBVIOUS
<1>5. Cont(m) = Disk
  BY <1>3, MemoryIs
<1>6. ~IsDir(Cont(m), l) /\ b = Num(Cont(m), l, bno)
  BY <1>2, <1>4, <1>5, RegIs, BlockOfIs DEF write
<1>7. b \in Blocks /\ Mapped(m, b)
  BY <1>3, <1>4 DEF write, block_is_mapped, Mapped
<1>8. PICK n : n = Written(m, b, Word(w))
  OBVIOUS
<1>9. Become(n)
  BY <1>3, <1>4, <1>8 DEF write, Written
<1>10. Ready(m, fds)
  BY <1>2, <1>3
<1>11. Serves(m, n, fds)
  BY ONLY <1>1, <1>6, <1>7, <1>8, <1>10, l \in DOMAIN fds, write_Serves
<1> QED BY <1>1, <1>3, <1>9, <1>11 DEF Served

\* Blocks that programs have blanked.
LEMMA BlankedIs ==
  ASSUME NEW l \in AllOf(Disk), Sound(Disk, {}), ~IsDir(Disk, l), NEW a \in Nat, Blanked(l, a)
  PROVE  BlankFrom(Disk, l, a)
<1>1. ASSUME NEW j \in Idx, j >= a, Num(Disk, l, j) # 0 PROVE Disk[Num(Disk, l, j)] = Word(0)
  <2>1. l \in Locs /\ BlockOf(l, j) = Num(Disk, l, j)
    BY AllIn, BlockOfIs
  <2>2. PICK b : b = Num(Disk, l, j)
    OBVIOUS
  <2>3. b \in Blocks /\ Disk[b].k = "word" /\ Disk[b] \in Contents
    <3>1. b \in Data
      BY <1>1, <2>2, NumIn
    <3>2. Disk[b].k = "word"
      BY <1>1, <2>2 DEF Sound, Kinds, Kind
    <3>3. Disk \in Conts
      BY DEF Sound, Boot
    <3> QED BY <3>1, <3>2, <3>3, BlockSets DEF Conts
  <2>4. Content(b) = Disk[b]
    BY <2>3, ContentIs DEF In
  <2>5. j \in a .. NINDIRECT - 1
    BY <1>1, Numbers DEF Idx
  <2>6. WordOf(Content(b)) = 0
    BY <1>1, <2>1, <2>2, <2>5 DEF Blanked
  <2>7. Disk[b].w = 0
    BY <2>3, <2>4, <2>6 DEF WordOf
  <2>8. PICK z : z = 0
    OBVIOUS
  <2>9. Disk[b] \in [k : {"word"}, w : Nat]
    BY <2>3 DEF Contents
  <2>10. Disk[b] = Word(z)
    BY <2>7, <2>8, <2>9 DEF Word
  <2> QED BY <2>2, <2>8, <2>10
<1> QED BY <1>1 DEF BlankFrom

\* How many blocks are left is a number.
LEMMA new_nblocksType == \A s \in Nat : new_nblocks(s) \in Nat
BY Numbers, DivType DEF new_nblocks

\* That of setting the size.
LEMMA set_size_Step ==
  ASSUME IInv, Careful, NEW l \in DOMAIN fds, NEW size \in Sizes, set_size(l, size)
  PROVE  Served
<1>1. fds' = fds /\ fds[l].marked = 0 /\ size \in Nat
  BY ProgramAssumption DEF set_size, InUse
<1>2. /\ l \in Locs /\ Ready(Memory(Blocks), fds) /\ l \in AllOf(Disk) /\ Sound(Disk, {}) /\ Rec(Disk, l).size \in Nat
  BY OpenIs
<1>3. PICK m : m = Memory(Blocks)
  OBVIOUS
<1>4. Cont(m) = Disk
  BY <1>3, MemoryIs
<1>5. ~IsDir(Disk, l)
  BY <1>2, RegIs DEF set_size
<1>6. ASSUME size < Rec(Disk, l).size PROVE BlankFrom(Disk, l, new_nblocks(size))
  <2>1. FileAt(l).size = Rec(Disk, l).size
    BY <1>2, FileAtIs
  <2>2. PICK t : t = Rec(Disk, l).size
    OBVIOUS
  <2>3. ~(size >= t)
    <3>1. t \in Nat /\ size < t
      BY <1>2, <1>6, <2>2
    <3> QED BY ONLY <1>1, <3>1
  <2>4. Blanked(l, new_nblocks(size))
    BY <2>1, <2>2, <2>3 DEF set_size
  <2> QED BY <1>1, <1>2, <1>5, <2>4, BlankedIs, new_nblocksType
<1>7. PICK n : n = file_set_size(m, l, fds[l].dir, size)
  OBVIOUS
<1>8. Become(n)
  BY <1>3, <1>7 DEF set_size
<1>9. /\ Ready(m, fds) /\ ~IsDir(Cont(m), l)
      /\ size < Rec(Cont(m), l).size => BlankFrom(Cont(m), l, new_nblocks(size))
  BY <1>2, <1>3, <1>4, <1>5, <1>6
<1>10. Serves(m, n, fds)
  BY ONLY <1>1, <1>7, <1>9, l \in DOMAIN fds, set_size_Serves
<1> QED BY <1>1, <1>3, <1>8, <1>10 DEF Served

\* That of marking a block dirty.
LEMMA mark_Step ==
  ASSUME IInv, NEW l \in DOMAIN fds, mark(l)
  PROVE  Served
<1>1. PICK m : m = Memory(Blocks)
  OBVIOUS
<1>2. Ready(m, fds)
  BY <1>1, OpenIs
<1>3. PICK n : n = file_dirty(m, l, fds[l].marked)
  OBVIOUS
<1>4. PICK f2 : f2 = fds'
  OBVIOUS
<1>5. Become(n) /\ f2 = [fds EXCEPT ![l].marked = @ + 1]
  BY <1>1, <1>3, <1>4 DEF mark
<1>6. Serves(m, n, f2)
  BY ONLY <1>2, <1>3, <1>5, l \in DOMAIN fds, mark_Serves
<1> QED BY <1>1, <1>4, <1>5, <1>6 DEF Served

\* That of closing a file.
LEMMA close_Step ==
  ASSUME IInv, NEW l \in DOMAIN fds, close(l)
  PROVE  Served
<1>1. PICK m : m = Memory(Blocks)
  OBVIOUS
<1>2. Ready(m, fds) /\ l \in Locs
  BY <1>1, OpenIs
<1>3. PICK n : n = file_close(m, l, fds[l].dir)
  OBVIOUS
<1>4. PICK f2 : f2 = fds'
  OBVIOUS
<1>5. Become(n) /\ f2 = [k \in DOMAIN fds \ {l} |-> fds[k]]
  BY <1>1, <1>3, <1>4 DEF close
<1>6. Cont(m) = Disk
  BY <1>1, MemoryIs
<1>7. Inside(Cont(m), l, fds[l].marked) => IsDir(Cont(m), l)
  BY <1>2, <1>6, OpenIs, FileAtIs DEF close, IsDir
<1>8. Serves(m, n, f2)
  BY ONLY <1>2, <1>3, <1>5, <1>7, l \in DOMAIN fds, close_Serves
<1> QED BY <1>1, <1>4, <1>5, <1>8 DEF Served

\* That of FSREQ_SYNC.
LEMMA sync_Step ==
  ASSUME IInv, sync
  PROVE  Served
<1>1. PICK m : m = Memory(Blocks)
  OBVIOUS
<1>2. Ready(m, fds)
  BY <1>1, Begins
<1>3. PICK n : n = fs_sync(m)
  OBVIOUS
<1>4. Become(n) /\ fds' = fds
  BY <1>1, <1>3 DEF sync
<1>5. Calm(m, n)
  BY <1>2, <1>3, fs_sync_Calm DEF Ready
<1>6. Serves(m, n, fds)
  BY <1>2, <1>5, ServesCalm
<1> QED BY <1>1, <1>4, <1>6 DEF Served

\* What the walk finds is what programs have blanked before it.
LEMMA FoundBlank ==
  ASSUME IInv, NEW mem \in SUBSET Blocks, NEW w, Walks(Memory(mem), w), w.r = 0,
         File(w, w.loc).type = FTYPE_REG, Blanked(w.loc, 0)
  PROVE  ~IsDir(Cont(w), w.loc) /\ BlankFrom(Cont(w), w.loc, 0)
<1>1. PICK m : m = Memory(mem)
  OBVIOUS
<1>2. PICK l : l = w.loc
  OBVIOUS
<1>3. Cont(m) = Disk /\ Good(m, {})
  BY <1>1, MemoryIs, Begins DEF Ready
<1>4. Frame(m, w, {}) /\ Known(w, l) /\ Good(w, {})
  BY <1>1, <1>2 DEF Walks
<1>5. l \in AllOf(Cont(w)) /\ l \in Locs /\ HasName(Cont(w), l) /\ Mapped(w, l[1])
  BY <1>4, AllIn DEF Known, Here
<1>6. ~IsDir(Cont(w), l)
  <2>1. File(w, l) = Rec(Cont(w), l)
    BY <1>5, FileIs
  <2> QED BY <1>2, <2>1, Types DEF IsDir
<1>7. /\ l \in AllOf(Disk) /\ HasName(Disk, l) /\ (IsDir(Cont(w), l) <=> IsDir(Disk, l))
      /\ (~IsDir(Disk, l) => SameFile(Disk, Cont(w), l))
  <2>1. Near(m, w, {})
    BY <1>3, <1>4, FrameNear
  <2>2. l \in AllOf(Cont(m)) /\ HasName(Cont(m), l)
    BY <1>5, <2>1 DEF Near
  <2> QED BY <1>3, <2>1, <2>2 DEF Near
<1>8. ~IsDir(Disk, l) /\ SameFile(Disk, Cont(w), l)
  BY <1>6, <1>7
<1>9. BlankFrom(Disk, l, 0)
  <2>1. Sound(Disk, {})
    BY <1>3 DEF Good
  <2> QED BY <1>2, <1>7, <1>8, <2>1, BlankedIs
<1>10. BlankFrom(Cont(w), l, 0)
  BY <1>8, <1>9 DEF BlankFrom, SameFile
<1> QED BY <1>2, <1>6, <1>10

\* That of removing a file.
LEMMA remove_Step ==
  ASSUME IInv, Careful, NEW path \in Paths, remove(path)
  PROVE  Served
<1>1. PICK mem \in Mem : \E w \in {walk_path(Memory(mem), path)} :
                           /\ w.r = 0 => /\ w.loc \notin DOMAIN fds /\ File(w, w.loc).type = FTYPE_REG
                                         /\ Careful => Blanked(w.loc, 0)
                           /\ Become(file_remove(Memory(mem), path))
  BY DEF remove
<1>2. PICK m : m = Memory(mem)
  OBVIOUS
<1>3. PICK w : w = walk_path(m, path)
  OBVIOUS
<1>4. PICK n : n = file_remove(m, path)
  OBVIOUS
<1>5. /\ w.r = 0 => w.loc \notin DOMAIN fds /\ File(w, w.loc).type = FTYPE_REG /\ Blanked(w.loc, 0)
      /\ Become(n)
  BY <1>1, <1>2, <1>3, <1>4
<1>6. fds' = fds /\ mem \in SUBSET Blocks
  BY MemIs DEF remove
<1>7. Ready(m, fds)
  BY <1>2, <1>6, Begins
<1>8. Walks(m, w)
  BY <1>3, <1>7, walk_path_Good DEF Ready
<1>9. w.r = 0 => w.loc \notin DOMAIN fds /\ ~IsDir(Cont(w), w.loc) /\ BlankFrom(Cont(w), w.loc, 0)
  BY <1>2, <1>5, <1>6, <1>8, FoundBlank
<1>10. Serves(m, n, fds)
  BY ONLY <1>3, <1>4, <1>7, <1>9, path \in Paths, remove_Serves
<1>11. Serves(Memory(mem), n, fds)
  BY <1>2, <1>10
<1>12. Serves(Memory(Blocks), n, fds)
  BY ONLY <1>6, <1>11, IInv, AnyMemory
<1> QED BY <1>5, <1>6, <1>12 DEF Served

\* Every step does.
LEMMA NextServes ==
  ASSUME IInv, Careful, Next
  PROVE  Served
<1>1. ASSUME NEW path \in Paths, NEW type \in {FTYPE_REG, FTYPE_DIR}, create(path, type) PROVE Served
  BY <1>1, create_Step
<1>2. ASSUME NEW path \in Paths, open(path) PROVE Served
  BY <1>2, open_Step
<1>3. ASSUME NEW l \in DOMAIN fds, NEW bno \in 0 .. NINDIRECT, map(l, bno) PROVE Served
  BY <1>3, map_Step
<1>4. ASSUME NEW l \in DOMAIN fds, NEW bno \in 0 .. NINDIRECT - 1, NEW w \in Words, write(l, bno, w) PROVE Served
  BY <1>4, write_Step
<1>5. ASSUME NEW l \in DOMAIN fds, NEW size \in Sizes, set_size(l, size) PROVE Served
  BY <1>5, set_size_Step
<1>6. ASSUME NEW l \in DOMAIN fds, mark(l) PROVE Served
  BY <1>6, mark_Step
<1>7. ASSUME NEW l \in DOMAIN fds, close(l) PROVE Served
  BY <1>7, close_Step
<1>8. ASSUME NEW path \in Paths, remove(path) PROVE Served
  BY <1>8, remove_Step
<1>9. ASSUME sync PROVE Served
  BY <1>9, sync_Step
<1> QED BY <1>1, <1>2, <1>3, <1>4, <1>5, <1>6, <1>7, <1>8, <1>9 DEF Next

-----------------------------------------------------------------------------
(***************************************************************************)
(* The disk that fsformat has written.                                     *)
(***************************************************************************)
InFirst(l) == l \in Locs /\ l[1] = 3

\* The blocks in use at boot, and the others.
LEMMA Three ==
  /\ 3 \in Data /\ 3 \in Blocks /\ 4 \in Data /\ 4 \in Blocks /\ 0 \in Idx /\ 0 \in Held /\ NINDIRECT # 0
  /\ \A b \in Data : b = 3 \/ b = 4 \/ b \in 5 .. NBLOCKS - 1
  /\ \A b \in 5 .. NBLOCKS - 1 : b \in Data /\ b \in Blocks /\ b > 3 /\ b # 3 /\ b # 4 /\ b # 0
  /\ <<3, 1>> \in Locs /\ 3 # SUPER
BY Numbers DEF Data, Blocks, BITMAP, SUPER, Idx, Held, Locs, Slots

\* The files at boot.
LEMMA InitRec ==
  /\ Rec(Image, ROOT) = InitRoot
  /\ \A l : InFirst(l) => Rec(Image, l) = (IF l[2] = 1 THEN InitFile ELSE FileOf(0))
<1>1. Image[SUPER].k = "dir" /\ Image[SUPER].f = <<InitRoot>>
  BY ImageIs DEF Dir
<1>2. AsDir(Image[SUPER]) = <<InitRoot>>
  BY <1>1 DEF AsDir
<1>3. Rec(Image, ROOT) = InitRoot
  BY <1>2 DEF Rec, ROOT
<1>4. Image[3].k = "dir" /\ Image[3].f = InitDir
  BY ImageIs DEF Dir
<1>5. AsDir(Image[3]) = InitDir
  BY <1>4 DEF AsDir
<1>6. ASSUME NEW l, InFirst(l) PROVE Rec(Image, l) = (IF l[2] = 1 THEN InitFile ELSE FileOf(0))
  <2>1. l[1] = 3 /\ l[2] \in Slots
    BY <1>6, PlaceOf DEF InFirst
  <2>2. Rec(Image, l) = InitDir[l[2]]
    BY <1>5, <2>1 DEF Rec
  <2> QED BY <2>1, <2>2 DEF InitDir
<1> QED BY <1>3, <1>6

\* The numbers of a file whose only block is b.
LEMMA NumsOf ==
  ASSUME NEW c, NEW l, NEW b \in Nat, Rec(c, l).ind = 0, \A i \in 0 .. NDIRECT - 1 : Rec(c, l).ptr[i] = IF i = 0 THEN b ELSE 0
  PROVE  \A i \in Held : At(c, l, i) = IF i = 0 THEN b ELSE 0
<1>1. ASSUME NEW i \in Idx PROVE At(c, l, i) = IF i = 0 THEN b ELSE 0
  <2>1. At(c, l, i) = Num(c, l, i)
    BY HeldIs
  <2>2. CASE i < NDIRECT
    <3>1. i \in 0 .. NDIRECT - 1
      BY <2>2, Numbers DEF Idx
    <3>2. Num(c, l, i) = Rec(c, l).ptr[i]
      BY <2>2 DEF Num
    <3> QED BY <2>1, <3>1, <3>2
  <2>3. CASE ~(i < NDIRECT)
    <3>1. i # 0
      BY <2>3, Numbers
    <3>2. Num(c, l, i) = 0
      BY <2>3 DEF Num
    <3> QED BY <2>1, <3>1, <3>2
  <2> QED BY <2>2, <2>3
<1>2. At(c, l, NINDIRECT) = 0
  BY HeldIs
<1> QED BY <1>1, <1>2, HeldIs, Three

\* The numbers of the files at boot.
LEMMA InitAt ==
  /\ \A i \in Held : At(Image, ROOT, i) = IF i = 0 THEN 3 ELSE 0
  /\ \A l : InFirst(l) => \A i \in Held : At(Image, l, i) = IF l[2] = 1 /\ i = 0 THEN 4 ELSE 0
<1>1. \A i \in Held : At(Image, ROOT, i) = IF i = 0 THEN 3 ELSE 0
  <2>1. PICK r : r = Rec(Image, ROOT)
    OBVIOUS
  <2>2. r.ind = 0 /\ \A i \in 0 .. NDIRECT - 1 : r.ptr[i] = IF i = 0 THEN 3 ELSE 0
    BY <2>1, InitRec, InitRecs
  <2> QED BY <2>1, <2>2, NumsOf
<1>2. ASSUME NEW l, InFirst(l) PROVE \A i \in Held : At(Image, l, i) = IF l[2] = 1 /\ i = 0 THEN 4 ELSE 0
  <2>1. PICK r : r = Rec(Image, l)
    OBVIOUS
  <2>2. PICK b : b = IF l[2] = 1 THEN 4 ELSE 0
    OBVIOUS
  <2>3. b \in Nat /\ r = IF l[2] = 1 THEN InitFile ELSE FileOf(0)
    BY <1>2, <2>1, <2>2, InitRec
  <2>4. r.ind = 0 /\ \A i \in 0 .. NDIRECT - 1 : r.ptr[i] = IF i = 0 THEN b ELSE 0
    <3>1. CASE l[2] = 1
      BY <2>2, <2>3, <3>1, InitRecs
    <3>2. CASE l[2] # 1
      <4>1. r = FileOf(0) /\ b = 0
        BY <2>2, <2>3, <3>2
      <4> QED BY <4>1 DEF FileOf
    <3> QED BY <3>1, <3>2
  <2>5. \A i \in Held : At(Image, l, i) = IF i = 0 THEN b ELSE 0
    <3>1. Rec(Image, l).ind = 0 /\ \A i \in 0 .. NDIRECT - 1 : Rec(Image, l).ptr[i] = IF i = 0 THEN b ELSE 0
      BY <2>1, <2>4
    <3>2. b \in Nat
      BY <2>3
    <3> QED BY ONLY <3>1, <3>2, NumsOf
  <2> QED BY <2>2, <2>5
<1> QED BY <1>1, <1>2

\* What the files at boot are.
LEMMA InitKinds ==
  /\ IsDir(Image, ROOT) /\ Rec(Image, ROOT).name = "/" /\ Rec(Image, ROOT).size = BY2BLK
  /\ \A l : InFirst(l) => /\ ~IsDir(Image, l) /\ Rec(Image, l).type = FTYPE_REG /\ Rec(Image, l).name \in Names \cup {""}
                          /\ Rec(Image, l).size \in Nat
                          /\ Rec(Image, l).name = "" => l[2] # 1 /\ Rec(Image, l).size = 0
<1>1. IsDir(Image, ROOT) /\ Rec(Image, ROOT).name = "/" /\ Rec(Image, ROOT).size = BY2BLK
  BY InitRec, InitRecs DEF IsDir
<1>2. ASSUME NEW l, InFirst(l)
      PROVE  /\ ~IsDir(Image, l) /\ Rec(Image, l).type = FTYPE_REG /\ Rec(Image, l).name \in Names \cup {""}
             /\ Rec(Image, l).size \in Nat
             /\ Rec(Image, l).name = "" => l[2] # 1 /\ Rec(Image, l).size = 0
  <2>1. PICK r : r = Rec(Image, l)
    OBVIOUS
  <2>2. r = IF l[2] = 1 THEN InitFile ELSE FileOf(0)
    BY <1>2, <2>1, InitRec
  <2>3. CASE l[2] = 1
    <3>1. r.type = FTYPE_REG /\ r.name \in Names /\ r.size = 1
      BY <2>2, <2>3, InitRecs
    <3>2. r.name # ""
      BY <3>1, ProgramAssumption
    <3>3. r.size \in Nat
      BY <3>1
    <3>4. ~IsDir(Image, l)
      BY <2>1, <3>1, Types DEF IsDir
    <3> QED BY <2>1, <3>1, <3>2, <3>3, <3>4
  <2>4. CASE l[2] # 1
    <3>1. r = FileOf(0)
      BY <2>2, <2>4
    <3>2. r.name = "" /\ r.size = 0 /\ r.type = 0
      BY <3>1 DEF FileOf
    <3>3. r.type = FTYPE_REG
      BY <3>2 DEF FTYPE_REG
    <3>4. ~IsDir(Image, l)
      BY <2>1, <3>3, Types DEF IsDir
    <3>5. r.size \in Nat
      BY <3>1 DEF FileOf
    <3> QED BY <2>1, <2>4, <3>2, <3>3, <3>4, <3>5
  <2> QED BY <2>3, <2>4
<1> QED BY <1>1, <1>2

\* There are no other files at boot.
LEMMA InitAll == \A l \in AllOf(Image) : l = ROOT \/ InFirst(l)
<1>1. PICK D : D = {ROOT} \cup {l \in Locs : InFirst(l)}
  OBVIOUS
<1>2. D \in SUBSET Locs
  BY <1>1, BlockSets
<1>3. ASSUME NEW l \in D, IsDir(Image, l), NEW x \in Kids(Image, l) PROVE x \in D
  <2>1. l = ROOT
    BY <1>1, <1>3, InitKinds
  <2>2. x \in Locs /\ \E i \in Idx : Num(Image, ROOT, i) = x[1]
    BY <2>1 DEF Kids
  <2>3. PICK i \in Idx : Num(Image, ROOT, i) = x[1]
    BY <2>2
  <2>4. i \in Held /\ At(Image, ROOT, i) = x[1]
    BY <2>3, HeldIs
  <2>5. x[1] \in Blocks
    BY <2>2, PlaceOf
  <2>6. x[1] = 3
    BY <2>4, <2>5, InitAt, BlockSets
  <2> QED BY <1>1, <2>2, <2>6 DEF InFirst
<1>4. Closed(Image, D)
  BY <1>1, <1>3 DEF Closed
<1> QED BY <1>1, <1>2, <1>4, AllLeast

\* The super block and the bitmap at boot.
LEMMA InitBoot == Boot(Image) /\ FreeOf(Image) = 5 .. NBLOCKS - 1
<1>1. Image \in Conts
  <2> DEFINE F(b) == CASE b = SUPER  -> Dir(<<InitRoot>>)
                       [] b = BITMAP -> Bits(5 .. NBLOCKS - 1)
                       [] b = 3      -> Dir(InitDir)
                       [] b > 3      -> Word(0)
  <2>1. Image = [b \in Blocks |-> F(b)]
    BY DEF Image, InitDir, InitFile, InitRoot
  <2> HIDE DEF F
  <2>2. Image = [b \in Blocks |-> Image[b]]
    BY <2>1
  <2> QED BY <2>2, ImageType DEF Conts
<1>2. Image[SUPER].k = "dir" /\ Image[SUPER].f = <<InitRoot>>
  BY ImageIs DEF Dir
<1>3. <<InitRoot>> \in [{1} -> FileRecs]
  BY InitRecs
<1>4. Image[BITMAP].k = "bits" /\ FreeOf(Image) = 5 .. NBLOCKS - 1
  BY ImageIs DEF Bits, FreeOf
<1>5. FreeOf(Image) \subseteq Data
  BY <1>4, Three
<1>6. ASSUME NEW b \in Data, Image[b].k = "dir" PROVE Image[b].f \in [Slots -> FileRecs]
  <2>1. CASE b = 3
    BY <2>1, ImageIs, InitRecs DEF Dir
  <2>2. CASE b # 3
    <3>1. b \in Blocks /\ b > 3
      BY <2>2, BlockSets DEF Data, BITMAP
    <3>2. Image[b].k = "word"
      BY <3>1, ImageIs DEF Word
    <3> QED BY <1>6, <3>2
  <2> QED BY <2>1, <2>2
<1>7. "/" # ""
  OBVIOUS
<1> QED BY <1>1, <1>2, <1>3, <1>4, <1>5, <1>6, <1>7, InitKinds DEF Boot

\* The disk that fsformat has written is sound.
LEMMA InitSound == Sound(Image, {})
<1>1. ASSUME NEW l \in AllOf(Image), NEW i \in Held, At(Image, l, i) # 0
      PROVE  i = 0 /\ ((l = ROOT /\ At(Image, l, i) = 3) \/ (l = <<3, 1>> /\ InFirst(l) /\ At(Image, l, i) = 4))
  <2>1. CASE l = ROOT
    BY <1>1, <2>1, InitAt
  <2>2. CASE InFirst(l)
    <3>1. l[2] = 1 /\ i = 0 /\ At(Image, l, i) = 4
      BY <1>1, <2>2, InitAt
    <3>2. l = <<l[1], l[2]>> /\ l[1] = 3
      BY <2>2, PlaceOf DEF InFirst
    <3> QED BY <2>2, <3>1, <3>2
  <2> QED BY <2>1, <2>2, InitAll
<1>2. FreeOf(Image) = 5 .. NBLOCKS - 1
  BY InitBoot
<1>3. Owns(Image, {})
  <2>1. \A b \in {3, 4} : b \in Data \ (FreeOf(Image) \cup {})
    BY <1>2, Three
  <2> QED BY <1>1, <2>1 DEF Owns
<1>4. Once(Image)
  <2>1. ASSUME NEW l \in AllOf(Image), NEW k \in AllOf(Image), NEW i \in Held, NEW j \in Held,
               At(Image, l, i) # 0, At(Image, l, i) = At(Image, k, j)
        PROVE  l = k /\ i = j
    <3>1. At(Image, k, j) # 0
      BY <2>1
    <3>2. /\ i = 0 /\ ((l = ROOT /\ At(Image, l, i) = 3) \/ (l = <<3, 1>> /\ At(Image, l, i) = 4))
          /\ j = 0 /\ ((k = ROOT /\ At(Image, k, j) = 3) \/ (k = <<3, 1>> /\ At(Image, k, j) = 4))
      BY <1>1, <2>1, <3>1
    <3> QED BY <2>1, <3>2
  <2> QED BY <2>1 DEF Once
<1>5. <<3, 1>> \in AllOf(Image) /\ InFirst(<<3, 1>>)
  <2>1. InFirst(<<3, 1>>)
    BY Three DEF InFirst
  <2>2. Num(Image, ROOT, 0) = 3
    BY InitAt, HeldIs, Three
  <2> QED BY <2>1, <2>2, Three, AllIn, InitKinds, SlotIsFile
<1>6. Kept(Image, {})
  <2>1. ASSUME NEW b \in Data \ (FreeOf(Image) \cup {}) PROVE \E l \in AllOf(Image), i \in Held : At(Image, l, i) = b
    <3>1. b = 3 \/ b = 4
      BY <1>2, <2>1, Three
    <3>2. At(Image, ROOT, 0) = 3 /\ ROOT \in AllOf(Image) /\ 0 \in Held
      BY InitAt, AllIn, Three
    <3>3. At(Image, <<3, 1>>, 0) = 4
      <4>1. PICK l : l = <<3, 1>>
        OBVIOUS
      <4>2. InFirst(l) /\ l[2] = 1
        BY <1>5, <4>1
      <4> QED BY <4>1, <4>2, InitAt, Three
    <3> QED BY <1>5, <3>1, <3>2, <3>3
  <2> QED BY <2>1 DEF Kept
<1>7. Blank(Image, {})
  BY <1>2, Three, ImageIs DEF Blank
<1>8. Kinds(Image)
  <2>1. ASSUME NEW l \in AllOf(Image) PROVE Kind(Image, l)
    <3>1. Rec(Image, l).ind = 0
      <4>1. At(Image, l, NINDIRECT) = Rec(Image, l).ind /\ NINDIRECT \in Held
        BY HeldIs
      <4> QED BY <1>1, <4>1, Three
    <3>2. CASE l = ROOT
      <4>1. Rec(Image, l).type \in {FTYPE_REG, FTYPE_DIR} /\ IsDir(Image, l)
        BY <3>2, InitKinds DEF IsDir
      <4>2. ASSUME NEW i \in Idx, Num(Image, l, i) # 0 PROVE DirBlock(Image[Num(Image, l, i)])
        <5>1. i \in Held /\ At(Image, l, i) = Num(Image, l, i)
          BY HeldIs
        <5>2. Num(Image, l, i) = 3
          BY <3>2, <4>2, <5>1, InitAt
        <5>3. Image[3].k = "dir"
          BY ImageIs DEF Dir
        <5> QED BY <5>2, <5>3 DEF DirBlock
      <4> QED BY <3>1, <4>1, <4>2 DEF Kind
    <3>3. CASE InFirst(l)
      <4>1. Rec(Image, l).type \in {FTYPE_REG, FTYPE_DIR} /\ ~IsDir(Image, l)
        BY <3>3, InitKinds
      <4>2. ASSUME NEW i \in Idx, Num(Image, l, i) # 0 PROVE Image[Num(Image, l, i)].k = "word"
        <5>1. i \in Held /\ At(Image, l, i) = Num(Image, l, i)
          BY HeldIs
        <5>2. Num(Image, l, i) = 4
          BY <3>3, <4>2, <5>1, InitAt
        <5>3. Image[4] = Word(0)
          BY ImageIs, Three
        <5> QED BY <5>2, <5>3 DEF Word
      <4> QED BY <3>1, <4>1, <4>2 DEF Kind
    <3> QED BY <3>2, <3>3, InitAll
  <2> QED BY <2>1 DEF Kinds
<1>9. Sized(Image)
  <2>1. BY2BLK \div BY2BLK = 1 /\ BY2BLK * (BY2BLK \div BY2BLK) = BY2BLK /\ Low(0) = 0
    <3>1. PICK d : d = BY2BLK \div BY2BLK
      OBVIOUS
    <3>2. d = 1
      BY <3>1, Numbers
    <3> QED BY <3>1, <3>2, Numbers, Three DEF Low
  <2>2. ASSUME NEW l \in AllOf(Image)
        PROVE  /\ IsDir(Image, l) => Whole(Rec(Image, l).size)
               /\ \A i \in Held : At(Image, l, i) # 0 => Room(Image, l, i)
    <3>1. CASE l = ROOT
      <4>1. PICK s : s = Rec(Image, l).size
        OBVIOUS
      <4>2. s = BY2BLK /\ IsDir(Image, l)
        BY <3>1, <4>1, InitKinds
      <4>3. ASSUME NEW i \in Held, At(Image, l, i) # 0 PROVE Room(Image, l, i)
        <5>1. i = 0
          BY <1>1, <4>3
        <5> QED BY <2>1, <4>1, <4>2, <5>1 DEF Room
      <4> QED BY <2>1, <4>1, <4>2, <4>3 DEF Whole
    <3>2. CASE InFirst(l)
      <4>1. PICK s : s = Rec(Image, l).size
        OBVIOUS
      <4>2. s \in Nat /\ ~IsDir(Image, l)
        BY <3>2, <4>1, InitKinds
      <4>3. 0 <= s \div BY2BLK
        BY <4>2, Numbers, DivType
      <4>4. ASSUME NEW i \in Held, At(Image, l, i) # 0 PROVE Room(Image, l, i)
        <5>1. i = 0
          BY <1>1, <4>4
        <5> QED BY <2>1, <4>1, <4>2, <4>3, <5>1 DEF Room
      <4> QED BY <4>2, <4>4
    <3> QED BY <3>1, <3>2, InitAll
  <2> QED BY <2>2 DEF Sized
<1>10. Named(Image)
  <2>1. ASSUME NEW l \in AllOf(Image) \ {ROOT}
        PROVE  Rec(Image, l).name \in Names \cup {""} /\ (Rec(Image, l).name = "" => Empty(Image, l))
    <3>1. InFirst(l)
      BY InitAll
    <3>2. ASSUME Rec(Image, l).name = "" PROVE Empty(Image, l)
      <4>1. l[2] # 1 /\ Rec(Image, l).size = 0
        BY <3>1, <3>2, InitKinds
      <4>2. \A i \in Held : At(Image, l, i) = 0
        BY <3>1, <4>1, InitAt
      <4> QED BY <4>1, <4>2 DEF Empty
    <3> QED BY <3>1, <3>2, InitKinds
  <2> QED BY <2>1 DEF Named
<1> QED BY <1>3, <1>4, <1>6, <1>7, <1>8, <1>9, <1>10, InitBoot DEF Sound

-----------------------------------------------------------------------------
(***************************************************************************)
(* The inductive invariant holds at boot and is kept.                      *)
(***************************************************************************)
LEMMA InitIInv == Init => IInv
<1> SUFFICES ASSUME Init PROVE IInv
  OBVIOUS
<1>1. PICK m : m = Memory(Blocks)
  OBVIOUS
<1>2. m.cache = cache /\ m.unsaved = {} /\ m.dirty = {} /\ m.panic = FALSE /\ Cont(m) = Disk
  BY <1>1, MemoryIs DEF Init
<1>3. \A b \in Blocks : cache[b] = IF b \in {SUPER, BITMAP} THEN Image[b] ELSE NIL
  BY DEF Init
<1>4. cache \in [Blocks -> Contents \cup {NIL}]
  <2> DEFINE F(b) == IF b \in {SUPER, BITMAP} THEN Image[b] ELSE NIL
  <2>1. cache = [b \in Blocks |-> F(b)]
    BY DEF Init
  <2>2. \A b \in Blocks : F(b) \in Contents \cup {NIL}
    BY ImageType
  <2> HIDE DEF F
  <2> QED BY <2>1, <2>2
<1>5. m \in MemRecs
  <2>1. NIL \in Locs \cup {NIL} /\ ROOT \in Locs /\ 0 \in Int
    BY BlockSets
  <2>2. cache \in [Blocks -> Contents \cup {NIL}] /\ unsaved \in SUBSET Blocks /\ dirty \in SUBSET Blocks /\ panic \in BOOLEAN
    BY <1>4 DEF Init
  <2> QED BY <1>1, <2>1, <2>2 DEF Memory, MemRecs
<1>6. Cont(m) = Image
  <2>1. \A b \in Blocks : (IF m.cache[b] = NIL THEN Image[b] ELSE m.cache[b]) = Image[b]
    BY <1>2, <1>3
  <2>2. Cont(m) = [b \in Blocks |-> Image[b]]
    BY <2>1 DEF Cont
  <2>3. Image \in Conts
    BY InitBoot DEF Boot
  <2> QED BY <2>2, <2>3 DEF Conts
<1>7. InCache(m)
  <2>1. Image[SUPER] # NIL /\ Image[BITMAP] # NIL
    BY ImageType, BlockSets, NilAssumption
  <2> QED BY <1>2, <1>3, <2>1, BlockSets DEF InCache, Mapped
<1>8. Good(m, {})
  BY <1>2, <1>5, <1>6, <1>7, InitSound DEF Good
<1>9. FdsOk(m, fds)
  BY DEF Init, FdsOk
<1>10. DataOk(m, fds)
  BY <1>2 DEF DataOk
<1> QED BY <1>1, <1>8, <1>9, <1>10 DEF IInv

\* What the step leaves is the memory of the next one.
LEMMA Becomes ==
  ASSUME NEW n, Become(n), NEW m, m = Memory(Blocks)', Good(n, {})
  PROVE  /\ m \in MemRecs /\ m.cache = n.cache /\ m.unsaved = n.unsaved /\ m.dirty = n.dirty /\ m.panic = n.panic
         /\ Cont(m) = Cont(n) /\ Cont(m) = Disk'
<1>1. /\ cache' = n.cache /\ unsaved' = n.unsaved /\ dirty' = n.dirty /\ panic' = n.panic
  BY DEF Become
<1>2. n \in MemRecs
  BY DEF Good
<1>3. PICK q : q = [n EXCEPT !.mem = Blocks, !.r = 0, !.loc = ROOT, !.par = NIL]
  OBVIOUS
<1>4. /\ q \in MemRecs /\ q.cache = n.cache /\ q.unsaved = n.unsaved /\ q.dirty = n.dirty /\ q.panic = n.panic
      /\ q = [cache |-> n.cache, unsaved |-> n.unsaved, dirty |-> n.dirty, panic |-> n.panic,
              mem |-> Blocks, r |-> 0, loc |-> ROOT, par |-> NIL]
  <2>1. PICK t \in SUBSET Blocks : t = Blocks
    OBVIOUS
  <2>2. PICK z \in Int : z = 0
    OBVIOUS
  <2>3. PICK l \in Locs : l = ROOT
    BY BlockSets
  <2>4. PICK p \in Locs \cup {NIL} : p = NIL
    OBVIOUS
  <2>5. q = [n EXCEPT !.mem = t, !.r = z, !.loc = l, !.par = p]
    BY ONLY <1>3, <2>1, <2>2, <2>3, <2>4
  <2>6. /\ q \in MemRecs /\ q.cache = n.cache /\ q.unsaved = n.unsaved /\ q.dirty = n.dirty /\ q.panic = n.panic
        /\ q = [cache |-> n.cache, unsaved |-> n.unsaved, dirty |-> n.dirty, panic |-> n.panic,
                mem |-> t, r |-> z, loc |-> l, par |-> p]
    BY ONLY <1>2, <2>5, t \in SUBSET Blocks, z \in Int, l \in Locs, p \in Locs \cup {NIL} DEF MemRecs
  <2> QED BY ONLY <2>1, <2>2, <2>3, <2>4, <2>6
<1>5. m = q
  <2>1. m = [cache |-> cache', unsaved |-> unsaved', dirty |-> dirty', panic |-> panic',
             mem |-> Blocks, r |-> 0, loc |-> ROOT, par |-> NIL]
    BY DEF Memory
  <2> QED BY ONLY <1>1, <1>4, <2>1
<1>6. Cont(m) = Cont(n)
  BY <1>4, <1>5 DEF Cont
<1>7. Cont(m) = Disk'
  BY DEF Disk
<1> QED BY <1>4, <1>5, <1>6, <1>7

\* Every step keeps the invariant.
LEMMA NextIInv ==
  ASSUME IInv, Careful, [Next]_vars
  PROVE  IInv'
<1>1. CASE Next
  <2>1. PICK n : Become(n) /\ Serves(Memory(Blocks), n, fds')
    BY <1>1, NextServes DEF Served
  <2>2. PICK f : f = fds'
    OBVIOUS
  <2>3. PICK m : m = Memory(Blocks)'
    OBVIOUS
  <2>4. Good(n, {}) /\ FdsOk(n, f) /\ DataOk(n, f)
    BY <2>1, <2>2 DEF Serves, Ready
  <2>5. m \in MemRecs /\ m.cache = n.cache /\ m.unsaved = n.unsaved /\ m.dirty = n.dirty /\ m.panic = n.panic
    BY <2>1, <2>3, <2>4, Becomes
  <2>6. Good(m, {}) /\ FdsOk(m, f) /\ DataOk(m, f)
    BY ONLY <2>4, <2>5, SameState
  <2> QED BY <2>2, <2>3, <2>6 DEF IInv
<1>2. CASE UNCHANGED vars
  <2>1. Memory(Blocks)' = Memory(Blocks) /\ fds' = fds
    BY <1>2 DEF vars, Memory
  <2> QED BY <2>1 DEF IInv
<1> QED BY <1>1, <1>2

\* The invariant of the file server's requests: the disk is sound, and what is not on
\* disk belongs to open files, or will be written by close.
THEOREM Inductive == Careful => (Spec => []IInv)
<1> SUFFICES ASSUME Careful PROVE Spec => []IInv
  OBVIOUS
<1>1. Init => IInv
  BY InitIInv
<1>2. IInv /\ [Next]_vars => IInv'
  BY NextIInv
<1> QED BY <1>1, <1>2, PTL DEF Spec

-----------------------------------------------------------------------------
(***************************************************************************)
(* The properties.                                                         *)
(***************************************************************************)
LEMMA IInvIs ==
  ASSUME IInv
  PROVE  /\ Sound(Disk, {}) /\ Boot(Disk) /\ Memory(Blocks) \in MemRecs /\ InCache(Memory(Blocks)) /\ ~panic
         /\ FdsOk(Memory(Blocks), fds) /\ DataOk(Memory(Blocks), fds)
BY MemoryIs DEF IInv, Good, Sound

\* The types follow from the invariant.
LEMMA TypeHolds == IInv => TypeOK
<1> SUFFICES ASSUME IInv PROVE TypeOK
  OBVIOUS
<1>1. Memory(Blocks).cache = cache /\ Memory(Blocks).unsaved = unsaved /\ Memory(Blocks).dirty = dirty /\ Memory(Blocks).panic = panic
  BY MemoryIs
<1>2. cache \in [Blocks -> Contents \cup {NIL}] /\ unsaved \in SUBSET Blocks /\ dirty \in SUBSET Blocks /\ panic \in BOOLEAN
  BY <1>1, IInvIs, MemFields
<1>3. unsaved \cup dirty \subseteq {b \in Blocks : cache[b] # NIL}
  BY <1>1, <1>2, IInvIs DEF InCache, Mapped
<1>4. ASSUME NEW l \in DOMAIN fds PROVE l \in Locs /\ fds[l].dir \in Locs \cup {NIL} /\ fds[l].marked \in Nat
  <2>1. l \in Locs /\ fds[l] \in FdRecs
    BY OpenIs
  <2> QED BY <2>1 DEF FdRecs
<1>5. DOMAIN fds \subseteq Locs
  BY <1>4
<1> QED BY <1>2, <1>3, <1>4, <1>5 DEF TypeOK

\* A place with a number, in the terms of the properties, is one of the invariant.
LEMMA PlaceIn ==
  ASSUME IInv, NEW x \in Owned
  PROVE  \E l \in AllOf(Disk), i \in Held : x = <<l, i, At(Disk, l, i)>> /\ At(Disk, l, i) # 0
<1>1. {ROOT} \cup Files = AllOf(Disk)
  BY FilesAre, IInvIs
<1>2. x[3] # 0
  BY DEF Owned
<1>3. CASE x \in {<<l, i, BlockOf(l, i)>> : l \in {ROOT} \cup Files, i \in 0 .. NINDIRECT - 1}
  <2>1. PICK l \in AllOf(Disk), i \in Idx : x = <<l, i, BlockOf(l, i)>>
    BY <1>1, <1>3 DEF Idx
  <2>2. BlockOf(l, i) = At(Disk, l, i) /\ i \in Held
    BY AllIn, BlockOfIs, HeldIs
  <2> QED BY <1>2, <2>1, <2>2
<1>4. CASE x \in {<<l, NINDIRECT, FileAt(l).ind>> : l \in {ROOT} \cup Files}
  <2>1. PICK l \in AllOf(Disk) : x = <<l, NINDIRECT, FileAt(l).ind>>
    BY <1>1, <1>4
  <2>2. FileAt(l).ind = At(Disk, l, NINDIRECT) /\ NINDIRECT \in Held
    BY AllIn, FileAtIs, HeldIs
  <2> QED BY <1>2, <2>1, <2>2
<1> QED BY <1>3, <1>4 DEF Owned, Places

\* And one of the invariant is one of the properties.
LEMMA InPlace ==
  ASSUME IInv, NEW l \in AllOf(Disk), NEW i \in Held, At(Disk, l, i) # 0
  PROVE  <<l, i, At(Disk, l, i)>> \in Owned
<1>1. l \in {ROOT} \cup Files /\ l \in Locs
  BY AllIn, FilesAre, IInvIs
<1>2. CASE i \in Idx
  <2>1. At(Disk, l, i) = BlockOf(l, i)
    BY <1>1, <1>2, BlockOfIs, HeldIs
  <2>2. <<l, i, BlockOf(l, i)>> \in Places
    BY <1>1, <1>2 DEF Places, Idx
  <2>3. PICK x : x = <<l, i, At(Disk, l, i)>>
    OBVIOUS
  <2> QED BY <2>1, <2>2, <2>3 DEF Owned
<1>3. CASE i = NINDIRECT
  <2>1. At(Disk, l, i) = FileAt(l).ind
    BY <1>1, <1>3, FileAtIs, HeldIs
  <2>2. <<l, NINDIRECT, FileAt(l).ind>> \in Places
    BY <1>1 DEF Places
  <2>3. PICK x : x = <<l, i, At(Disk, l, i)>>
    OBVIOUS
  <2> QED BY <1>3, <2>1, <2>2, <2>3 DEF Owned
<1> QED BY <1>2, <1>3, HeldIs

\* The blocks in use.
LEMMA UsedIs == IInv => InUseBlocks = Data \ FreeOf(Disk)
BY ContentIs, BlockSets DEF InUseBlocks, Data, In, FreeOf

\* The ownership of blocks follows.
LEMMA OwnedOnceHolds == IInv => BlocksOwnedOnce
<1> SUFFICES ASSUME IInv PROVE BlocksOwnedOnce
  OBVIOUS
<1>1. PICK S : S = Owned
  OBVIOUS
<1>2. PICK T : T = {x[3] : x \in S}
  OBVIOUS
<1>3. T \subseteq InUseBlocks
  <2>1. ASSUME NEW x \in S PROVE x[3] \in Data \ FreeOf(Disk)
    <3>1. PICK l \in AllOf(Disk), i \in Held : x = <<l, i, At(Disk, l, i)>> /\ At(Disk, l, i) # 0
      BY <1>1, PlaceIn
    <3>2. x[3] = At(Disk, l, i)
      BY <3>1
    <3> QED BY <3>1, <3>2, IInvIs DEF Sound, Owns
  <2> QED BY <1>2, <2>1, UsedIs
<1>4. IsFiniteSet(T)
  <2>1. T \subseteq BITMAP + 1 .. NBLOCKS - 1
    BY <1>3 DEF InUseBlocks
  <2>2. IsFiniteSet(BITMAP + 1 .. NBLOCKS - 1)
    BY FS_Interval, Numbers DEF BITMAP
  <2> QED BY <2>1, <2>2, FS_Subset
<1>5. ASSUME NEW x \in S, NEW y \in S, x[3] = y[3] PROVE x = y
  <2>1. PICK l \in AllOf(Disk), i \in Held : x = <<l, i, At(Disk, l, i)>> /\ At(Disk, l, i) # 0
    BY <1>1, PlaceIn
  <2>2. PICK k \in AllOf(Disk), j \in Held : y = <<k, j, At(Disk, k, j)>> /\ At(Disk, k, j) # 0
    BY <1>1, PlaceIn
  <2>3. At(Disk, l, i) = At(Disk, k, j)
    BY <1>5, <2>1, <2>2
  <2>4. l = k /\ i = j
    BY <2>1, <2>3, IInvIs DEF Sound, Once
  <2> QED BY <2>1, <2>2, <2>4
<1>6. PICK f : f = [x \in S |-> x[3]]
  OBVIOUS
<1>7. f \in [S -> T] /\ (\A t \in T : \E x \in S : f[x] = t) /\ \A x, y \in S : f[x] = f[y] => x = y
  BY <1>2, <1>5, <1>6
<1>8. f \in Injection(S, T) /\ f \in Surjection(S, T)
  BY <1>7 DEF Injection, Surjection, IsInjective
<1>9. Cardinality(T) = Cardinality(S)
  BY <1>4, <1>8, FS_Injection
<1> QED BY <1>1, <1>2, <1>3, <1>9 DEF BlocksOwnedOnce

\* That none is lost follows.
LEMMA NoBlockLostHolds == IInv => NoBlockLost
<1> SUFFICES ASSUME IInv, NEW b \in InUseBlocks PROVE b \in {x[3] : x \in Owned}
  BY DEF NoBlockLost
<1>1. b \in Data \ (FreeOf(Disk) \cup {})
  BY UsedIs
<1>2. PICK l \in AllOf(Disk), i \in Held : At(Disk, l, i) = b
  BY <1>1, IInvIs DEF Sound, Kept
<1>3. At(Disk, l, i) # 0
  BY <1>1, <1>2, BlockSets
<1>4. PICK x : x = <<l, i, At(Disk, l, i)>>
  OBVIOUS
<1>5. x \in Owned /\ x[3] = b
  BY <1>2, <1>3, <1>4, InPlace
<1> QED BY <1>5

\* Files with a name that are no directories.
Plain(c) == {l \in AllOf(c) : HasName(c, l) /\ ~IsDir(c, l)}

\* Regular files with a name.
LEMMA RegularIs == Boot(Disk) => Regular \subseteq Plain(Disk)
<1> SUFFICES ASSUME Boot(Disk), NEW l \in Regular PROVE l \in Plain(Disk)
  OBVIOUS
<1>1. l \in Files /\ FileAt(l).type = FTYPE_REG /\ FileAt(l).name # ""
  BY DEF Regular
<1>2. l \in AllOf(Disk) /\ l \in Locs
  BY <1>1, FilesAre, AllIn
<1>3. FileAt(l) = Rec(Disk, l) /\ ~IsDir(Disk, l)
  BY <1>1, <1>2, FileAtIs, RegIs
<1> QED BY <1>1, <1>2, <1>3 DEF Plain, HasName

\* That closed files are on disk follows.
LEMMA ClosedDataHolds == IInv => ClosedDataOnDisk
<1> SUFFICES ASSUME IInv, NEW l \in Regular \ DOMAIN fds, NEW bno \in Idx, InSize(l, bno)
             PROVE  BlockOf(l, bno) \notin unsaved
  BY DEF ClosedDataOnDisk, Idx
<1>1. l \in AllOf(Disk) /\ HasName(Disk, l) /\ ~IsDir(Disk, l) /\ l \in Locs
  BY RegularIs, IInvIs, AllIn DEF Plain
<1>2. Inside(Disk, l, bno) /\ BlockOf(l, bno) = Num(Disk, l, bno)
  BY <1>1, FileAtIs, BlockOfIs DEF InSize, Inside
<1>3. Num(Disk, l, bno) \notin unsaved
  <2>1. PICK m : m = Memory(Blocks)
    OBVIOUS
  <2>2. Cont(m) = Disk /\ m.unsaved = unsaved
    BY <2>1, MemoryIs
  <2>3. DataOk(m, fds)
    BY <2>1, IInvIs
  <2> QED BY <1>1, <1>2, <2>2, <2>3 DEF DataOk
<1> QED BY <1>2, <1>3

-----------------------------------------------------------------------------
(***************************************************************************)
(* What a step shows of the files.                                         *)
(***************************************************************************)
ViewOf(c, l) == [size |-> Rec(c, l).size,
                 data |-> [bno \in Idx |-> IF Num(c, l, bno) = 0 THEN NIL ELSE In(c, Num(c, l, bno))]]

\* What is seen of a file.
LEMMA ViewIs == \A l \in Locs : View(l) = ViewOf(Disk, l)
<1> SUFFICES ASSUME NEW l \in Locs PROVE View(l) = ViewOf(Disk, l)
  OBVIOUS
<1>1. FileAt(l) = Rec(Disk, l) /\ \A i : BlockOf(l, i) = Num(Disk, l, i)
  BY FileAtIs, BlockOfIs
<1>2. ASSUME NEW j \in Idx
      PROVE  (IF BlockOf(l, j) = 0 THEN NIL ELSE Content(BlockOf(l, j))) =
             (IF Num(Disk, l, j) = 0 THEN NIL ELSE In(Disk, Num(Disk, l, j)))
  BY <1>1, ContentIs
<1>3. [bno \in Idx |-> IF BlockOf(l, bno) = 0 THEN NIL ELSE Content(BlockOf(l, bno))] =
      [bno \in Idx |-> IF Num(Disk, l, bno) = 0 THEN NIL ELSE In(Disk, Num(Disk, l, bno))]
  BY <1>2
<1> QED BY <1>1, <1>3 DEF View, ViewOf, Idx

\* So it is after a step.
LEMMA NextView == (\A l \in Locs : View(l) = ViewOf(Disk, l))'
BY ViewIs, PTL

\* The super block and the bitmap are in place after a step.
LEMMA NextBoot == IInv' => Boot(Disk')
<1>1. IInv => Boot(Disk)
  BY IInvIs
<1>2. (IInv => Boot(Disk))'
  BY <1>1, PTL
<1> QED BY <1>2

\* A file that has been spared looks the same.
LEMMA SameView ==
  ASSUME NEW c, Sound(c, {}), NEW c2, NEW l \in AllOf(c), SameFile(c, c2, l)
  PROVE  ViewOf(c2, l) = ViewOf(c, l)
<1>1. Rec(c2, l).size = Rec(c, l).size
  BY DEF SameFile
<1>2. ASSUME NEW j \in Idx
      PROVE  (IF Num(c2, l, j) = 0 THEN NIL ELSE In(c2, Num(c2, l, j))) = (IF Num(c, l, j) = 0 THEN NIL ELSE In(c, Num(c, l, j)))
  <2>1. Num(c2, l, j) = Num(c, l, j) /\ (Num(c, l, j) # 0 => c2[Num(c, l, j)] = c[Num(c, l, j)])
    BY DEF SameFile
  <2> QED BY <2>1 DEF In
<1> QED BY <1>1, <1>2 DEF ViewOf

Changed == {l \in Regular \cap Regular' : View(l)' # View(l)}

\* A request changes one file at most.
LEMMA OneFile ==
  ASSUME IInv, IInv', Careful, Next
  PROVE  Cardinality(Changed) <= 1
<1>1. PICK n : Become(n) /\ Serves(Memory(Blocks), n, fds')
  BY NextServes DEF Served
<1>2. PICK e : Near(Memory(Blocks), n, {e})
  BY <1>1 DEF Serves
<1>3. PICK m : m = Memory(Blocks)'
  OBVIOUS
<1>4. Cont(n) = Disk'
  <2>1. Good(n, {})
    BY <1>1 DEF Serves, Ready
  <2>2. Become(n)
    BY <1>1
  <2>3. Cont(m) = Cont(n) /\ Cont(m) = Disk'
    BY ONLY <1>3, <2>1, <2>2, Becomes
  <2> QED BY <2>3
<1>5. Boot(Disk')
  BY NextBoot
<1>6. (\A l \in Locs : View(l) = ViewOf(Disk, l))'
  BY NextView
<1>7. ASSUME NEW l \in Changed PROVE l = e
  <2>1. l \in Regular /\ View(l)' # View(l)
    BY DEF Changed
  <2>2. l \in AllOf(Disk) /\ HasName(Disk, l) /\ ~IsDir(Disk, l) /\ l \in Locs
    BY <2>1, RegularIs, IInvIs, AllIn DEF Plain
  <2>3. ASSUME l # e PROVE FALSE
    <3>1. SameFile(Disk, Disk', l)
      <4>1. Cont(Memory(Blocks)) = Disk
        BY MemoryIs
      <4> QED BY <1>2, <1>4, <2>2, <2>3, <4>1 DEF Near
    <3>2. ViewOf(Disk', l) = ViewOf(Disk, l)
      BY <2>2, <3>1, IInvIs, SameView
    <3>3. View(l) = ViewOf(Disk, l)
      BY <2>2, ViewIs
    <3>4. View(l)' = ViewOf(Disk', l)
      BY <1>6, <2>2
    <3> QED BY <2>1, <3>2, <3>3, <3>4
  <2> QED BY <2>3
<1>8. Changed \in SUBSET {e}
  BY <1>7
<1>9. IsFiniteSet({e}) /\ Cardinality({e}) = 1
  BY FS_Singleton
<1> QED BY <1>8, <1>9, FS_Subset

-----------------------------------------------------------------------------
(***************************************************************************)
(* Theorems.                                                               *)
(***************************************************************************)
\* Every variable keeps its type; what is not on disk and what has PTE_DIRTY is in the
\* cache; a descriptor is that of a place on the disk.
THEOREM TypeSafe == Careful => (Spec => []TypeOK)
BY Inductive, TypeHolds, PTL

\* fs.c never lets two files, indices or directories own the same block, nor one that is
\* free: alloc_block hands out only free blocks and marks them, file_clear_block and
\* file_truncate free a block only with its number, and what a failure half way leaves
\* stays with its owner.
THEOREM OwnedOnceSafe == Careful => (Spec => []BlocksOwnedOnce)
BY Inductive, OwnedOnceHolds, PTL

\* fs.c loses no block: alloc_block frees the block that map_block fails for, and
\* file_truncate clears every number before the size of the file forgets it.
THEOREM NoBlockLostSafe == Careful => (Spec => []NoBlockLost)
BY Inductive, NoBlockLostHolds, PTL

\* FSREQ_DIRTY for every block and FSREQ_CLOSE, as file_close of user/lib/file.c sends
\* them, write all that a program has written: nothing of a regular file that is not
\* open is left in the cache only.
THEOREM ClosedDataSafe == Careful => (Spec => []ClosedDataOnDisk)
BY Inductive, ClosedDataHolds, PTL

\* A request to the file server changes the size or the contents of one regular file at
\* most: no block moves from one file to another, and what is cut off or stored belongs
\* to one file.
THEOREM OneFileSafe == Careful => (Spec => OneFilePerStep)
<1> SUFFICES ASSUME Careful PROVE Spec => OneFilePerStep
  OBVIOUS
<1>1. Spec => []IInv
  BY Inductive, PTL
<1>2. IInv /\ IInv' /\ [Next]_vars =>
        [cache' # cache => Cardinality({l \in Regular \cap Regular' : View(l)' # View(l)}) <= 1]_vars
  BY OneFile DEF Changed
<1> QED BY <1>1, <1>2, PTL DEF Spec, OneFilePerStep
=============================================================================
