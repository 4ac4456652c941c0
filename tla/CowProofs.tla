------------------------------ MODULE CowProofs -------------------------------
(***************************************************************************)
(* Proofs about Cow, for any number of environments, pages and forks: the  *)
(* types, that no store reaches a page of somebody else, that cow_entry is *)
(* only entered for a page that is to be copied, and that fork copies the  *)
(* memory at one instant for each page.                                    *)
(***************************************************************************)
EXTENDS Cow, FiniteSetTheorems, TLAPS

-----------------------------------------------------------------------------
(***************************************************************************)
(* Finite sets of integers, in ascending order.                            *)
(***************************************************************************)
LEMMA RankOrder ==
  ASSUME NEW S, S \subseteq Int, IsFiniteSet(S), NEW x \in S, NEW y \in S, x < y
  PROVE  Rank(x, S) < Rank(y, S)
<1> DEFINE A == {z \in S : z < x}
           B == {z \in S : z < y}
<1>1. A \subseteq B /\ x \in B /\ x \notin A /\ B \subseteq S
  <2>1. x \in Int /\ y \in Int
    OBVIOUS
  <2>2. \A z \in S : z < x => z < y
    BY <2>1
  <2>3. A \subseteq B
    BY <2>2
  <2>4. x \in B /\ x \notin A
    BY <2>1
  <2> QED
    BY <2>3, <2>4
<1>2. IsFiniteSet(B)
  BY <1>1, FS_Subset
<1>3. IsFiniteSet(A) /\ Cardinality(A) <= Cardinality(B) /\ Cardinality(A) # Cardinality(B)
  BY <1>1, <1>2, FS_Subset
<1>4. Cardinality(A) \in Nat /\ Cardinality(B) \in Nat
  BY <1>2, <1>3, FS_CardinalityType
<1> QED
  BY <1>3, <1>4 DEF Rank

LEMMA RankRange ==
  ASSUME NEW S, S \subseteq Int, IsFiniteSet(S), NEW x \in S
  PROVE  Rank(x, S) \in 0 .. Cardinality(S) - 1
<1> DEFINE A == {z \in S : z < x}
<1>1. A \subseteq S /\ x \in S /\ x \notin A
  OBVIOUS
<1>2. IsFiniteSet(A) /\ Cardinality(A) <= Cardinality(S) /\ Cardinality(A) # Cardinality(S)
  BY <1>1, FS_Subset
<1>3. Cardinality(A) \in Nat /\ Cardinality(S) \in Nat
  BY <1>2, FS_CardinalityType
<1> QED
  BY <1>2, <1>3 DEF Rank

\* Every rank is that of one element.
LEMMA RankOnto ==
  ASSUME NEW S, S \subseteq Int, IsFiniteSet(S), NEW k \in 0 .. Cardinality(S) - 1
  PROVE  \E x \in S : Rank(x, S) = k
<1> DEFINE T == 0 .. Cardinality(S) - 1
           f == [x \in S |-> Rank(x, S)]
<1>1. Cardinality(S) \in Nat
  BY FS_CardinalityType
<1>2. IsFiniteSet(T) /\ Cardinality(T) = Cardinality(S)
  BY <1>1, FS_Interval
<1>3. f \in [S -> T]
  BY RankRange
<1>4. \A x \in S, y \in S : x # y => Rank(x, S) # Rank(y, S)
  <2>1. ASSUME NEW x \in S, NEW y \in S, x < y PROVE Rank(x, S) # Rank(y, S)
    <3>1. Rank(x, S) < Rank(y, S)
      BY <2>1, RankOrder
    <3>2. Rank(x, S) \in 0 .. Cardinality(S) - 1 /\ Rank(y, S) \in 0 .. Cardinality(S) - 1
      BY RankRange
    <3> QED
      BY <1>1, <3>1, <3>2
  <2> QED
    BY <2>1
<1>5. f \in Injection(S, T)
  BY <1>3, <1>4 DEF Injection, IsInjective
<1>6. f \in Surjection(S, T)
  BY <1>2, <1>5, FS_Injection
<1> QED
  BY <1>6 DEF Surjection

LEMMA Minimum ==
  ASSUME NEW S, S \subseteq Int, IsFiniteSet(S), S # {}
  PROVE  \E x \in S : \A y \in S : x <= y
<1>0. Cardinality(S) \in Nat /\ Cardinality(S) # 0
  BY FS_CardinalityType, FS_EmptySet
<1>1. 0 \in 0 .. Cardinality(S) - 1
  BY <1>0
<1>2. PICK x \in S : Rank(x, S) = 0
  BY <1>1, RankOnto
<1> DEFINE A == {z \in S : z < x}
<1>3. A \subseteq S /\ Cardinality(A) = 0
  BY <1>2 DEF Rank
<1>4. A = {}
  <2> HIDE DEF A
  <2> QED
    BY <1>3, FS_Subset, FS_EmptySet
<1>5. ASSUME NEW y \in S PROVE x <= y
  <2>1. ~(y < x) /\ x \in Int /\ y \in Int
    BY <1>4
  <2> QED
    BY <2>1
<1> QED
  BY <1>5

LEMMA Constants ==
  /\ Root \in Envs /\ NIL \notin Envs /\ UCOW \notin VPNs /\ VPNs \subseteq Nat
  /\ StackVPN \in PrivateVPNs /\ StackVPN \in VPNs /\ \A v \in VPNs : v <= StackVPN
  /\ PrivateVPNs \cap SharedVPNs = {} /\ VPNs = PrivateVPNs \cup SharedVPNs
  /\ SharedVPNs \subseteq TouchedVPNs /\ TouchedVPNs \subseteq VPNs
  /\ Pages \subseteq Int /\ IsFiniteSet(Pages) /\ Zero \in Words /\ MaxForks \in Nat /\ MaxStores \in Nat
  BY CowAssumption DEF UCOW, VPNs

LEMMA VPNsFinite == IsFiniteSet(VPNs)
  BY Constants, FS_BoundedSetOfNaturals

LEMMA Used ==
  ASSUME NEW table, NEW p
  PROVE  p \in UsedBy(table) <=> \E e \in Envs, va \in VPNs \cup {UCOW} : table[e][va] # NIL /\ table[e][va].page = p
<1>1. ASSUME p \in UsedBy(table)
      PROVE  \E e \in Envs, va \in VPNs \cup {UCOW} : table[e][va] # NIL /\ table[e][va].page = p
  <2>1. PICK x \in Entries : table[x[1]][x[2]] # NIL /\ table[x[1]][x[2]].page = p
    BY <1>1 DEF UsedBy
  <2>2. x[1] \in Envs /\ x[2] \in VPNs \cup {UCOW}
    BY DEF Entries
  <2> QED
    BY <2>1, <2>2
<1>2. ASSUME NEW e \in Envs, NEW va \in VPNs \cup {UCOW}, table[e][va] # NIL, table[e][va].page = p
      PROVE  p \in UsedBy(table)
  <2>1. <<e, va>> \in {y \in Entries : table[y[1]][y[2]] # NIL}
    BY <1>2 DEF Entries
  <2> QED
    BY <1>2, <2>1 DEF UsedBy
<1> QED
  BY <1>1, <1>2

\* page_alloc gives out a page that nobody has mapped, and fails only if there is none.
LEMMA Fresh ==
  /\ page_alloc \subseteq FreePages
  /\ page_alloc = {} <=> FreePages = {}
  /\ \A p \in page_alloc : p \in Pages /\ \A e \in Envs, va \in VPNs \cup {UCOW} : pt[e][va] # NIL => pt[e][va].page # p
<1>1. FreePages \subseteq Pages
  BY DEF FreePages
<1>2. CASE FreePages = {}
  BY <1>2 DEF page_alloc
<1>3. CASE FreePages # {}
  <2>1. FreePages \subseteq Int /\ IsFiniteSet(FreePages)
    BY <1>1, Constants, FS_Subset
  <2>2. \E x \in FreePages : \A y \in FreePages : x <= y
    BY <1>3, <2>1, Minimum
  <2>3. First(FreePages) \in FreePages
    BY <2>2 DEF First
  <2>4. page_alloc = {First(FreePages)}
    BY <1>3 DEF page_alloc
  <2>5. ASSUME NEW p \in FreePages, NEW e \in Envs, NEW va \in VPNs \cup {UCOW}, pt[e][va] # NIL
        PROVE  pt[e][va].page # p
    BY <2>5, Used DEF FreePages
  <2> QED
    BY <1>1, <1>3, <2>3, <2>4, <2>5
<1> QED
  BY <1>2, <1>3

-----------------------------------------------------------------------------
(***************************************************************************)
(* The inductive invariant.                                                *)
(***************************************************************************)
Addrs == VPNs \cup {UCOW}
Mapped(e, va) == pt[e][va] # NIL

\* An entry lets stores through or is marked copy-on-write.  The shared pages,
\* and they alone, have PTE_LIBRARY and are never marked.
PteOk(e, va) ==
  Mapped(e, va) =>
    /\ pt[e][va].D <=> ~pt[e][va].COW
    /\ va = UCOW => pt[e][va].D /\ ~pt[e][va].LIBRARY
    /\ va # UCOW => (pt[e][va].LIBRARY <=> va \in SharedVPNs)
    /\ pt[e][va].LIBRARY => pt[e][va].D

\* There is one copy of a shared page, for all who have it and under one address.
ShareOk(e, va, f, vb) ==
  Mapped(e, va) /\ Mapped(f, vb) =>
    /\ va \in SharedVPNs /\ va = vb => pt[e][va].page = pt[f][vb].page
    /\ pt[e][va].page = pt[f][vb].page =>
         /\ va \in SharedVPNs => va = vb
         /\ Writable(pt[e][va]) => MayShare(e, va, f, vb)

\* Who may run has a handler once a page is marked.  cow_entry works on the page
\* of a store under way, and has a page at UCOW only while it does.
EnvOk(e) ==
  /\ status[e] # "RUNNABLE" => store[e] = NIL /\ fork[e] = NIL
  /\ status[e] = "FREE" => \A va \in Addrs : ~Mapped(e, va)
  /\ status[e] = "RUNNABLE" => \A v \in SharedVPNs : Mapped(e, v)
  /\ status[e] = "RUNNABLE" /\ ~entry[e] => \A va \in Addrs : Mapped(e, va) => ~pt[e][va].COW
  /\ Mapped(e, UCOW) => cow[e] \in {"copy", "map", "unmap"}
  /\ cow[e] \in {"map", "unmap"} => Mapped(e, UCOW)
  /\ cow[e] # "no" => store[e] # NIL /\ Mapped(e, store[e].va)
  /\ cow[e] \in {"alloc", "copy", "map"} => pt[e][store[e].va].COW
  /\ cow[e] = "map" => word[pt[e][UCOW].page] = word[pt[e][store[e].va].page]

\* The child has the pages that fork is through with, and perhaps the one that
\* the parent has not yet write-protected; and it has one parent.
ForkOk(e) ==
  fork[e] # NIL =>
    /\ entry[e]
    /\ store[e] # NIL => store[e].va = StackVPN
    /\ fork[e].child # NIL =>
         /\ status[fork[e].child] = "NOT_RUNNABLE"
         /\ \A f \in Envs : fork[f] # NIL /\ fork[f].child = fork[e].child => f = e
         /\ \A v \in VPNs : Mapped(fork[e].child, v) <=> v \in fork[e].done \/ (fork[e].half /\ Next_vpn(e, v))
    /\ fork[e].half =>
         \E v \in VPNs : /\ Next_vpn(e, v) /\ Writable(pt[e][v])
                         /\ fork[e].child # NIL => pt[fork[e].child][v].page = pt[e][v].page

\* A free page is blank.
BlankOk == \A p \in Pages : word[p] # Zero =>
             \E e \in Envs, va \in Addrs : Mapped(e, va) /\ pt[e][va].page = p

Pte    == \A e \in Envs, va \in Addrs : PteOk(e, va)
Shares == \A e \in Envs, va \in Addrs, f \in Envs, vb \in Addrs : ShareOk(e, va, f, vb)
EnvsOk == \A e \in Envs : EnvOk(e) /\ ForkOk(e)

\* Of the reasons to give up, only that there is no memory occurs.
NoBadFault == panic \in {"no", "no memory"}

CowInd == TypeOK /\ Pte /\ Shares /\ EnvsOk /\ BlankOk /\ NoBadFault

LEMMA Typed ==
  ASSUME TypeOK
  PROVE  /\ pt \in [Envs -> [Addrs -> PTEs \cup {NIL}]] /\ word \in [Pages -> Words]
         /\ \A e \in Envs, va \in Addrs : Mapped(e, va) => pt[e][va] \in PTEs /\ pt[e][va].page \in Pages
         /\ \A e \in Envs : fork[e] # NIL => /\ fork[e] \in InFork /\ fork[e].done \subseteq VPNs
                                             /\ fork[e].child \in Envs \cup {NIL} /\ fork[e].half \in BOOLEAN
         /\ \A e \in Envs : store[e] # NIL => store[e] \in InStore /\ store[e].va \in VPNs /\ store[e].w \in Words
<1>1. pt \in [Envs -> [Addrs -> PTEs \cup {NIL}]] /\ word \in [Pages -> Words]
  BY DEF TypeOK, Addrs
<1>2. \A e \in Envs, va \in Addrs : Mapped(e, va) => pt[e][va] \in PTEs /\ pt[e][va].page \in Pages
  BY <1>1 DEF Mapped, PTEs
<1>3. fork \in [Envs -> InFork \cup {NIL}] /\ store \in [Envs -> InStore \cup {NIL}]
  BY DEF TypeOK
<1>4. \A e \in Envs : fork[e] # NIL => /\ fork[e] \in InFork /\ fork[e].done \subseteq VPNs
                                       /\ fork[e].child \in Envs \cup {NIL} /\ fork[e].half \in BOOLEAN
  BY <1>3 DEF InFork
<1>5. \A e \in Envs : store[e] # NIL => store[e] \in InStore /\ store[e].va \in VPNs /\ store[e].w \in Words
  BY <1>3 DEF InStore
<1> QED
  BY <1>1, <1>2, <1>4, <1>5

\* A change of one entry.
LEMMA Update ==
  ASSUME TypeOK, NEW e \in Envs, NEW va \in Addrs, NEW x, pt' = [pt EXCEPT ![e][va] = x]
  PROVE  /\ pt'[e][va] = x
         /\ \A f \in Envs, vb \in Addrs : (f = e /\ vb = va) \/ pt'[f][vb] = pt[f][vb]
         /\ x \in PTEs \cup {NIL} => pt' \in [Envs -> [Addrs -> PTEs \cup {NIL}]]
<1>1. pt \in [Envs -> [Addrs -> PTEs \cup {NIL}]]
  BY Typed
<1> QED
  BY <1>1

LEMMA TypeKept ==
  ASSUME TypeOK, pt' \in [Envs -> [Addrs -> PTEs \cup {NIL}]], word' \in [Pages -> Words],
         cow' \in [Envs -> {"no", "alloc", "copy", "map", "unmap"}], fork' \in [Envs -> InFork \cup {NIL}],
         UNCHANGED <<entry, store, panic, forks, stores>>,
         status' \in [Envs -> {"FREE", "RUNNABLE", "NOT_RUNNABLE"}]
  PROVE  TypeOK'
  BY DEF TypeOK, Addrs

LEMMA FreshPTE ==
  ASSUME NEW p \in Pages, NEW d \in BOOLEAN, NEW c \in BOOLEAN, NEW l \in BOOLEAN
  PROVE  /\ PTE(p, d, c, l) \in PTEs /\ PTE(p, d, c, l) # NIL
         /\ PTE(p, d, c, l).page = p /\ PTE(p, d, c, l).D = d
         /\ PTE(p, d, c, l).COW = c /\ PTE(p, d, c, l).LIBRARY = l
  BY NilAssumption DEF PTE, PTEs

\* Nothing about the order of the pages changes unless more of them are mapped, and
\* then not if the new one is the stack.
LEMMA NextKept ==
  ASSUME NEW e \in Envs, NEW v \in VPNs, fork'[e].done = fork[e].done,
         \A x \in VPNs : (Mapped(e, x) => Mapped(e, x)') /\ (Mapped(e, x)' => Mapped(e, x) \/ x = StackVPN)
  PROVE  Next_vpn(e, v) => Next_vpn(e, v)'
  BY Constants DEF Next_vpn, Mapped

LEMMA NextSame ==
  ASSUME NEW e \in Envs, NEW v \in VPNs, fork'[e].done = fork[e].done,
         \A x \in VPNs : Mapped(e, x) <=> Mapped(e, x)'
  PROVE  Next_vpn(e, v) <=> Next_vpn(e, v)'
  BY DEF Next_vpn, Mapped

LEMMA NextOnce ==
  ASSUME NEW e \in Envs, NEW v \in VPNs, NEW w \in VPNs, Next_vpn(e, v), Next_vpn(e, w)
  PROVE  v = w
<1>1. v <= w /\ w <= v /\ v \in Nat /\ w \in Nat
  BY Constants DEF Next_vpn
<1> QED
  BY <1>1

\* A page that one environment may write, while it executes no cow_entry, is not the
\* page another's cow_entry copies, nor the copy.
LEMMA StoreApart ==
  ASSUME CowInd, NEW e \in Envs, NEW va \in VPNs, Mapped(e, va), pt[e][va].D, cow[e] = "no",
         NEW f \in Envs, cow[f] = "map"
  PROVE  pt[f][UCOW].page # pt[e][va].page /\ pt[f][store[f].va].page # pt[e][va].page
<1>1. /\ store[f] # NIL /\ store[f].va \in VPNs /\ Mapped(f, store[f].va) /\ pt[f][store[f].va].COW
      /\ Mapped(f, UCOW) /\ f # e /\ status[f] = "RUNNABLE"
  BY Typed DEF CowInd, EnvsOk, EnvOk
<1>2. va \in Addrs /\ UCOW \in Addrs /\ store[f].va \in Addrs /\ va # UCOW
  BY <1>1, Constants DEF Addrs
<1>3. PteOk(e, va) /\ PteOk(f, UCOW) /\ PteOk(f, store[f].va)
  BY <1>2 DEF CowInd, Pte
<1>4. pt[f][UCOW].page # pt[e][va].page
  <2>1. Writable(pt[f][UCOW])
    BY <1>1, <1>3 DEF PteOk, Writable
  <2>2. ~MayShare(f, UCOW, e, va)
    BY <1>1, <1>2 DEF MayShare
  <2> QED
    BY <1>1, <1>2, <2>1, <2>2 DEF CowInd, Shares, ShareOk
<1>5. ASSUME pt[f][store[f].va].page = pt[e][va].page PROVE FALSE
  <2>1. CASE pt[e][va].LIBRARY
    <3>1. va \in SharedVPNs
      BY <1>2, <1>3, <2>1 DEF PteOk
    <3>2. va = store[f].va
      BY <1>1, <1>2, <1>5, <3>1 DEF CowInd, Shares, ShareOk
    <3> QED
      BY <1>1, <1>2, <1>3, <3>1, <3>2 DEF PteOk
  <2>2. CASE ~pt[e][va].LIBRARY
    <3>1. MayShare(e, va, f, store[f].va)
      BY <1>1, <1>2, <1>5, <2>2 DEF CowInd, Shares, ShareOk, Writable
    <3>2. fork[e] # NIL /\ f = fork[e].child
      BY <1>1, <3>1 DEF MayShare
    <3>3. status[f] = "NOT_RUNNABLE"
      BY <3>2, Constants DEF CowInd, EnvsOk, ForkOk
    <3> QED
      BY <1>1, <3>3
  <2> QED
    BY <2>1, <2>2
<1> QED
  BY <1>4, <1>5

-----------------------------------------------------------------------------
(***************************************************************************)
(* Steps that change no entry: Begin, the store itself, the fault, and     *)
(* those of fork but duppage.                                              *)
(***************************************************************************)
\* A step of e that changes no entry and no right to share.
LEMMA NoMapping ==
  ASSUME CowInd, pt' = pt,
         \A f \in Envs : cow[f] = "unmap" => cow'[f] = "unmap" /\ store'[f] = store[f],
         \A f \in Envs : fork[f] # NIL /\ fork[f].half => fork'[f] = fork[f]
  PROVE  Pte' /\ Shares'
<1>1. Pte'
  BY DEF CowInd, Pte, PteOk, Mapped
<1>2. ASSUME NEW e \in Envs, NEW va \in Addrs, NEW f \in Envs, NEW vb \in Addrs, MayShare(e, va, f, vb)
      PROVE  MayShare(e, va, f, vb)'
  <2>1. CASE fork[e] # NIL /\ fork[e].half /\ Next_vpn(e, va)
    BY <1>2, <2>1 DEF MayShare, Next_vpn
  <2>2. CASE ~(fork[e] # NIL /\ fork[e].half /\ Next_vpn(e, va))
    BY <1>2, <2>2 DEF MayShare
  <2> QED
    BY <2>1, <2>2
<1>3. Shares'
  BY <1>2 DEF CowInd, Shares, ShareOk, Mapped
<1> QED
  BY <1>1, <1>3

\* The invariant of the environments that a step leaves alone.
LEMMA SameEnv ==
  ASSUME CowInd, pt' = pt, word' = word, NEW e \in Envs,
         status'[e] = status[e], entry'[e] = entry[e], store'[e] = store[e], cow'[e] = cow[e]
  PROVE  fork'[e] = fork[e] => EnvOk(e)'
  BY DEF CowInd, EnvsOk, EnvOk, Mapped

LEMMA SameFork ==
  ASSUME CowInd, pt' = pt, NEW e \in Envs, fork' = fork, entry' = entry, status' = status,
         store'[e] = store[e]
  PROVE  ForkOk(e)'
<1>1. ForkOk(e)
  BY DEF CowInd, EnvsOk
<1>2. \A v \in VPNs : Next_vpn(e, v)' <=> Next_vpn(e, v)
  BY DEF Next_vpn
<1> QED
  BY <1>1, <1>2 DEF ForkOk, Mapped

LEMMA BeginStep ==
  ASSUME CowInd, NEW e \in Envs, NEW v \in VPNs, NEW w \in Words, Begin(e, v, w)
  PROVE  CowInd'
<1>1. /\ cow[e] = "no" /\ status[e] = "RUNNABLE" /\ (fork[e] # NIL => v = StackVPN)
      /\ store' = [store EXCEPT ![e] = [va |-> v, w |-> w]] /\ stores < MaxStores /\ stores' = stores + 1
      /\ UNCHANGED <<pt, word, status, entry, fork, cow, panic, forks>>
  BY DEF Begin, InUser, Running
<1>2. [va |-> v, w |-> w] \in InStore /\ store \in [Envs -> InStore \cup {NIL}]
  BY DEF InStore, CowInd, TypeOK
<1>3. TypeOK'
  <2>1. store' \in [Envs -> InStore \cup {NIL}]
    BY <1>1, <1>2
  <2>2. stores' \in 0 .. MaxStores
    <3>1. stores \in 0 .. MaxStores
      BY DEF CowInd, TypeOK
    <3> QED
      BY <1>1, <3>1, Constants
  <2> QED
    BY <1>1, <2>1, <2>2 DEF CowInd, TypeOK
<1>4. \A f \in Envs : f # e => store'[f] = store[f]
  BY <1>1, <1>2
<1>5. Pte' /\ Shares'
  BY <1>1, <1>4, NoMapping
<1>6. ASSUME NEW f \in Envs PROVE EnvOk(f)' /\ ForkOk(f)'
  <2>1. CASE f # e
    <3>1. /\ store'[f] = store[f] /\ status' = status /\ entry' = entry /\ fork' = fork /\ cow' = cow
          /\ pt' = pt /\ word' = word
      BY <1>1, <1>4, <2>1
    <3>2. EnvOk(f)'
      BY <3>1, SameEnv
    <3> QED
      BY <3>1, <3>2, SameFork
  <2>2. CASE f = e
    <3>1. EnvOk(e)'
      BY <1>1 DEF CowInd, EnvsOk, EnvOk, Mapped
    <3>2. ForkOk(e) /\ \A x \in VPNs : Next_vpn(e, x)' <=> Next_vpn(e, x)
      BY <1>1 DEF CowInd, EnvsOk, Next_vpn
    <3>3. store'[e].va = v
      BY <1>1, <1>2
    <3>4. ForkOk(e)'
      BY <1>1, <3>2, <3>3 DEF ForkOk, Mapped
    <3> QED
      BY <2>2, <3>1, <3>4
  <2> QED
    BY <2>1, <2>2
<1>7. BlankOk' /\ NoBadFault'
  BY <1>1 DEF CowInd, BlankOk, NoBadFault, Mapped
<1> QED
  BY <1>3, <1>5, <1>6, <1>7 DEF CowInd, EnvsOk

\* A store that goes through.
WriteThrough(e) ==
  /\ Running(e) /\ store[e] # NIL /\ cow[e] = "no"
  /\ Mapped(e, store[e].va) /\ pt[e][store[e].va].D
  /\ word' = [word EXCEPT ![pt[e][store[e].va].page] = store[e].w]
  /\ store' = [store EXCEPT ![e] = NIL]
  /\ UNCHANGED <<pt, status, entry, fork, cow, panic, forks, stores>>

LEMMA WriteStep ==
  ASSUME CowInd, NEW e \in Envs, WriteThrough(e)
  PROVE  CowInd'
<1> DEFINE va == store[e].va
           p  == pt[e][va].page
<1>1. /\ status[e] = "RUNNABLE" /\ store[e] # NIL /\ cow[e] = "no" /\ Mapped(e, va) /\ pt[e][va].D
      /\ word' = [word EXCEPT ![p] = store[e].w] /\ store' = [store EXCEPT ![e] = NIL]
      /\ UNCHANGED <<pt, status, entry, fork, cow, panic, forks, stores>>
  BY DEF WriteThrough, Running
<1>2. va \in VPNs /\ va \in Addrs /\ store[e].w \in Words /\ p \in Pages /\ word \in [Pages -> Words]
  BY <1>1, Typed DEF CowInd, Addrs
<1>3. store \in [Envs -> InStore \cup {NIL}] /\ store' \in [Envs -> InStore \cup {NIL}] /\ word' \in [Pages -> Words]
  BY <1>1, <1>2 DEF CowInd, TypeOK
<1>4. TypeOK'
  BY <1>1, <1>3 DEF CowInd, TypeOK
<1>5. store'[e] = NIL /\ \A f \in Envs : f # e => store'[f] = store[f]
  BY <1>1, <1>3
<1>6. Pte' /\ Shares'
  BY <1>1, <1>5, NoMapping
<1>7. \A q \in Pages : q # p => word'[q] = word[q]
  BY <1>1, <1>2
<1>8. ASSUME NEW f \in Envs PROVE EnvOk(f)' /\ ForkOk(f)'
  <2>1. EnvOk(f) /\ ForkOk(f) /\ \A x \in VPNs : Next_vpn(f, x)' <=> Next_vpn(f, x)
    BY <1>1 DEF CowInd, EnvsOk, Next_vpn
  <2>2. CASE f = e
    BY <1>1, <1>5, <2>1, <2>2 DEF EnvOk, ForkOk, Mapped
  <2>3. CASE f # e
    <3>1. store'[f] = store[f]
      BY <1>5, <2>3
    <3>2. ASSUME cow[f] = "map"
          PROVE  word'[pt[f][UCOW].page] = word'[pt[f][store[f].va].page]
      <4>1. pt[f][UCOW].page # p /\ pt[f][store[f].va].page # p
        BY <1>1, <1>2, <3>2, StoreApart
      <4>2. Mapped(f, UCOW) /\ Mapped(f, store[f].va) /\ store[f].va \in Addrs /\ UCOW \in Addrs
        BY <2>1, <3>2, Typed DEF EnvOk, CowInd, Addrs
      <4>3. pt[f][UCOW].page \in Pages /\ pt[f][store[f].va].page \in Pages
        BY <4>2, Typed DEF CowInd
      <4> QED
        BY <1>7, <2>1, <3>2, <4>1, <4>3 DEF EnvOk
    <3>3. EnvOk(f)'
      BY <1>1, <2>1, <3>1, <3>2 DEF EnvOk, Mapped
    <3>4. ForkOk(f)'
      BY <1>1, <2>1, <3>1 DEF ForkOk, Mapped
    <3> QED
      BY <3>3, <3>4
  <2> QED
    BY <2>2, <2>3
<1>9. BlankOk' /\ NoBadFault'
  <2>1. \A q \in Pages : word'[q] # Zero => q = p \/ word[q] # Zero
    BY <1>7
  <2> QED
    BY <1>1, <1>2, <2>1 DEF CowInd, BlankOk, NoBadFault, Mapped
<1> QED
  BY <1>4, <1>6, <1>8, <1>9 DEF CowInd, EnvsOk

\* The fault: into cow_entry, which e then has.
Fault(e) ==
  /\ Running(e) /\ store[e] # NIL /\ cow[e] = "no"
  /\ Mapped(e, store[e].va) /\ ~pt[e][store[e].va].D
  /\ do_tlb_mod(e)

LEMMA FaultStep ==
  ASSUME CowInd, NEW e \in Envs, Fault(e)
  PROVE  CowInd'
<1>1. /\ status[e] = "RUNNABLE" /\ store[e] # NIL /\ cow[e] = "no"
      /\ Mapped(e, store[e].va) /\ ~pt[e][store[e].va].D /\ store[e].va \in VPNs
  BY Typed DEF Fault, Running, CowInd
<1>2. EnvOk(e) /\ PteOk(e, store[e].va) /\ pt[e][store[e].va].COW
  BY <1>1 DEF CowInd, EnvsOk, Pte, Addrs, PteOk
<1>3. entry[e]
  BY <1>1, <1>2 DEF EnvOk, Addrs
<1>4. /\ cow' = [cow EXCEPT ![e] = "alloc"]
      /\ UNCHANGED <<pt, word, status, entry, fork, store, panic, forks, stores>>
  BY <1>3 DEF Fault, do_tlb_mod
<1>5. cow \in [Envs -> {"no", "alloc", "copy", "map", "unmap"}]
  BY DEF CowInd, TypeOK
<1>6. TypeOK'
  BY <1>4, <1>5 DEF CowInd, TypeOK
<1>7. cow'[e] = "alloc" /\ \A f \in Envs : f # e => cow'[f] = cow[f]
  BY <1>4, <1>5
<1>8. Pte' /\ Shares'
  BY <1>1, <1>4, <1>7, NoMapping
<1>9. ASSUME NEW f \in Envs PROVE EnvOk(f)' /\ ForkOk(f)'
  <2>1. ForkOk(f)'
    BY <1>4, SameFork
  <2>2. CASE f = e
    BY <1>1, <1>2, <1>4, <1>7, <2>1, <2>2 DEF EnvOk, Mapped
  <2>3. CASE f # e
    BY <1>4, <1>7, <2>1, <2>3, SameEnv
  <2> QED
    BY <2>2, <2>3
<1>10. BlankOk' /\ NoBadFault'
  BY <1>4 DEF CowInd, BlankOk, NoBadFault, Mapped
<1> QED
  BY <1>6, <1>8, <1>9, <1>10 DEF CowInd, EnvsOk

\* Giving up for want of memory.
LEMMA HaltStep ==
  ASSUME CowInd, Halt("no memory")
  PROVE  CowInd'
<1>1. panic' = "no memory" /\ UNCHANGED <<pt, word, status, entry, fork, store, cow, forks, stores>>
  BY DEF Halt
<1>2. TypeOK'
  BY <1>1 DEF CowInd, TypeOK
<1>3. Pte' /\ Shares'
  BY <1>1, NoMapping
<1>4. EnvsOk'
  BY <1>1, SameEnv, SameFork DEF EnvsOk
<1>5. BlankOk' /\ NoBadFault'
  BY <1>1 DEF CowInd, BlankOk, NoBadFault, Mapped
<1> QED
  BY <1>2, <1>3, <1>4, <1>5 DEF CowInd

LEMMA EntryStep ==
  ASSUME CowInd, NEW e \in Envs, fork_entry(e)
  PROVE  CowInd'
<1>1. /\ fork[e] = NIL /\ entry' = [entry EXCEPT ![e] = TRUE]
      /\ UNCHANGED <<pt, word, status, fork, store, cow, panic, forks, stores>>
  BY DEF fork_entry
<1>2. entry \in [Envs -> BOOLEAN]
  BY DEF CowInd, TypeOK
<1>3. TypeOK'
  BY <1>1, <1>2 DEF CowInd, TypeOK
<1>4. entry'[e] = TRUE /\ \A f \in Envs : f # e => entry'[f] = entry[f]
  BY <1>1, <1>2
<1>5. Pte' /\ Shares'
  BY <1>1, NoMapping
<1>6. ASSUME NEW f \in Envs PROVE EnvOk(f)' /\ ForkOk(f)'
  <2>1. EnvOk(f) /\ ForkOk(f) /\ \A x \in VPNs : Next_vpn(f, x)' <=> Next_vpn(f, x)
    BY <1>1 DEF CowInd, EnvsOk, Next_vpn
  <2>2. entry[f] => entry'[f]
    BY <1>4
  <2>3. EnvOk(f)'
    BY <1>1, <2>1, <2>2 DEF EnvOk, Mapped
  <2>4. ForkOk(f)'
    BY <1>1, <2>1, <2>2 DEF ForkOk, Mapped
  <2> QED
    BY <2>3, <2>4
<1>7. BlankOk' /\ NoBadFault'
  BY <1>1 DEF CowInd, BlankOk, NoBadFault, Mapped
<1> QED
  BY <1>3, <1>5, <1>6, <1>7 DEF CowInd, EnvsOk

LEMMA ExoforkStep ==
  ASSUME CowInd, NEW e \in Envs, fork_exofork(e)
  PROVE  CowInd'
<1>1. /\ status[e] = "RUNNABLE" /\ store[e] = NIL /\ cow[e] = "no" /\ fork[e] = NIL /\ entry[e]
      /\ forks < MaxForks /\ forks' = forks + 1 /\ UNCHANGED <<pt, word, store, cow, panic, stores>>
  BY DEF fork_exofork, InUser, Running
<1>2. PICK c \in Envs \cup {NIL} :
        /\ \/ /\ c # NIL /\ status[c] = "FREE" /\ status' = [status EXCEPT ![c] = "NOT_RUNNABLE"]
              /\ entry' = [entry EXCEPT ![c] = FALSE]
           \/ c = NIL /\ UNCHANGED <<status, entry>>
        /\ fork' = [fork EXCEPT ![e] = [child |-> c, done |-> {}, half |-> FALSE]]
  BY DEF fork_exofork
<1> DEFINE F == [child |-> c, done |-> {}, half |-> FALSE]
<1>3. F \in InFork /\ F # NIL /\ F.child = c /\ F.done = {} /\ ~F.half
  <2>1. {} \in SUBSET VPNs
    OBVIOUS
  <2>2. F \in InFork
    BY <2>1 DEF InFork
  <2> QED
    BY <2>2, NilAssumption
<1>4. /\ status \in [Envs -> {"FREE", "RUNNABLE", "NOT_RUNNABLE"}] /\ entry \in [Envs -> BOOLEAN]
      /\ fork \in [Envs -> InFork \cup {NIL}] /\ forks \in 0 .. MaxForks
  BY DEF CowInd, TypeOK
<1>5. TypeOK'
  <2>1. fork' \in [Envs -> InFork \cup {NIL}]
    BY <1>2, <1>3, <1>4
  <2>2. status' \in [Envs -> {"FREE", "RUNNABLE", "NOT_RUNNABLE"}] /\ entry' \in [Envs -> BOOLEAN]
    BY <1>2, <1>4
  <2>3. forks' \in 0 .. MaxForks
    BY <1>1, <1>4, Constants
  <2> QED
    BY <1>1, <2>1, <2>2, <2>3 DEF CowInd, TypeOK
<1>6. fork'[e] = F /\ \A f \in Envs : f # e => fork'[f] = fork[f]
  BY <1>2, <1>4
<1>7. Pte' /\ Shares'
  BY <1>1, <1>6, NoMapping
<1>8. c # NIL => /\ c \in Envs /\ c # e /\ status[c] = "FREE" /\ status'[c] = "NOT_RUNNABLE"
                 /\ store[c] = NIL /\ fork[c] = NIL /\ \A va \in Addrs : ~Mapped(c, va)
  BY <1>1, <1>2, <1>4 DEF CowInd, EnvsOk, EnvOk
<1>9. \A f \in Envs : f # c => status'[f] = status[f] /\ entry'[f] = entry[f]
  BY <1>2, <1>4
<1>10. ASSUME NEW f \in Envs PROVE EnvOk(f)' /\ ForkOk(f)'
  <2>1. EnvOk(f) /\ ForkOk(f)
    BY DEF CowInd, EnvsOk
  <2>2. CASE f = e
    <3>1. EnvOk(e)'
      BY <1>1, <1>8, <1>9, <2>1, <2>2, Constants DEF EnvOk, Mapped
    <3>2. \A g \in Envs : fork[g] # NIL => fork[g].child # c \/ c = NIL
      BY <1>8 DEF CowInd, EnvsOk, ForkOk
    <3>3. c # NIL => \A v \in VPNs : ~Mapped(c, v)
      BY <1>8 DEF Addrs
    <3>4. entry'[e]
      BY <1>1, <1>8, <1>9, Constants
    <3>5. ForkOk(e)'
      BY <1>1, <1>3, <1>6, <1>8, <3>2, <3>3, <3>4 DEF ForkOk, Mapped
    <3> QED
      BY <2>2, <3>1, <3>5
  <2>3. CASE f # e
    <3>1. fork'[f] = fork[f] /\ \A x \in VPNs : Next_vpn(f, x)' <=> Next_vpn(f, x)
      BY <1>1, <1>6, <2>3 DEF Next_vpn
    <3>2. EnvOk(f)'
      <4>1. CASE f = c
        BY <1>1, <1>8, <2>1, <3>1, <4>1, Constants DEF EnvOk, Mapped
      <4>2. CASE f # c
        BY <1>1, <1>9, <2>1, <3>1, <4>2 DEF EnvOk, Mapped
      <4> QED
        BY <4>1, <4>2
    <3>3. ForkOk(f)'
      <4>1. fork[f] # NIL => f # c /\ entry'[f] = entry[f]
        BY <1>8, <1>9, Constants
      <4>2. fork[f] # NIL /\ fork[f].child # NIL => fork[f].child # c
        BY <1>8, <2>1 DEF ForkOk
      <4>3. fork[f] # NIL /\ fork[f].child # NIL =>
              /\ fork[f].child \in Envs /\ status'[fork[f].child] = status[fork[f].child]
              /\ \A g \in Envs : fork'[g] # NIL /\ fork'[g].child = fork[f].child => g = f
        BY <1>3, <1>6, <1>9, <2>1, <4>2, Typed DEF ForkOk, CowInd
      <4> QED
        BY <1>1, <2>1, <3>1, <4>1, <4>3 DEF ForkOk, Mapped
    <3> QED
      BY <3>2, <3>3
  <2> QED
    BY <2>2, <2>3
<1>11. BlankOk' /\ NoBadFault'
  BY <1>1 DEF CowInd, BlankOk, NoBadFault, Mapped
<1> QED
  BY <1>5, <1>7, <1>10, <1>11 DEF CowInd, EnvsOk

\* The end of fork: nothing is left to be copied, so the child has all the pages
\* its parent has.
LEMMA NoneLeft ==
  ASSUME CowInd, NEW e \in Envs, fork[e] # NIL, \A v \in VPNs : ~Next_vpn(e, v)
  PROVE  ~fork[e].half /\ \A v \in VPNs : Mapped(e, v) => v \in fork[e].done
<1>1. ~fork[e].half
  BY Typed DEF CowInd, EnvsOk, ForkOk
<1> DEFINE S == {v \in VPNs \ fork[e].done : Mapped(e, v)}
<1>2. S = {}
  <2> SUFFICES ASSUME S # {} PROVE FALSE
    OBVIOUS
  <2>1. S \subseteq VPNs
    OBVIOUS
  <2>2. S \subseteq Int /\ IsFiniteSet(S)
    <3> HIDE DEF S
    <3>1. S \subseteq Int
      BY <2>1, Constants
    <3>2. IsFiniteSet(S)
      BY <2>1, VPNsFinite, FS_Subset
    <3> QED
      BY <3>1, <3>2
  <2>3. PICK v \in S : \A x \in S : v <= x
    BY <2>2, Minimum
  <2>4. Next_vpn(e, v)
    BY <2>3 DEF Next_vpn, Mapped
  <2> QED
    BY <2>4
<1> QED
  BY <1>1, <1>2

LEMMA EndStep ==
  ASSUME CowInd, NEW e \in Envs, fork_end(e)
  PROVE  CowInd'
<1>1. /\ status[e] = "RUNNABLE" /\ store[e] = NIL /\ cow[e] = "no" /\ fork[e] # NIL
      /\ \A v \in VPNs : ~Next_vpn(e, v)
      /\ UNCHANGED <<pt, word, store, cow, panic, forks, stores>>
  BY DEF fork_end, InLoop, InUser, Running
<1> DEFINE c == fork[e].child
<1>2. EnvOk(e) /\ ForkOk(e) /\ c \in Envs \cup {NIL} /\ ~fork[e].half
  BY <1>1, NoneLeft, Typed DEF CowInd, EnvsOk
<1>3. \A v \in VPNs : Mapped(e, v) => v \in fork[e].done
  BY <1>1, NoneLeft
<1>4. /\ status \in [Envs -> {"FREE", "RUNNABLE", "NOT_RUNNABLE"}] /\ entry \in [Envs -> BOOLEAN]
      /\ fork \in [Envs -> InFork \cup {NIL}]
  BY DEF CowInd, TypeOK
<1>5. /\ c # NIL => c \in Envs /\ c # e /\ status[c] = "NOT_RUNNABLE" /\ EnvOk(c)
      /\ c # NIL => \A v \in VPNs : Mapped(c, v) <=> v \in fork[e].done
  BY <1>1, <1>2 DEF CowInd, EnvsOk, ForkOk
<1>6. CASE c # NIL /\ entry' = [entry EXCEPT ![c] = TRUE] /\ UNCHANGED <<status, fork>>
  <2>1. TypeOK'
    <3>1. entry' \in [Envs -> BOOLEAN]
      BY <1>4, <1>6
    <3> QED
      BY <1>1, <1>6, <3>1 DEF CowInd, TypeOK
  <2>2. Pte' /\ Shares'
    BY <1>1, <1>6, NoMapping
  <2>3. \A f \in Envs : entry[f] => entry'[f]
    BY <1>4, <1>6
  <2>4. ASSUME NEW f \in Envs PROVE EnvOk(f)' /\ ForkOk(f)'
    <3>1. EnvOk(f) /\ ForkOk(f) /\ \A x \in VPNs : Next_vpn(f, x)' <=> Next_vpn(f, x)
      BY <1>1, <1>6 DEF CowInd, EnvsOk, Next_vpn
    <3>2. EnvOk(f)'
      BY <1>1, <1>6, <2>3, <3>1 DEF EnvOk, Mapped
    <3>3. ForkOk(f)'
      BY <1>1, <1>6, <2>3, <3>1 DEF ForkOk, Mapped
    <3> QED
      BY <3>2, <3>3
  <2>5. BlankOk' /\ NoBadFault'
    BY <1>1 DEF CowInd, BlankOk, NoBadFault, Mapped
  <2> QED
    BY <2>1, <2>2, <2>4, <2>5 DEF CowInd, EnvsOk
<1>7. CASE /\ c # NIL => entry[c]
           /\ fork' = [fork EXCEPT ![e] = NIL]
           /\ status' = IF c = NIL THEN status ELSE [status EXCEPT ![c] = "RUNNABLE"]
           /\ UNCHANGED entry
  <2>1. TypeOK'
    <3>1. fork' \in [Envs -> InFork \cup {NIL}]
      BY <1>4, <1>7
    <3>2. status' \in [Envs -> {"FREE", "RUNNABLE", "NOT_RUNNABLE"}]
      BY <1>2, <1>4, <1>7
    <3> QED
      BY <1>1, <1>7, <3>1, <3>2 DEF CowInd, TypeOK
  <2>2. fork'[e] = NIL /\ \A f \in Envs : f # e => fork'[f] = fork[f]
    BY <1>4, <1>7
  <2>3. /\ \A f \in Envs : f # c => status'[f] = status[f]
        /\ c # NIL => status'[c] = "RUNNABLE"
    BY <1>2, <1>4, <1>7
  <2>4. Pte' /\ Shares'
    BY <1>1, <1>2, <2>2, NoMapping
  <2>5. ASSUME NEW f \in Envs PROVE EnvOk(f)' /\ ForkOk(f)'
    <3>1. EnvOk(f) /\ ForkOk(f)
      BY DEF CowInd, EnvsOk
    <3>2. CASE f = c
      <4>1. \A v \in SharedVPNs : Mapped(c, v)
        <5>1. \A v \in SharedVPNs : Mapped(e, v) /\ v \in VPNs
          BY <1>1, <1>2, Constants DEF EnvOk
        <5> QED
          BY <1>3, <1>5, <3>2, <5>1, Constants
      <4>2. c # NIL /\ fork'[c] = NIL /\ entry[c] /\ status'[c] = "RUNNABLE" /\ store[c] = NIL
        BY <1>5, <1>7, <2>2, <2>3, <3>2, Constants DEF EnvOk
      <4> QED
        BY <1>1, <1>7, <3>1, <3>2, <4>1, <4>2 DEF EnvOk, ForkOk, Mapped
    <3>3. CASE f # c
      <4>1. EnvOk(f)'
        BY <1>1, <1>7, <2>2, <2>3, <3>1, <3>3 DEF EnvOk, Mapped
      <4>2. CASE f = e
        BY <2>2, <4>1, <4>2 DEF ForkOk
      <4>3. CASE f # e
        <5>1. fork'[f] = fork[f] /\ \A x \in VPNs : Next_vpn(f, x)' <=> Next_vpn(f, x)
          BY <1>1, <2>2, <4>3 DEF Next_vpn
        <5>2. fork[f] # NIL /\ fork[f].child # NIL =>
                /\ fork[f].child \in Envs /\ status'[fork[f].child] = status[fork[f].child]
                /\ \A g \in Envs : fork'[g] # NIL /\ fork'[g].child = fork[f].child => g = f
          BY <1>1, <1>2, <2>2, <2>3, <3>1, <4>3, Typed DEF ForkOk, CowInd
        <5>3. ForkOk(f)'
          BY <1>1, <1>7, <3>1, <5>1, <5>2 DEF ForkOk, Mapped
        <5> QED
          BY <4>1, <5>3
      <4> QED
        BY <4>2, <4>3
    <3> QED
      BY <3>2, <3>3
  <2>6. BlankOk' /\ NoBadFault'
    BY <1>1 DEF CowInd, BlankOk, NoBadFault, Mapped
  <2> QED
    BY <2>1, <2>4, <2>5, <2>6 DEF CowInd, EnvsOk
<1> QED
  BY <1>6, <1>7 DEF fork_end, HasHandler

-----------------------------------------------------------------------------
(***************************************************************************)
(* Steps that map or unmap a page.                                         *)
(***************************************************************************)
\* An environment that a step does not touch, nor its child.
LEMMA OtherEnvs ==
  ASSUME CowInd, NEW f \in Envs,
         status'[f] = status[f], entry'[f] = entry[f], fork'[f] = fork[f], store'[f] = store[f], cow'[f] = cow[f],
         \A va \in Addrs : pt'[f][va] = pt[f][va],
         \A va \in Addrs : cow[f] = "map" /\ Mapped(f, va) => word'[pt[f][va].page] = word[pt[f][va].page],
         fork[f] # NIL /\ fork[f].child # NIL =>
           /\ status'[fork[f].child] = status[fork[f].child]
           /\ \A va \in Addrs : pt'[fork[f].child][va] = pt[fork[f].child][va],
         \A g \in Envs : fork'[g] # NIL => fork[g] # NIL /\ fork'[g].child = fork[g].child
  PROVE  EnvOk(f)' /\ ForkOk(f)'
<1>1. EnvOk(f) /\ ForkOk(f)
  BY DEF CowInd, EnvsOk
<1>2. \A x \in VPNs : Next_vpn(f, x)' <=> Next_vpn(f, x)
  BY DEF Next_vpn, Addrs
<1>3. cow[f] = "map" => word'[pt[f][UCOW].page] = word'[pt[f][store[f].va].page]
  <2>1. cow[f] = "map" => Mapped(f, UCOW) /\ Mapped(f, store[f].va) /\ UCOW \in Addrs /\ store[f].va \in Addrs
    BY <1>1, Typed DEF EnvOk, CowInd, Addrs
  <2> QED
    BY <1>1, <2>1 DEF EnvOk
<1>4. EnvOk(f)'
  <2>1. store[f] # NIL => store[f].va \in Addrs
    BY Typed DEF CowInd, Addrs
  <2>2. UCOW \in Addrs /\ SharedVPNs \subseteq Addrs
    BY Constants DEF Addrs
  <2> QED
    BY <1>1, <1>3, <2>1, <2>2 DEF EnvOk, Mapped
<1>5. ForkOk(f)'
  <2>1. VPNs \subseteq Addrs
    BY DEF Addrs
  <2> QED
    BY <1>1, <1>2, <2>1 DEF ForkOk, Mapped
<1> QED
  BY <1>4, <1>5

\* e's own place in fork, when its pages stay mapped and those it may write stay
\* as they are.
LEMMA OwnFork ==
  ASSUME CowInd, NEW e \in Envs, UNCHANGED <<status, entry, fork, store>>,
         \A f \in Envs, va \in Addrs : f # e => pt'[f][va] = pt[f][va],
         \A v \in VPNs : Mapped(e, v) <=> Mapped(e, v)',
         \A v \in VPNs : Mapped(e, v) /\ Writable(pt[e][v]) => pt'[e][v] = pt[e][v],
         status[e] = "RUNNABLE"
  PROVE  ForkOk(e)'
<1>1. ForkOk(e)
  BY DEF CowInd, EnvsOk
<1>2. \A x \in VPNs : Next_vpn(e, x)' <=> Next_vpn(e, x)
  BY DEF Next_vpn, Mapped
<1>3. fork[e] # NIL /\ fork[e].child # NIL => \A v \in VPNs : pt'[fork[e].child][v] = pt[fork[e].child][v]
  BY <1>1, Typed DEF ForkOk, CowInd, Addrs
<1>4. \A v \in VPNs : Next_vpn(e, v) => Mapped(e, v)
  BY DEF Next_vpn, Mapped
<1> QED
  BY <1>1, <1>2, <1>3, <1>4 DEF ForkOk, Mapped

\* A fresh page for e, at an address where it has none.
LEMMA FreshStep ==
  ASSUME CowInd, NEW e \in Envs, NEW va \in Addrs \ SharedVPNs, NEW p \in page_alloc,
         status[e] = "RUNNABLE", ~Mapped(e, va),
         fork[e] # NIL => va \in {UCOW, StackVPN},
         cow[e] \in IF va = UCOW THEN {"alloc", "copy"} ELSE {"no"},
         NEW pte \in PTEs, pte # NIL, pte.page = p, pte.D, ~pte.COW, ~pte.LIBRARY,
         pt' = [pt EXCEPT ![e][va] = pte],
         cow' = [cow EXCEPT ![e] = IF va = UCOW THEN "copy" ELSE "no"],
         UNCHANGED <<word, status, entry, fork, store, panic, forks, stores>>
  PROVE  CowInd'
<1>1. /\ p \in Pages
      /\ \A f \in Envs, vb \in Addrs : Mapped(f, vb) => pt[f][vb].page # p
  BY Fresh DEF Mapped, Addrs
<1>2. pte \in PTEs /\ pte # NIL /\ pte.page = p /\ pte.D /\ ~pte.COW /\ ~pte.LIBRARY
  OBVIOUS
<1>3. /\ pt'[e][va] = pte
      /\ \A f \in Envs, vb \in Addrs : (f = e /\ vb = va) \/ pt'[f][vb] = pt[f][vb]
      /\ pt' \in [Envs -> [Addrs -> PTEs \cup {NIL}]]
  <2>1. pt \in [Envs -> [Addrs -> PTEs \cup {NIL}]]
    BY Typed DEF CowInd
  <2>2. pt'[e][va] = pte
    BY <2>1
  <2>3. ASSUME NEW f \in Envs, NEW vb \in Addrs, ~(f = e /\ vb = va) PROVE pt'[f][vb] = pt[f][vb]
    BY <2>1, <2>3
  <2>4. pt' \in [Envs -> [Addrs -> PTEs \cup {NIL}]]
    BY <1>2, <2>1
  <2> QED
    BY <2>2, <2>3, <2>4
<1>4. cow \in [Envs -> {"no", "alloc", "copy", "map", "unmap"}]
  BY DEF CowInd, TypeOK
<1>5. cow'[e] = (IF va = UCOW THEN "copy" ELSE "no") /\ \A f \in Envs : f # e => cow'[f] = cow[f]
  BY <1>4
<1>6. TypeOK'
  <2>1. cow' \in [Envs -> {"no", "alloc", "copy", "map", "unmap"}]
    BY <1>4, <1>5
  <2> QED
    BY <1>3, <2>1, TypeKept DEF CowInd, TypeOK
<1>7. Pte'
  <2>1. ASSUME NEW f \in Envs, NEW vb \in Addrs PROVE PteOk(f, vb)'
    <3>1. PteOk(f, vb)
      BY DEF CowInd, Pte
    <3>2. CASE f = e /\ vb = va
      BY <1>2, <1>3, <3>2 DEF PteOk, Mapped
    <3>3. CASE ~(f = e /\ vb = va)
      BY <1>3, <3>1, <3>3 DEF PteOk, Mapped
    <3> QED
      BY <3>2, <3>3
  <2> QED
    BY <2>1 DEF Pte
<1>8. ASSUME NEW f \in Envs, NEW v \in VPNs, fork[f] # NIL, Next_vpn(f, v)
      PROVE  Next_vpn(f, v)'
  <2>1. \A x \in VPNs : Mapped(f, x) => Mapped(f, x)'
    BY <1>2, <1>3 DEF Mapped, Addrs
  <2>2. \A x \in VPNs : Mapped(f, x)' => Mapped(f, x) \/ x = StackVPN
    <3> SUFFICES ASSUME NEW x \in VPNs, Mapped(f, x)', ~Mapped(f, x) PROVE x = StackVPN
      OBVIOUS
    <3>1. f = e /\ x = va
      BY <1>3 DEF Mapped, Addrs
    <3> QED
      BY <1>8, <3>1, Constants
  <2>3. fork'[f].done = fork[f].done
    OBVIOUS
  <2> QED
    BY <1>8, <2>1, <2>2, <2>3, NextKept
<1>9. Shares'
  <2>1. ASSUME NEW f \in Envs, NEW vb \in Addrs, NEW g \in Envs, NEW vc \in Addrs
        PROVE  ShareOk(f, vb, g, vc)'
    <3>1. ShareOk(f, vb, g, vc)
      BY DEF CowInd, Shares
    <3>2. CASE ~(f = e /\ vb = va) /\ ~(g = e /\ vc = va)
      <4>1. pt'[f][vb] = pt[f][vb] /\ pt'[g][vc] = pt[g][vc]
        BY <1>3, <3>2
      <4>2. MayShare(f, vb, g, vc) => MayShare(f, vb, g, vc)'
        <5>1. cow[f] = "unmap" => cow'[f] = "unmap" /\ store'[f] = store[f]
          BY <1>5, Constants
        <5>2. fork[f] # NIL /\ Next_vpn(f, vb) => Next_vpn(f, vb)'
          BY <1>8 DEF Next_vpn
        <5> QED
          BY <5>1, <5>2 DEF MayShare
      <4> QED
        BY <3>1, <4>1, <4>2 DEF ShareOk, Mapped
    <3>3. CASE f = e /\ vb = va /\ g = e /\ vc = va
      BY <1>3, <3>3 DEF ShareOk, MayShare
    <3>4. CASE f = e /\ vb = va /\ ~(g = e /\ vc = va)
      <4>1. pt'[g][vc] = pt[g][vc] /\ pt'[f][vb] = pte /\ vb \notin SharedVPNs
        BY <1>3, <3>4
      <4>2. Mapped(g, vc)' => pt'[g][vc].page # pt'[f][vb].page
        BY <1>1, <1>2, <4>1 DEF Mapped
      <4> QED
        BY <4>1, <4>2 DEF ShareOk
    <3>5. CASE ~(f = e /\ vb = va) /\ g = e /\ vc = va
      <4>1. pt'[f][vb] = pt[f][vb] /\ pt'[g][vc] = pte /\ (f = g => vb # vc)
        BY <1>3, <3>5
      <4>2. Mapped(f, vb)' => pt'[f][vb].page # pt'[g][vc].page
        BY <1>1, <1>2, <4>1 DEF Mapped
      <4>3. vc \notin SharedVPNs
        BY <3>5
      <4> QED
        BY <4>2, <4>3 DEF ShareOk
    <3> QED
      BY <3>2, <3>3, <3>4, <3>5
  <2> QED
    BY <2>1 DEF Shares
<1>10. EnvOk(e)'
  <2>1. EnvOk(e) /\ UCOW \in Addrs /\ SharedVPNs \subseteq Addrs /\ UCOW \notin SharedVPNs
    BY Constants DEF CowInd, EnvsOk, Addrs
  <2>2. \A vb \in Addrs : vb # va => pt'[e][vb] = pt[e][vb]
    BY <1>3
  <2>3. store[e] # NIL => store[e].va \in VPNs /\ store[e].va # UCOW
    BY Typed, Constants DEF CowInd
  <2>4. CASE va = UCOW
    <3>1. /\ cow'[e] = "copy" /\ store[e] # NIL /\ Mapped(e, store[e].va) /\ pt[e][store[e].va].COW
          /\ store[e].va \in Addrs
      BY <1>5, <2>1, <2>3, <2>4 DEF EnvOk, Addrs
    <3>2. pt'[e][store[e].va] = pt[e][store[e].va]
      BY <2>2, <2>3, <2>4, <3>1
    <3>3. Mapped(e, store[e].va)' /\ pt'[e][store[e].va].COW
      BY <3>1, <3>2 DEF Mapped
    <3>4. \A v \in SharedVPNs : Mapped(e, v)'
      BY <2>1, <2>2, <2>4 DEF EnvOk, Mapped
    <3>5. ~entry[e] => \A vb \in Addrs : Mapped(e, vb)' => ~pt'[e][vb].COW
      BY <1>2, <1>3, <2>1, <2>2 DEF EnvOk, Mapped
    <3> QED
      BY <3>1, <3>3, <3>4, <3>5 DEF EnvOk
  <2>5. CASE va # UCOW
    <3>1. cow'[e] = "no" /\ ~Mapped(e, UCOW)'
      BY <1>5, <2>1, <2>2, <2>5 DEF EnvOk, Mapped
    <3>2. \A v \in SharedVPNs : Mapped(e, v)'
      BY <2>1, <2>2 DEF EnvOk, Mapped
    <3>3. ~entry[e] => \A vb \in Addrs : Mapped(e, vb)' => ~pt'[e][vb].COW
      BY <1>2, <1>3, <2>1, <2>2 DEF EnvOk, Mapped
    <3> QED
      BY <3>1, <3>2, <3>3 DEF EnvOk
  <2> QED
    BY <2>4, <2>5
<1>11. ForkOk(e)'
  <2>1. ForkOk(e) /\ fork'[e] = fork[e]
    BY DEF CowInd, EnvsOk
  <2>2. CASE fork[e] # NIL
    <3> DEFINE c == fork[e].child
    <3>1. c # NIL => c \in Envs /\ c # e /\ \A v \in Addrs : pt'[c][v] = pt[c][v]
      BY <1>3, <2>1, <2>2, Typed DEF ForkOk, CowInd
    <3>2. \A v \in VPNs : fork[e].half => (Next_vpn(e, v)' <=> Next_vpn(e, v))
      <4> SUFFICES ASSUME NEW v \in VPNs, fork[e].half, Next_vpn(e, v)' PROVE Next_vpn(e, v)
        BY <1>8, <2>2
      <4>1. PICK w \in VPNs : Next_vpn(e, w)
        BY <2>1, <2>2 DEF ForkOk
      <4>2. Next_vpn(e, w)'
        BY <1>8, <2>2, <4>1
      <4>3. v <= w /\ w <= v /\ v \in Nat /\ w \in Nat
        BY <4>2, Constants DEF Next_vpn
      <4> QED
        BY <4>1, <4>3
    <3>3. ASSUME NEW v \in VPNs, Next_vpn(e, v)
          PROVE  pt'[e][v] = pt[e][v]
      BY <1>3, <3>3 DEF Next_vpn, Mapped, Addrs
    <3>4. fork[e].half => \E v \in VPNs : /\ Next_vpn(e, v)' /\ Writable(pt'[e][v])
                                          /\ c # NIL => pt'[c][v].page = pt'[e][v].page
      <4> SUFFICES ASSUME fork[e].half
                   PROVE  \E v \in VPNs : /\ Next_vpn(e, v)' /\ Writable(pt'[e][v])
                                          /\ c # NIL => pt'[c][v].page = pt'[e][v].page
        OBVIOUS
      <4>1. PICK v \in VPNs : /\ Next_vpn(e, v) /\ Writable(pt[e][v])
                              /\ c # NIL => pt[c][v].page = pt[e][v].page
        BY <2>1, <2>2 DEF ForkOk
      <4>2. Next_vpn(e, v)' /\ pt'[e][v] = pt[e][v] /\ (c # NIL => pt'[c][v] = pt[c][v])
        BY <1>8, <2>2, <3>1, <3>3, <4>1 DEF Addrs
      <4> QED
        BY <4>1, <4>2
    <3>5. c # NIL => \A v \in VPNs : Mapped(c, v)' <=> v \in fork[e].done \/ (fork[e].half /\ Next_vpn(e, v)')
      BY <2>1, <2>2, <3>1, <3>2 DEF ForkOk, Mapped, Addrs
    <3> QED
      BY <2>1, <2>2, <3>4, <3>5 DEF ForkOk
  <2> QED
    BY <2>1, <2>2 DEF ForkOk
<1>12. EnvsOk'
  <2>1. ASSUME NEW f \in Envs, f # e PROVE EnvOk(f)' /\ ForkOk(f)'
    <3>1. fork[f] # NIL /\ fork[f].child # NIL => fork[f].child \in Envs /\ fork[f].child # e
      BY Typed DEF CowInd, EnvsOk, ForkOk
    <3>2. \A g \in Envs, vb \in Addrs : g # e => pt'[g][vb] = pt[g][vb]
      BY <1>3
    <3>3. fork[f] # NIL /\ fork[f].child # NIL =>
            /\ status'[fork[f].child] = status[fork[f].child]
            /\ \A vb \in Addrs : pt'[fork[f].child][vb] = pt[fork[f].child][vb]
      BY <3>1, <3>2
    <3>4. cow'[f] = cow[f] /\ \A vb \in Addrs : pt'[f][vb] = pt[f][vb]
      BY <1>5, <2>1, <3>2
    <3> QED
      BY <3>3, <3>4, OtherEnvs
  <2> QED
    BY <1>10, <1>11, <2>1 DEF EnvsOk
<1>13. BlankOk' /\ NoBadFault'
  <2>1. ASSUME NEW q \in Pages, word'[q] # Zero
        PROVE  \E f \in Envs, vb \in Addrs : Mapped(f, vb)' /\ pt'[f][vb].page = q
    <3>1. PICK f \in Envs, vb \in Addrs : Mapped(f, vb) /\ pt[f][vb].page = q
      BY <2>1 DEF CowInd, BlankOk
    <3>2. pt'[f][vb] = pt[f][vb]
      BY <1>3, <3>1 DEF Mapped
    <3> QED
      BY <3>1, <3>2 DEF Mapped
  <2> QED
    BY <2>1 DEF CowInd, BlankOk, NoBadFault
<1> QED
  BY <1>6, <1>7, <1>9, <1>12, <1>13 DEF CowInd

\* Mapping changes blank the pages that nobody has any more, and no other.
LEMMA Blanked ==
  ASSUME TypeOK, pt' \in [Envs -> [Addrs -> PTEs \cup {NIL}]], Blank(pt')
  PROVE  /\ word' \in [Pages -> Words]
         /\ \A f \in Envs, vb \in Addrs : Mapped(f, vb)' => word'[pt'[f][vb].page] = word[pt'[f][vb].page]
         /\ BlankOk'
<1>1. word' = [p \in Pages |-> IF p \in UsedBy(pt') THEN word[p] ELSE Zero] /\ word \in [Pages -> Words]
  BY Typed DEF Blank
<1>2. word' \in [Pages -> Words]
  BY <1>1, Constants
<1>3. ASSUME NEW f \in Envs, NEW vb \in Addrs, Mapped(f, vb)'
      PROVE  word'[pt'[f][vb].page] = word[pt'[f][vb].page]
  <2>1. pt'[f][vb] # NIL /\ pt'[f][vb].page \in Pages
    BY <1>3 DEF Mapped, PTEs
  <2>2. pt'[f][vb].page \in UsedBy(pt')
    BY <2>1, Used DEF Addrs
  <2> QED
    BY <1>1, <2>1, <2>2
<1>4. ASSUME NEW p \in Pages, word'[p] # Zero
      PROVE  \E f \in Envs, vb \in Addrs : Mapped(f, vb)' /\ pt'[f][vb].page = p
  <2>1. p \in UsedBy(pt')
    BY <1>1, <1>4
  <2> QED
    BY <2>1, Used DEF Addrs, Mapped
<1> QED
  BY <1>2, <1>3, <1>4 DEF BlankOk

LEMMA DemandStep ==
  ASSUME CowInd, NEW e \in Envs, NEW va \in Addrs \ SharedVPNs, Demand(e, va),
         status[e] = "RUNNABLE", ~Mapped(e, va), fork[e] # NIL => va \in {UCOW, StackVPN},
         cow[e] = IF va = UCOW THEN "copy" ELSE "no"
  PROVE  CowInd'
<1>1. CASE Halt("no memory")
  BY <1>1, HaltStep
<1>2. CASE \E p \in page_alloc :
             /\ pt' = [pt EXCEPT ![e][va] = PTE(p, TRUE, FALSE, FALSE)]
             /\ UNCHANGED <<word, status, entry, fork, store, cow, panic, forks, stores>>
  <2>1. PICK p \in page_alloc :
             /\ pt' = [pt EXCEPT ![e][va] = PTE(p, TRUE, FALSE, FALSE)]
             /\ UNCHANGED <<word, status, entry, fork, store, cow, panic, forks, stores>>
    BY <1>2
  <2> DEFINE pte == PTE(p, TRUE, FALSE, FALSE)
  <2>2. pte \in PTEs /\ pte # NIL /\ pte.page = p /\ pte.D /\ ~pte.COW /\ ~pte.LIBRARY
    BY Fresh, FreshPTE
  <2>3. cow' = [cow EXCEPT ![e] = IF va = UCOW THEN "copy" ELSE "no"]
    BY <2>1 DEF CowInd, TypeOK
  <2>4. pt' = [pt EXCEPT ![e][va] = pte] /\ cow[e] \in IF va = UCOW THEN {"alloc", "copy"} ELSE {"no"}
    BY <2>1
  <2>5. UNCHANGED <<word, status, entry, fork, store, panic, forks, stores>>
    BY <2>1
  <2> HIDE DEF pte
  <2> QED
    BY <2>2, <2>3, <2>4, <2>5, FreshStep
<1> QED
  BY <1>1, <1>2 DEF Demand

LEMMA AllocStep ==
  ASSUME CowInd, NEW e \in Envs, cow_alloc(e)
  PROVE  CowInd'
<1>1. status[e] = "RUNNABLE" /\ cow[e] = "alloc"
  BY DEF cow_alloc, Running
<1>2. /\ EnvOk(e) /\ store[e] # NIL /\ Mapped(e, store[e].va) /\ pt[e][store[e].va].COW
      /\ ~Mapped(e, UCOW) /\ store[e].va \in VPNs
  BY <1>1, Typed DEF CowInd, EnvsOk, EnvOk
<1>3. /\ cow' = [cow EXCEPT ![e] = "copy"]
      /\ UNCHANGED <<word, status, entry, fork, store, panic, forks, stores>>
      /\ \/ UNCHANGED pt
         \/ \E p \in page_alloc : pt' = [pt EXCEPT ![e][UCOW] = PTE(p, TRUE, FALSE, FALSE)]
  BY <1>2 DEF cow_alloc, At
<1>4. CASE UNCHANGED pt
  <2>1. cow \in [Envs -> {"no", "alloc", "copy", "map", "unmap"}]
    BY DEF CowInd, TypeOK
  <2>2. cow'[e] = "copy" /\ \A f \in Envs : f # e => cow'[f] = cow[f]
    BY <1>3, <2>1
  <2>3. TypeOK'
    BY <1>3, <1>4, <2>1 DEF CowInd, TypeOK
  <2>4. Pte' /\ Shares'
    BY <1>1, <1>3, <1>4, <2>2, NoMapping
  <2>5. ASSUME NEW f \in Envs PROVE EnvOk(f)' /\ ForkOk(f)'
    <3>1. ForkOk(f)'
      BY <1>3, <1>4, SameFork
    <3>2. CASE f = e
      BY <1>1, <1>2, <1>3, <1>4, <2>2, <3>1, <3>2 DEF EnvOk, Mapped
    <3>3. CASE f # e
      BY <1>3, <1>4, <2>2, <3>1, <3>3, SameEnv
    <3> QED
      BY <3>2, <3>3
  <2>6. BlankOk' /\ NoBadFault'
    BY <1>3, <1>4 DEF CowInd, BlankOk, NoBadFault, Mapped
  <2> QED
    BY <2>3, <2>4, <2>5, <2>6 DEF CowInd, EnvsOk
<1>5. ASSUME NEW p \in page_alloc, pt' = [pt EXCEPT ![e][UCOW] = PTE(p, TRUE, FALSE, FALSE)]
      PROVE  CowInd'
  <2> DEFINE pte == PTE(p, TRUE, FALSE, FALSE)
  <2>1. pte \in PTEs /\ pte # NIL /\ pte.page = p /\ pte.D /\ ~pte.COW /\ ~pte.LIBRARY
    BY Fresh, FreshPTE
  <2>2. pt' = [pt EXCEPT ![e][UCOW] = pte] /\ UCOW \in Addrs \ SharedVPNs
    BY <1>5, Constants DEF Addrs
  <2> HIDE DEF pte
  <2> QED
    BY <1>1, <1>2, <1>3, <2>1, <2>2, FreshStep
<1> QED
  BY <1>3, <1>4, <1>5

\* The page at UCOW is nobody else's.
LEMMA CopyApart ==
  ASSUME CowInd, NEW e \in Envs, Mapped(e, UCOW), NEW f \in Envs, NEW vb \in Addrs, Mapped(f, vb),
         pt[f][vb].page = pt[e][UCOW].page
  PROVE  f = e /\ (vb = UCOW \/ (cow[e] = "unmap" /\ vb = store[e].va))
<1>1. UCOW \in Addrs /\ PteOk(e, UCOW)
  BY DEF CowInd, Pte, Addrs
<1>2. Writable(pt[e][UCOW])
  BY <1>1 DEF PteOk, Writable
<1>3. MayShare(e, UCOW, f, vb)
  BY <1>1, <1>2 DEF CowInd, Shares, ShareOk
<1>4. ~Next_vpn(e, UCOW)
  BY Constants DEF Next_vpn
<1> QED
  BY <1>3, <1>4 DEF MayShare

LEMMA CopyStep ==
  ASSUME CowInd, NEW e \in Envs, cow_copy(e)
  PROVE  CowInd'
<1>1. status[e] = "RUNNABLE" /\ cow[e] = "copy"
  BY DEF cow_copy, Running, At
<1>2. /\ EnvOk(e) /\ store[e] # NIL /\ store[e].va \in VPNs /\ Mapped(e, store[e].va) /\ pt[e][store[e].va].COW
      /\ UCOW \in Addrs \ SharedVPNs /\ store[e].va \in Addrs /\ store[e].va # UCOW
  BY <1>1, Typed, Constants DEF CowInd, EnvsOk, EnvOk, Addrs
<1>3. CASE ~Mapped(e, UCOW) /\ Demand(e, UCOW)
  BY <1>1, <1>2, <1>3, DemandStep
<1>4. CASE /\ At(e, "copy", "map") /\ Mapped(e, UCOW)
           /\ word' = [word EXCEPT ![pt[e][UCOW].page] = word[pt[e][store[e].va].page]]
           /\ UNCHANGED pt
  <2> DEFINE new == pt[e][UCOW].page
             old == pt[e][store[e].va].page
  <2>1. /\ cow' = [cow EXCEPT ![e] = "map"] /\ word' = [word EXCEPT ![new] = word[old]]
        /\ UNCHANGED <<pt, status, entry, fork, store, panic, forks, stores>>
    BY <1>4 DEF At
  <2>2. /\ cow \in [Envs -> {"no", "alloc", "copy", "map", "unmap"}] /\ word \in [Pages -> Words]
        /\ new \in Pages /\ old \in Pages
    BY <1>2, <1>4, Typed DEF CowInd, TypeOK
  <2>3. cow'[e] = "map" /\ \A f \in Envs : f # e => cow'[f] = cow[f]
    BY <2>1, <2>2
  <2>4. word'[new] = word[old] /\ \A q \in Pages : q # new => word'[q] = word[q]
    BY <2>1, <2>2
  <2>5. TypeOK'
    <3>1. word' \in [Pages -> Words] /\ cow' \in [Envs -> {"no", "alloc", "copy", "map", "unmap"}]
      BY <2>1, <2>2
    <3> QED
      BY <2>1, <3>1 DEF CowInd, TypeOK
  <2>6. Pte' /\ Shares'
    BY <1>1, <2>1, <2>3, NoMapping
  <2>7. EnvOk(e)' /\ ForkOk(e)'
    <3>1. ForkOk(e)'
      BY <2>1, SameFork
    <3>2. word'[new] = word'[old]
      BY <2>2, <2>4
    <3> QED
      BY <1>1, <1>2, <1>4, <2>1, <2>3, <3>1, <3>2 DEF EnvOk, Mapped
  <2>8. ASSUME NEW f \in Envs, f # e PROVE EnvOk(f)' /\ ForkOk(f)'
    <3>1. \A va \in Addrs : Mapped(f, va) => word'[pt[f][va].page] = word[pt[f][va].page]
      <4>1. ASSUME NEW va \in Addrs, Mapped(f, va) PROVE word'[pt[f][va].page] = word[pt[f][va].page]
        <5>1. pt[f][va].page \in Pages
          BY <4>1, Typed DEF CowInd
        <5>2. pt[f][va].page # new
          BY <1>4, <2>8, <4>1, CopyApart
        <5> QED
          BY <2>4, <5>1, <5>2
      <4> QED
        BY <4>1
    <3>2. cow'[f] = cow[f]
      BY <2>3, <2>8
    <3> QED
      BY <2>1, <3>1, <3>2, OtherEnvs
  <2>9. BlankOk' /\ NoBadFault'
    <3>1. \A q \in Pages : word'[q] # Zero => q = new \/ word[q] # Zero
      BY <2>4
    <3>2. ASSUME NEW q \in Pages, word'[q] # Zero
          PROVE  \E f \in Envs, vb \in Addrs : Mapped(f, vb) /\ pt[f][vb].page = q
      <4>1. CASE q = new
        BY <1>2, <1>4, <4>1
      <4>2. CASE word[q] # Zero
        BY <4>2 DEF CowInd, BlankOk
      <4> QED
        BY <3>1, <3>2, <4>1, <4>2
    <3> QED
      BY <2>1, <3>2 DEF CowInd, BlankOk, NoBadFault, Mapped
  <2> QED
    BY <2>5, <2>6, <2>7, <2>8, <2>9 DEF CowInd, EnvsOk
<1> QED
  BY <1>3, <1>4 DEF cow_copy, Mapped

LEMMA MapStep ==
  ASSUME CowInd, NEW e \in Envs, cow_map(e)
  PROVE  CowInd'
<1>1. /\ status[e] = "RUNNABLE" /\ cow[e] = "map" /\ cow' = [cow EXCEPT ![e] = "unmap"]
      /\ UNCHANGED <<status, entry, fork, store, panic, forks, stores>> /\ Blank(pt')
  BY DEF cow_map, At, Running
<1> DEFINE va  == store[e].va
           new == pt[e][UCOW].page
           pte == PTE(new, TRUE, FALSE, FALSE)
<1>2. /\ EnvOk(e) /\ ForkOk(e) /\ store[e] # NIL /\ va \in VPNs /\ Mapped(e, va) /\ pt[e][va].COW
      /\ Mapped(e, UCOW) /\ UCOW \in Addrs /\ va \in Addrs /\ va # UCOW
  BY <1>1, Typed, Constants DEF CowInd, EnvsOk, EnvOk, Addrs
<1>3. ~pt[e][va].D /\ va \notin SharedVPNs
  BY <1>2 DEF CowInd, Pte, PteOk
<1>4. new \in Pages /\ pt \in [Envs -> [Addrs -> PTEs \cup {NIL}]]
  BY <1>2, Typed DEF CowInd
<1>5. pte \in PTEs /\ pte # NIL /\ pte.page = new /\ pte.D /\ ~pte.COW /\ ~pte.LIBRARY
  BY <1>4, FreshPTE
<1>6. pt' = [pt EXCEPT ![e][va] = pte]
  BY DEF cow_map, CowPTE
<1> HIDE DEF pte
<1>7. /\ pt'[e][va] = pte
      /\ \A f \in Envs, vb \in Addrs : ~(f = e /\ vb = va) => pt'[f][vb] = pt[f][vb]
      /\ pt' \in [Envs -> [Addrs -> PTEs \cup {NIL}]]
  <2>1. pt'[e][va] = pte
    BY <1>2, <1>4, <1>6
  <2>2. \A f \in Envs, vb \in Addrs : ~(f = e /\ vb = va) => pt'[f][vb] = pt[f][vb]
    BY <1>2, <1>4, <1>6
  <2>3. pt' \in [Envs -> [Addrs -> PTEs \cup {NIL}]]
    BY <1>2, <1>4, <1>5, <1>6
  <2> QED
    BY <2>1, <2>2, <2>3
<1>8. /\ word' \in [Pages -> Words] /\ BlankOk'
      /\ \A f \in Envs, vb \in Addrs : Mapped(f, vb)' => word'[pt'[f][vb].page] = word[pt'[f][vb].page]
  BY <1>1, <1>7, Blanked DEF CowInd
<1>9. cow \in [Envs -> {"no", "alloc", "copy", "map", "unmap"}]
  BY DEF CowInd, TypeOK
<1>10. cow'[e] = "unmap" /\ \A f \in Envs : f # e => cow'[f] = cow[f]
  BY <1>1, <1>9
<1>11. TypeOK'
  <2>1. cow' \in [Envs -> {"no", "alloc", "copy", "map", "unmap"}]
    BY <1>1, <1>9
  <2>2. pt' \in [Envs -> [VPNs \cup {UCOW} -> PTEs \cup {NIL}]]
    BY <1>7 DEF Addrs
  <2> QED
    BY <1>1, <1>8, <2>1, <2>2 DEF CowInd, TypeOK
<1>12. Pte'
  <2>1. ASSUME NEW f \in Envs, NEW vb \in Addrs PROVE PteOk(f, vb)'
    <3>1. CASE f = e /\ vb = va
      <4>1. pt'[f][vb] = pte
        BY <1>7, <3>1
      <4> QED
        BY <1>2, <1>3, <1>5, <3>1, <4>1 DEF PteOk, Mapped
    <3>2. CASE ~(f = e /\ vb = va)
      <4>1. pt'[f][vb] = pt[f][vb]
        BY <1>7, <3>2
      <4> QED
        BY <4>1 DEF CowInd, Pte, PteOk, Mapped
    <3> QED
      BY <3>1, <3>2
  <2> QED
    BY <2>1 DEF Pte
<1>13. \A f \in Envs, v \in VPNs : Mapped(f, v) <=> Mapped(f, v)'
  BY <1>2, <1>5, <1>7 DEF Mapped, Addrs
<1>14. \A f \in Envs, v \in VPNs : Next_vpn(f, v) <=> Next_vpn(f, v)'
  BY <1>1, <1>13, NextSame
<1>15. Shares'
  <2>1. ASSUME NEW f \in Envs, NEW vb \in Addrs, NEW g \in Envs, NEW vc \in Addrs
        PROVE  ShareOk(f, vb, g, vc)'
    <3>1. CASE ~(f = e /\ vb = va) /\ ~(g = e /\ vc = va)
      <4>1. pt'[f][vb] = pt[f][vb] /\ pt'[g][vc] = pt[g][vc] /\ ShareOk(f, vb, g, vc)
        BY <1>7, <3>1 DEF CowInd, Shares
      <4>2. MayShare(f, vb, g, vc) => MayShare(f, vb, g, vc)'
        <5>1. cow[f] = "unmap" => cow'[f] = "unmap" /\ store'[f] = store[f]
          BY <1>1, <1>10
        <5>2. Next_vpn(f, vb) => Next_vpn(f, vb)'
          BY <1>14 DEF Next_vpn
        <5> QED
          BY <1>1, <5>1, <5>2 DEF MayShare
      <4> QED
        BY <4>1, <4>2 DEF ShareOk, Mapped
    <3>2. CASE f = e /\ vb = va /\ g = e /\ vc = va
      BY <3>2 DEF ShareOk, MayShare
    <3>3. CASE f = e /\ vb = va /\ ~(g = e /\ vc = va)
      <4>1. pt'[g][vc] = pt[g][vc] /\ pt'[f][vb] = pte /\ vb \notin SharedVPNs
        BY <1>3, <1>7, <3>3
      <4>2. ASSUME Mapped(g, vc)', pt'[f][vb].page = pt'[g][vc].page
            PROVE  MayShare(f, vb, g, vc)'
        <5>0. Mapped(g, vc) /\ pt[g][vc].page = pt[e][UCOW].page
          BY <1>5, <4>1, <4>2 DEF Mapped
        <5>1. g = e /\ vc = UCOW
          BY <1>1, <1>2, <5>0, CopyApart
        <5>2. store'[e].va = va /\ {va, UCOW} = {UCOW, va}
          BY <1>1
        <5> QED
          BY <1>10, <3>3, <5>1, <5>2 DEF MayShare
      <4> QED
        BY <4>1, <4>2 DEF ShareOk
    <3>4. CASE ~(f = e /\ vb = va) /\ g = e /\ vc = va
      <4>1. pt'[f][vb] = pt[f][vb] /\ pt'[g][vc] = pte /\ vc \notin SharedVPNs
        BY <1>3, <1>7, <3>4
      <4>2. ASSUME Mapped(f, vb)', pt'[f][vb].page = pt'[g][vc].page
            PROVE  MayShare(f, vb, g, vc)' /\ vb \notin SharedVPNs
        <5>0. Mapped(f, vb) /\ pt[f][vb].page = pt[e][UCOW].page
          BY <1>5, <4>1, <4>2 DEF Mapped
        <5>1. f = e /\ vb = UCOW
          BY <1>1, <1>2, <5>0, CopyApart
        <5>2. store'[e].va = va
          BY <1>1
        <5> QED
          BY <1>10, <3>4, <5>1, <5>2, Constants DEF MayShare
      <4> QED
        BY <4>1, <4>2 DEF ShareOk
    <3> QED
      BY <3>1, <3>2, <3>3, <3>4
  <2> QED
    BY <2>1 DEF Shares
<1>16. EnvOk(e)' /\ ForkOk(e)'
  <2>1. ForkOk(e)'
    <3>1. \A f \in Envs, vb \in Addrs : f # e => pt'[f][vb] = pt[f][vb]
      BY <1>7
    <3>2. \A v \in VPNs : Mapped(e, v) /\ Writable(pt[e][v]) => pt'[e][v] = pt[e][v]
      BY <1>3, <1>7 DEF Writable, Addrs
    <3> QED
      BY <1>1, <1>13, <3>1, <3>2, OwnFork
  <2>2. \A vb \in Addrs : vb # va => pt'[e][vb] = pt[e][vb]
    BY <1>7
  <2>3. \A v \in SharedVPNs : Mapped(e, v)'
    BY <1>1, <1>2, <1>13, Constants DEF EnvOk
  <2>4. ~entry[e] => \A vb \in Addrs : Mapped(e, vb)' => ~pt'[e][vb].COW
    BY <1>1, <1>2 DEF EnvOk
  <2>5. Mapped(e, UCOW)'
    BY <1>2, <2>2 DEF Mapped
  <2>6. Mapped(e, store[e].va)'
    BY <1>1, <1>5, <1>7 DEF Mapped
  <2> QED
    BY <1>1, <1>2, <1>10, <2>1, <2>3, <2>4, <2>5, <2>6 DEF EnvOk
<1>17. ASSUME NEW f \in Envs, f # e PROVE EnvOk(f)' /\ ForkOk(f)'
  <2>1. \A vb \in Addrs : pt'[f][vb] = pt[f][vb]
    BY <1>7, <1>17
  <2>2. \A vb \in Addrs : Mapped(f, vb) => word'[pt[f][vb].page] = word[pt[f][vb].page]
    BY <1>8, <2>1 DEF Mapped
  <2>3. fork[f] # NIL /\ fork[f].child # NIL => fork[f].child \in Envs /\ fork[f].child # e
    BY <1>1, Typed DEF CowInd, EnvsOk, ForkOk
  <2>4. fork[f] # NIL /\ fork[f].child # NIL =>
          /\ status'[fork[f].child] = status[fork[f].child]
          /\ \A vb \in Addrs : pt'[fork[f].child][vb] = pt[fork[f].child][vb]
    BY <1>1, <1>7, <2>3
  <2>5. cow'[f] = cow[f]
    BY <1>10, <1>17
  <2> QED
    BY <1>1, <2>1, <2>2, <2>4, <2>5, OtherEnvs
<1>18. NoBadFault'
  BY <1>1 DEF CowInd, NoBadFault
<1> QED
  BY <1>8, <1>11, <1>12, <1>15, <1>16, <1>17, <1>18 DEF CowInd, EnvsOk

\* Entries that go leave the others in order.
LEMMA Removed ==
  ASSUME CowInd,
         \A f \in Envs, vb \in Addrs : Mapped(f, vb)' => pt'[f][vb] = pt[f][vb],
         \A f \in Envs, vb \in Addrs, g \in Envs, vc \in Addrs :
           Mapped(f, vb)' /\ Mapped(g, vc)' /\ MayShare(f, vb, g, vc) => MayShare(f, vb, g, vc)'
  PROVE  Pte' /\ Shares'
<1>1. ASSUME NEW f \in Envs, NEW vb \in Addrs PROVE PteOk(f, vb)'
  <2>1. PteOk(f, vb)
    BY DEF CowInd, Pte
  <2> QED
    BY <2>1 DEF PteOk, Mapped
<1>2. ASSUME NEW f \in Envs, NEW vb \in Addrs, NEW g \in Envs, NEW vc \in Addrs
      PROVE  ShareOk(f, vb, g, vc)'
  <2>1. ShareOk(f, vb, g, vc)
    BY DEF CowInd, Shares
  <2> SUFFICES ASSUME Mapped(f, vb)', Mapped(g, vc)' PROVE ShareOk(f, vb, g, vc)'
    BY DEF ShareOk
  <2>2. pt'[f][vb] = pt[f][vb] /\ pt'[g][vc] = pt[g][vc] /\ (MayShare(f, vb, g, vc) => MayShare(f, vb, g, vc)')
    OBVIOUS
  <2>3. Mapped(f, vb) /\ Mapped(g, vc)
    BY <2>2 DEF Mapped
  <2> QED
    BY <2>1, <2>2, <2>3 DEF ShareOk
<1> QED
  BY <1>1, <1>2 DEF Pte, Shares

LEMMA UnmapStep ==
  ASSUME CowInd, NEW e \in Envs, cow_unmap(e)
  PROVE  CowInd'
<1>1. /\ status[e] = "RUNNABLE" /\ cow[e] = "unmap" /\ cow' = [cow EXCEPT ![e] = "no"]
      /\ pt' = [pt EXCEPT ![e][UCOW] = NIL]
      /\ UNCHANGED <<status, entry, fork, store, panic, forks, stores>> /\ Blank(pt')
  BY DEF cow_unmap, At, Running
<1>2. /\ EnvOk(e) /\ UCOW \in Addrs /\ UCOW \notin VPNs /\ pt \in [Envs -> [Addrs -> PTEs \cup {NIL}]]
      /\ cow \in [Envs -> {"no", "alloc", "copy", "map", "unmap"}]
  BY Typed, Constants DEF CowInd, EnvsOk, Addrs, TypeOK
<1>3. /\ pt'[e][UCOW] = NIL
      /\ \A f \in Envs, vb \in Addrs : ~(f = e /\ vb = UCOW) => pt'[f][vb] = pt[f][vb]
      /\ pt' \in [Envs -> [Addrs -> PTEs \cup {NIL}]]
  <2>1. pt'[e][UCOW] = NIL
    BY <1>1, <1>2
  <2>2. \A f \in Envs, vb \in Addrs : ~(f = e /\ vb = UCOW) => pt'[f][vb] = pt[f][vb]
    BY <1>1, <1>2
  <2>3. pt' \in [Envs -> [Addrs -> PTEs \cup {NIL}]]
    BY <1>1, <1>2
  <2> QED
    BY <2>1, <2>2, <2>3
<1>4. /\ word' \in [Pages -> Words] /\ BlankOk'
      /\ \A f \in Envs, vb \in Addrs : Mapped(f, vb)' => word'[pt'[f][vb].page] = word[pt'[f][vb].page]
  BY <1>1, <1>3, Blanked DEF CowInd
<1>5. cow'[e] = "no" /\ \A f \in Envs : f # e => cow'[f] = cow[f]
  BY <1>1, <1>2
<1>6. TypeOK'
  <2>1. cow' \in [Envs -> {"no", "alloc", "copy", "map", "unmap"}]
    BY <1>1, <1>2
  <2>2. pt' \in [Envs -> [VPNs \cup {UCOW} -> PTEs \cup {NIL}]]
    BY <1>3 DEF Addrs
  <2> QED
    BY <1>1, <1>4, <2>1, <2>2 DEF CowInd, TypeOK
<1>7. \A f \in Envs, v \in VPNs : pt'[f][v] = pt[f][v]
  BY <1>2, <1>3 DEF Addrs
<1>8. \A f \in Envs, v \in VPNs : Next_vpn(f, v) <=> Next_vpn(f, v)'
  BY <1>1, <1>7 DEF Next_vpn
<1>9. Pte' /\ Shares'
  <2>1. \A f \in Envs, vb \in Addrs : Mapped(f, vb)' => pt'[f][vb] = pt[f][vb]
    BY <1>3 DEF Mapped
  <2>2. ASSUME NEW f \in Envs, NEW vb \in Addrs, NEW g \in Envs, NEW vc \in Addrs,
               Mapped(f, vb)', Mapped(g, vc)', MayShare(f, vb, g, vc)
        PROVE  MayShare(f, vb, g, vc)'
    <3>1. ~(f = e /\ vb = UCOW) /\ ~(g = e /\ vc = UCOW)
      BY <1>3, <2>2 DEF Mapped
    <3>2. CASE f = g /\ cow[f] = "unmap" /\ {vb, vc} = {UCOW, store[f].va}
      <4>1. f # e
        BY <3>1, <3>2
      <4> QED
        BY <1>1, <1>5, <3>2, <4>1 DEF MayShare
    <3>3. CASE f = g /\ vb = vc
      BY <3>3 DEF MayShare
    <3>4. CASE vb = vc /\ fork[f] # NIL /\ fork[f].half /\ g = fork[f].child /\ Next_vpn(f, vb)
      <4>1. Next_vpn(f, vb)'
        BY <1>8, <3>4 DEF Next_vpn
      <4> QED
        BY <1>1, <3>4, <4>1 DEF MayShare
    <3> QED
      BY <2>2, <3>2, <3>3, <3>4 DEF MayShare
  <2> QED
    BY <2>1, <2>2, Removed
<1>10. EnvOk(e)' /\ ForkOk(e)'
  <2>1. ForkOk(e)'
    <3>1. \A f \in Envs, vb \in Addrs : f # e => pt'[f][vb] = pt[f][vb]
      BY <1>3
    <3>2. \A v \in VPNs : Mapped(e, v) <=> Mapped(e, v)'
      BY <1>7 DEF Mapped
    <3> QED
      BY <1>1, <1>7, <3>1, <3>2, OwnFork
  <2>2. \A v \in SharedVPNs : Mapped(e, v)'
    BY <1>1, <1>2, <1>7, Constants DEF EnvOk, Mapped
  <2>3. ~entry[e] => \A vb \in Addrs : Mapped(e, vb)' => ~pt'[e][vb].COW
    BY <1>1, <1>2, <1>3 DEF EnvOk, Mapped
  <2>4. ~Mapped(e, UCOW)'
    BY <1>3 DEF Mapped
  <2> QED
    BY <1>1, <1>5, <2>1, <2>2, <2>3, <2>4 DEF EnvOk
<1>11. ASSUME NEW f \in Envs, f # e PROVE EnvOk(f)' /\ ForkOk(f)'
  <2>1. \A vb \in Addrs : pt'[f][vb] = pt[f][vb]
    BY <1>3, <1>11
  <2>2. \A vb \in Addrs : Mapped(f, vb) => word'[pt[f][vb].page] = word[pt[f][vb].page]
    BY <1>4, <2>1 DEF Mapped
  <2>3. fork[f] # NIL /\ fork[f].child # NIL => fork[f].child \in Envs /\ fork[f].child # e
    BY <1>1, Typed DEF CowInd, EnvsOk, ForkOk
  <2>4. fork[f] # NIL /\ fork[f].child # NIL =>
          /\ status'[fork[f].child] = status[fork[f].child]
          /\ \A vb \in Addrs : pt'[fork[f].child][vb] = pt[fork[f].child][vb]
    BY <1>1, <1>3, <2>3
  <2>5. cow'[f] = cow[f]
    BY <1>5, <1>11
  <2> QED
    BY <1>1, <2>1, <2>2, <2>4, <2>5, OtherEnvs
<1>12. NoBadFault'
  BY <1>1 DEF CowInd, NoBadFault
<1> QED
  BY <1>4, <1>6, <1>9, <1>10, <1>11, <1>12 DEF CowInd, EnvsOk

LEMMA ExitStep ==
  ASSUME CowInd, NEW e \in Envs, exit(e)
  PROVE  CowInd'
<1>1. /\ status[e] = "RUNNABLE" /\ store[e] = NIL /\ cow[e] = "no" /\ fork[e] = NIL
      /\ status' = [status EXCEPT ![e] = "FREE"] /\ pt' = [pt EXCEPT ![e] = NoMap] /\ Blank(pt')
      /\ UNCHANGED <<entry, fork, store, cow, panic, forks, stores>>
  BY DEF exit, InUser, Running
<1>2. /\ pt \in [Envs -> [Addrs -> PTEs \cup {NIL}]]
      /\ status \in [Envs -> {"FREE", "RUNNABLE", "NOT_RUNNABLE"}]
      /\ NoMap \in [Addrs -> PTEs \cup {NIL}] /\ \A vb \in Addrs : NoMap[vb] = NIL
  BY Typed DEF CowInd, TypeOK, NoMap, Addrs
<1>3. /\ \A vb \in Addrs : pt'[e][vb] = NIL
      /\ \A f \in Envs, vb \in Addrs : f # e => pt'[f][vb] = pt[f][vb]
      /\ pt' \in [Envs -> [Addrs -> PTEs \cup {NIL}]]
  <2>1. pt'[e] = NoMap /\ \A f \in Envs : f # e => pt'[f] = pt[f]
    BY <1>1, <1>2
  <2>2. pt' \in [Envs -> [Addrs -> PTEs \cup {NIL}]]
    BY <1>1, <1>2
  <2> QED
    BY <1>2, <2>1, <2>2
<1>4. /\ word' \in [Pages -> Words] /\ BlankOk'
      /\ \A f \in Envs, vb \in Addrs : Mapped(f, vb)' => word'[pt'[f][vb].page] = word[pt'[f][vb].page]
  BY <1>1, <1>3, Blanked DEF CowInd
<1>5. status'[e] = "FREE" /\ \A f \in Envs : f # e => status'[f] = status[f]
  BY <1>1, <1>2
<1>6. TypeOK'
  <2>1. status' \in [Envs -> {"FREE", "RUNNABLE", "NOT_RUNNABLE"}]
    BY <1>1, <1>2
  <2>2. pt' \in [Envs -> [VPNs \cup {UCOW} -> PTEs \cup {NIL}]]
    BY <1>3 DEF Addrs
  <2> QED
    BY <1>1, <1>4, <2>1, <2>2 DEF CowInd, TypeOK
<1>7. Pte' /\ Shares'
  <2>1. \A f \in Envs, vb \in Addrs : Mapped(f, vb)' => f # e /\ pt'[f][vb] = pt[f][vb]
    BY <1>3 DEF Mapped
  <2>2. ASSUME NEW f \in Envs, NEW vb \in Addrs, NEW g \in Envs, NEW vc \in Addrs,
               Mapped(f, vb)', Mapped(g, vc)', MayShare(f, vb, g, vc)
        PROVE  MayShare(f, vb, g, vc)'
    <3>1. f # e
      BY <2>1, <2>2
    <3>2. Next_vpn(f, vb) => Next_vpn(f, vb)'
      BY <1>1, <1>3, <3>1 DEF Next_vpn, Addrs
    <3> QED
      BY <1>1, <2>2, <3>2 DEF MayShare
  <2> QED
    BY <2>1, <2>2, Removed
<1>8. EnvOk(e)' /\ ForkOk(e)'
  BY <1>1, <1>3, <1>5, Constants DEF EnvOk, ForkOk, Mapped, Addrs
<1>9. ASSUME NEW f \in Envs, f # e PROVE EnvOk(f)' /\ ForkOk(f)'
  <2>1. \A vb \in Addrs : pt'[f][vb] = pt[f][vb]
    BY <1>3, <1>9
  <2>2. \A vb \in Addrs : Mapped(f, vb) => word'[pt[f][vb].page] = word[pt[f][vb].page]
    BY <1>4, <2>1 DEF Mapped
  <2>3. fork[f] # NIL /\ fork[f].child # NIL => fork[f].child \in Envs /\ fork[f].child # e
    BY <1>1, Typed DEF CowInd, EnvsOk, ForkOk
  <2>4. fork[f] # NIL /\ fork[f].child # NIL =>
          /\ status'[fork[f].child] = status[fork[f].child]
          /\ \A vb \in Addrs : pt'[fork[f].child][vb] = pt[fork[f].child][vb]
    BY <1>5, <1>3, <2>3
  <2>5. status'[f] = status[f]
    BY <1>5, <1>9
  <2> QED
    BY <1>1, <2>1, <2>2, <2>4, <2>5, OtherEnvs
<1>10. NoBadFault'
  BY <1>1 DEF CowInd, NoBadFault
<1> QED
  BY <1>4, <1>6, <1>7, <1>8, <1>9, <1>10 DEF CowInd, EnvsOk

-----------------------------------------------------------------------------
(***************************************************************************)
(* duppage.                                                                *)
(***************************************************************************)
\* What holds of the parent, its child and the page before the step.
Dup(e, v, c) ==
  /\ InUser(e) /\ fork[e] # NIL /\ c = fork[e].child /\ Next_vpn(e, v)
  /\ UNCHANGED <<word, status, entry, store, cow, panic, forks, stores>>

LEMMA Dupped ==
  ASSUME CowInd, NEW e \in Envs, NEW v \in VPNs, NEW c \in Envs \cup {NIL}, Dup(e, v, c)
  PROVE  /\ status[e] = "RUNNABLE" /\ store[e] = NIL /\ cow[e] = "no" /\ fork[e] # NIL /\ entry[e]
         /\ v \in Addrs /\ Mapped(e, v) /\ v \notin fork[e].done
         /\ pt \in [Envs -> [Addrs -> PTEs \cup {NIL}]] /\ pt[e][v] \in PTEs
         /\ fork \in [Envs -> InFork \cup {NIL}]
         /\ fork[e].half => Writable(pt[e][v]) /\ (c # NIL => pt[c][v].page = pt[e][v].page)
         /\ c # NIL => /\ c \in Envs /\ c # e /\ status[c] = "NOT_RUNNABLE" /\ fork[c] = NIL /\ store[c] = NIL
                       /\ cow[c] = "no"
                       /\ \A f \in Envs : fork[f] # NIL /\ fork[f].child = c => f = e
                       /\ \A x \in VPNs : Mapped(c, x) <=> x \in fork[e].done \/ (fork[e].half /\ x = v)
         /\ Writable(pt[e][v]) => v \notin SharedVPNs
<1>1. /\ status[e] = "RUNNABLE" /\ store[e] = NIL /\ cow[e] = "no" /\ fork[e] # NIL
      /\ c = fork[e].child /\ Next_vpn(e, v)
  BY DEF Dup, InUser, Running
<1>2. EnvOk(e) /\ ForkOk(e) /\ v \in Addrs
  BY DEF CowInd, EnvsOk, Addrs
<1>3. Mapped(e, v) /\ v \notin fork[e].done
  BY <1>1 DEF Next_vpn, Mapped
<1>4. pt \in [Envs -> [Addrs -> PTEs \cup {NIL}]] /\ pt[e][v] \in PTEs
  BY <1>2, <1>3, Typed DEF CowInd
<1>5. \A x \in VPNs : Next_vpn(e, x) <=> x = v
  BY <1>1, NextOnce
<1>6. fork[e].half => Writable(pt[e][v]) /\ (c # NIL => pt[c][v].page = pt[e][v].page)
  BY <1>1, <1>2, <1>5 DEF ForkOk
<1>7. c # NIL => /\ c \in Envs /\ c # e /\ status[c] = "NOT_RUNNABLE"
                 /\ \A f \in Envs : fork[f] # NIL /\ fork[f].child = c => f = e
                 /\ \A x \in VPNs : Mapped(c, x) <=> x \in fork[e].done \/ (fork[e].half /\ x = v)
  BY <1>1, <1>2, <1>5 DEF ForkOk
<1>8. c # NIL => fork[c] = NIL /\ store[c] = NIL /\ cow[c] = "no"
  <2> SUFFICES ASSUME c # NIL PROVE fork[c] = NIL /\ store[c] = NIL /\ cow[c] = "no"
    OBVIOUS
  <2>1. EnvOk(c)
    BY <1>7 DEF CowInd, EnvsOk
  <2> QED
    BY <1>7, <2>1 DEF EnvOk
<1>9. Writable(pt[e][v]) => v \notin SharedVPNs
  BY <1>2, <1>3, Constants DEF CowInd, Pte, PteOk, Writable
<1>10. fork \in [Envs -> InFork \cup {NIL}]
  BY DEF CowInd, TypeOK
<1> QED
  BY <1>1, <1>2, <1>3, <1>4, <1>6, <1>7, <1>8, <1>9, <1>10 DEF EnvOk, ForkOk

\* Everybody but the parent and the child.
LEMMA DupOthers ==
  ASSUME CowInd, NEW e \in Envs, NEW v \in VPNs, NEW c \in Envs \cup {NIL}, Dup(e, v, c),
         \A f \in Envs, vb \in Addrs : f # e /\ f # c => pt'[f][vb] = pt[f][vb],
         \A f \in Envs : f # e => fork'[f] = fork[f],
         fork'[e] # NIL, fork'[e].child = c,
         NEW f \in Envs, f # e, f # c
  PROVE  EnvOk(f)' /\ ForkOk(f)'
<1>1. UNCHANGED <<word, status, entry, store, cow>> /\ fork[e] # NIL /\ c = fork[e].child
  BY DEF Dup
<1>2. fork[f] # NIL /\ fork[f].child # NIL => fork[f].child \in Envs /\ fork[f].child # e /\ fork[f].child # c
  BY Dupped, Typed DEF CowInd, EnvsOk, ForkOk
<1>3. fork[f] # NIL /\ fork[f].child # NIL =>
        /\ status'[fork[f].child] = status[fork[f].child]
        /\ \A vb \in Addrs : pt'[fork[f].child][vb] = pt[fork[f].child][vb]
  BY <1>1, <1>2
<1>4. \A g \in Envs : fork'[g] # NIL => fork[g] # NIL /\ fork'[g].child = fork[g].child
  BY <1>1
<1> QED
  BY <1>1, <1>3, <1>4, OtherEnvs

\* No child may write the page of its parent.
LEMMA ChildCannot ==
  ASSUME CowInd, NEW e \in Envs, NEW v \in VPNs, NEW c \in Envs \cup {NIL}, Dup(e, v, c),
         NEW g \in Envs, NEW vc \in Addrs, Mapped(g, vc), pt[g][vc].page = pt[e][v].page, Writable(pt[g][vc])
  PROVE  g = e /\ vc = v
<1>1. v \in Addrs /\ Mapped(e, v) /\ status[e] = "RUNNABLE" /\ cow[e] = "no"
  BY Dupped
<1>2. MayShare(g, vc, e, v)
  BY <1>1 DEF CowInd, Shares, ShareOk
<1>3. fork[g] # NIL /\ fork[g].child = e => FALSE
  BY <1>1, Constants DEF CowInd, EnvsOk, ForkOk
<1> QED
  BY <1>1, <1>2, <1>3 DEF MayShare

\* The page that nobody but the parent has, unless half of duppage is done.
LEMMA ParentOnly ==
  ASSUME CowInd, NEW e \in Envs, NEW v \in VPNs, NEW c \in Envs \cup {NIL}, Dup(e, v, c), Writable(pt[e][v]),
         NEW g \in Envs, NEW vc \in Addrs, Mapped(g, vc), pt[g][vc].page = pt[e][v].page
  PROVE  (g = e /\ vc = v) \/ (fork[e].half /\ g = c /\ vc = v)
<1>1. v \in Addrs /\ Mapped(e, v) /\ cow[e] = "no" /\ c = fork[e].child
  BY Dupped DEF Dup
<1>2. MayShare(e, v, g, vc)
  BY <1>1 DEF CowInd, Shares, ShareOk
<1> QED
  BY <1>1, <1>2 DEF MayShare

\* Who might share a page might after the step, the parent's half-way page excepted.
LEMMA DupMayShare ==
  ASSUME CowInd, NEW e \in Envs, NEW v \in VPNs, NEW c \in Envs \cup {NIL}, Dup(e, v, c),
         \A f \in Envs, vb \in Addrs : f # e /\ f # c => pt'[f][vb] = pt[f][vb],
         \A f \in Envs : f # e => fork'[f] = fork[f],
         NEW f \in Envs, NEW vb \in Addrs, NEW g \in Envs, NEW vc \in Addrs, MayShare(f, vb, g, vc),
         ~(f = e /\ fork[e].half /\ vb = v /\ vc = v)
  PROVE  MayShare(f, vb, g, vc)'
<1>1. UNCHANGED <<store, cow>> /\ Next_vpn(e, v)
  BY DEF Dup
<1>2. CASE fork[f] # NIL /\ fork[f].half /\ vb = vc /\ g = fork[f].child /\ Next_vpn(f, vb)
  <2>1. vb \in VPNs
    BY <1>2 DEF Next_vpn
  <2>2. f # e
    BY <1>1, <1>2, <2>1, NextOnce
  <2>3. f # c
    BY <1>2, Dupped, Constants
  <2>4. fork'[f] = fork[f] /\ \A x \in VPNs : pt'[f][x] = pt[f][x]
    BY <2>2, <2>3 DEF Addrs
  <2>5. Next_vpn(f, vb)'
    BY <1>2, <2>4 DEF Next_vpn
  <2> QED
    BY <1>2, <2>4, <2>5 DEF MayShare
<1>3. CASE ~(fork[f] # NIL /\ fork[f].half /\ vb = vc /\ g = fork[f].child /\ Next_vpn(f, vb))
  BY <1>1, <1>3 DEF MayShare
<1> QED
  BY <1>2, <1>3

\* e is in fork for the child c, and through with the pages of d.
InForkAt(e, c, d) ==
  /\ fork' \in [Envs -> InFork \cup {NIL}] /\ fork'[e] # NIL /\ fork'[e].child = c /\ fork'[e].done = d
  /\ \A f \in Envs : f # e => fork'[f] = fork[f]

\* An entry for the page of old that the child cannot use to write it.
Gift(x, old) ==
  /\ x \in PTEs /\ x # NIL /\ x.page = old.page /\ x.LIBRARY = old.LIBRARY /\ ~Writable(x)
  /\ x.D <=> ~x.COW
  /\ x.LIBRARY => x.D

\* The page is given to the child with the entry x, which does not let it write.
Handed(e, v, c, x, d) ==
  /\ Dup(e, v, c) /\ ~fork[e].half /\ Gift(x, pt[e][v])
  /\ Writable(pt[e][v]) => MayShare(e, v, c, v)'
  /\ pt' = [pt EXCEPT ![c][v] = x]
  /\ InForkAt(e, c, d)

\* What is left to show then is where the parent is in fork.
LEMMA GiveChild ==
  ASSUME CowInd, NEW e \in Envs, NEW v \in VPNs, NEW c \in Envs, NEW x \in PTEs, NEW d \in SUBSET VPNs,
         Handed(e, v, c, x, d)
  PROVE  /\ TypeOK' /\ Pte' /\ Shares' /\ BlankOk' /\ NoBadFault'
         /\ \A f \in Envs : EnvOk(f)'
         /\ \A f \in Envs : f # e => ForkOk(f)'
         /\ pt'[c][v] = x /\ \A f \in Envs, vb \in Addrs : ~(f = c /\ vb = v) => pt'[f][vb] = pt[f][vb]
<1> USE DEF Handed
<1>1. /\ status[e] = "RUNNABLE" /\ store[e] = NIL /\ cow[e] = "no" /\ entry[e]
      /\ v \in Addrs /\ Mapped(e, v) /\ v \notin fork[e].done
      /\ pt \in [Envs -> [Addrs -> PTEs \cup {NIL}]]
      /\ c # e /\ status[c] = "NOT_RUNNABLE" /\ fork[c] = NIL /\ store[c] = NIL /\ cow[c] = "no"
      /\ ~Mapped(c, v)
  BY Dupped, Constants
<1>0. /\ fork' \in [Envs -> InFork \cup {NIL}] /\ \A f \in Envs : f # e => fork'[f] = fork[f]
      /\ fork'[e] # NIL /\ fork'[e].child = c
      /\ x \in PTEs /\ x # NIL /\ x.page = pt[e][v].page /\ x.LIBRARY = pt[e][v].LIBRARY /\ ~Writable(x)
      /\ (x.D <=> ~x.COW) /\ (x.LIBRARY => x.D)
  BY DEF InForkAt, Gift
<1>2. UNCHANGED <<word, status, entry, store, cow, panic, forks, stores>>
  BY DEF Dup
<1>3. /\ pt'[c][v] = x
      /\ \A f \in Envs, vb \in Addrs : ~(f = c /\ vb = v) => pt'[f][vb] = pt[f][vb]
      /\ pt' \in [Envs -> [Addrs -> PTEs \cup {NIL}]]
  <2>1. pt'[c][v] = x
    BY <1>0, <1>1
  <2>2. \A f \in Envs, vb \in Addrs : ~(f = c /\ vb = v) => pt'[f][vb] = pt[f][vb]
    BY <1>0, <1>1
  <2>3. pt' \in [Envs -> [Addrs -> PTEs \cup {NIL}]]
    BY <1>0, <1>1
  <2> QED
    BY <1>0, <2>1, <2>2, <2>3
<1>4. TypeOK'
  <2>1. pt' \in [Envs -> [VPNs \cup {UCOW} -> PTEs \cup {NIL}]] /\ fork' \in [Envs -> InFork \cup {NIL}]
    BY <1>0, <1>3 DEF Addrs
  <2>2. TypeOK
    BY DEF CowInd
  <2> HIDE <1>3
  <2> QED
    BY <1>0, <1>2, <2>1, <2>2 DEF TypeOK
<1>5. Pte'
  <2>1. ASSUME NEW f \in Envs, NEW vb \in Addrs PROVE PteOk(f, vb)'
    <3>1. CASE f = c /\ vb = v
      <4>1. pt'[f][vb] = x /\ PteOk(e, v) /\ v # UCOW
        BY <1>0, <1>1, <1>3, <3>1, Constants DEF CowInd, Pte
      <4> QED
        BY <1>0, <1>1, <3>1, <4>1 DEF PteOk, Mapped
    <3>2. CASE ~(f = c /\ vb = v)
      <4>1. pt'[f][vb] = pt[f][vb]
        BY <1>0, <1>3, <3>2
      <4> QED
        BY <1>0, <4>1 DEF CowInd, Pte, PteOk, Mapped
    <3> QED
      BY <1>0, <3>1, <3>2
  <2> QED
    BY <1>0, <2>1 DEF Pte
<1>6. Shares'
  <2>1. ASSUME NEW f \in Envs, NEW vb \in Addrs, NEW g \in Envs, NEW vc \in Addrs
        PROVE  ShareOk(f, vb, g, vc)'
    <3>1. CASE ~(f = c /\ vb = v) /\ ~(g = c /\ vc = v)
      <4>1. pt'[f][vb] = pt[f][vb] /\ pt'[g][vc] = pt[g][vc] /\ ShareOk(f, vb, g, vc)
        BY <1>0, <1>3, <3>1 DEF CowInd, Shares
      <4>2. MayShare(f, vb, g, vc) => MayShare(f, vb, g, vc)'
        <5>1. \A h \in Envs, va \in Addrs : h # e /\ h # c => pt'[h][va] = pt[h][va]
          BY <1>0, <1>3
        <5> QED
          BY <1>0, <5>1, DupMayShare
      <4> QED
        BY <1>0, <4>1, <4>2 DEF ShareOk, Mapped
    <3>2. CASE f = c /\ vb = v /\ g = c /\ vc = v
      BY <1>0, <3>2 DEF ShareOk, MayShare
    <3>3. CASE f = c /\ vb = v /\ ~(g = c /\ vc = v)
      <4>1. pt'[g][vc] = pt[g][vc] /\ pt'[f][vb] = x /\ ShareOk(e, v, g, vc)
        BY <1>0, <1>1, <1>3, <3>3 DEF CowInd, Shares
      <4> QED
        BY <1>0, <1>1, <3>3, <4>1 DEF ShareOk, Mapped
    <3>4. CASE ~(f = c /\ vb = v) /\ g = c /\ vc = v
      <4>1. pt'[f][vb] = pt[f][vb] /\ pt'[g][vc] = x /\ ShareOk(f, vb, e, v)
        BY <1>0, <1>1, <1>3, <3>4 DEF CowInd, Shares
      <4>2. ASSUME Mapped(f, vb)', Writable(pt'[f][vb]), pt'[f][vb].page = pt'[g][vc].page
            PROVE  MayShare(f, vb, g, vc)'
        <5>1. f = e /\ vb = v
          <6>1. Mapped(f, vb) /\ Writable(pt[f][vb]) /\ pt[f][vb].page = pt[e][v].page
            BY <1>0, <4>1, <4>2 DEF Mapped
          <6> QED
            BY <1>0, <6>1, ChildCannot
        <5>2. Writable(pt[e][v])
          BY <1>0, <4>1, <4>2, <5>1
        <5> QED
          BY <1>0, <3>4, <5>1, <5>2
      <4>3. ASSUME Mapped(f, vb)', vb \in SharedVPNs, pt'[f][vb].page = pt'[g][vc].page
            PROVE  vb = vc
        BY <1>0, <1>1, <3>4, <4>1, <4>3 DEF ShareOk, Mapped
      <4>4. ASSUME Mapped(f, vb)', vb \in SharedVPNs, vb = vc
            PROVE  pt'[f][vb].page = pt'[g][vc].page
        BY <1>0, <1>1, <3>4, <4>1, <4>4 DEF ShareOk, Mapped
      <4> QED
        BY <1>0, <4>2, <4>3, <4>4 DEF ShareOk
    <3> QED
      BY <1>0, <3>1, <3>2, <3>3, <3>4
  <2> QED
    BY <1>0, <2>1 DEF Shares
<1>7. ASSUME NEW f \in Envs, f # e PROVE EnvOk(f)' /\ ForkOk(f)'
  <2>1. CASE f # c
    <3>1. \A h \in Envs, va \in Addrs : h # e /\ h # c => pt'[h][va] = pt[h][va]
      BY <1>0, <1>3
    <3> QED
      BY <1>0, <1>7, <2>1, <3>1, DupOthers
  <2>2. CASE f = c
    <3>1. EnvOk(c) /\ fork'[c] = NIL
      BY <1>0, <1>1, <1>7, <2>2 DEF CowInd, EnvsOk
    <3>2. ~Mapped(c, UCOW)'
      BY <1>0, <1>1, <1>3, <3>1, Constants DEF EnvOk, Mapped, Addrs
    <3> QED
      BY <1>0, <1>1, <1>2, <2>2, <3>1, <3>2 DEF EnvOk, ForkOk
  <2> QED
    BY <1>0, <2>1, <2>2
<1>8. EnvOk(e)'
  <2>1. EnvOk(e) /\ \A vb \in Addrs : pt'[e][vb] = pt[e][vb]
    BY <1>0, <1>1, <1>3 DEF CowInd, EnvsOk
  <2>2. UCOW \in Addrs /\ SharedVPNs \subseteq Addrs
    BY Constants DEF Addrs
  <2> QED
    BY <1>0, <1>1, <1>2, <2>1, <2>2 DEF EnvOk, Mapped
<1>9. BlankOk' /\ NoBadFault'
  <2>1. ASSUME NEW q \in Pages, word'[q] # Zero
        PROVE  \E f \in Envs, vb \in Addrs : Mapped(f, vb)' /\ pt'[f][vb].page = q
    <3>1. PICK f \in Envs, vb \in Addrs : Mapped(f, vb) /\ pt[f][vb].page = q
      BY <1>0, <1>2, <2>1 DEF CowInd, BlankOk
    <3>2. pt'[f][vb] = pt[f][vb]
      BY <1>0, <1>1, <1>3, <3>1
    <3> QED
      BY <1>0, <3>1, <3>2 DEF Mapped
  <2> QED
    BY <1>0, <1>2, <2>1 DEF CowInd, BlankOk, NoBadFault
<1> QED
  BY <1>0, <1>3, <1>4, <1>5, <1>6, <1>7, <1>8, <1>9

\* Where the parent is in fork after each of the three.
LEMMA ForkMoved ==
  ASSUME CowInd, NEW e \in Envs, fork[e] # NIL
  PROVE  /\ \A v \in VPNs :
              fork' = [fork EXCEPT ![e].done = @ \cup {v}] =>
                InForkAt(e, fork[e].child, fork[e].done \cup {v}) /\ fork'[e].half = fork[e].half
         /\ \A v \in VPNs :
              fork' = [fork EXCEPT ![e].done = @ \cup {v}, ![e].half = FALSE] =>
                InForkAt(e, fork[e].child, fork[e].done \cup {v}) /\ fork'[e].half = FALSE
         /\ fork' = [fork EXCEPT ![e].half = TRUE] =>
                InForkAt(e, fork[e].child, fork[e].done) /\ fork'[e].half = TRUE
<1>1. fork \in [Envs -> InFork \cup {NIL}] /\ fork[e] \in InFork
  BY DEF CowInd, TypeOK
<1>2. ASSUME NEW F \in InFork, fork' = [fork EXCEPT ![e] = F], F.child = fork[e].child
      PROVE  fork'[e] = F /\ InForkAt(e, fork[e].child, F.done)
  <2>1. fork'[e] = F /\ \A f \in Envs : f # e => fork'[f] = fork[f]
    BY <1>1, <1>2
  <2>2. fork' \in [Envs -> InFork \cup {NIL}]
    BY <1>1, <1>2
  <2> QED
    BY <1>2, <2>1, <2>2, NilAssumption DEF InForkAt
<1>3. ASSUME NEW v \in VPNs, fork' = [fork EXCEPT ![e].done = @ \cup {v}]
      PROVE  InForkAt(e, fork[e].child, fork[e].done \cup {v}) /\ fork'[e].half = fork[e].half
  <2> DEFINE F == [fork[e] EXCEPT !.done = @ \cup {v}]
  <2>1. fork' = [fork EXCEPT ![e] = F]
    BY <1>3
  <2>2. F \in InFork /\ F.child = fork[e].child /\ F.done = fork[e].done \cup {v} /\ F.half = fork[e].half
    BY <1>1 DEF InFork
  <2> HIDE DEF F
  <2> QED
    BY <1>2, <2>1, <2>2
<1>4. ASSUME NEW v \in VPNs, fork' = [fork EXCEPT ![e].done = @ \cup {v}, ![e].half = FALSE]
      PROVE  InForkAt(e, fork[e].child, fork[e].done \cup {v}) /\ fork'[e].half = FALSE
  <2> DEFINE F == [fork[e] EXCEPT !.done = @ \cup {v}, !.half = FALSE]
  <2>1. fork' = [fork EXCEPT ![e] = F]
    BY <1>1, <1>4
  <2>2. F \in InFork /\ F.child = fork[e].child /\ F.done = fork[e].done \cup {v} /\ F.half = FALSE
    BY <1>1 DEF InFork
  <2> HIDE DEF F
  <2> QED
    BY <1>2, <2>1, <2>2
<1>5. ASSUME fork' = [fork EXCEPT ![e].half = TRUE]
      PROVE  InForkAt(e, fork[e].child, fork[e].done) /\ fork'[e].half = TRUE
  <2> DEFINE F == [fork[e] EXCEPT !.half = TRUE]
  <2>1. fork' = [fork EXCEPT ![e] = F]
    BY <1>5
  <2>2. F \in InFork /\ F.child = fork[e].child /\ F.done = fork[e].done /\ F.half = TRUE
    BY <1>1 DEF InFork
  <2> HIDE DEF F
  <2> QED
    BY <1>2, <2>1, <2>2
<1> QED
  BY <1>3, <1>4, <1>5

\* The page that cannot be written, or is shared, goes to the child as it is.
LEMMA DupAsIs ==
  ASSUME CowInd, NEW e \in Envs, NEW v \in VPNs, NEW c \in Envs, Dup(e, v, c), ~Writable(pt[e][v]),
         InForkAt(e, c, fork[e].done \cup {v}), ~fork'[e].half,
         NEW x, x = pt[e][v], pt' = [pt EXCEPT ![c][v] = x]
  PROVE  CowInd'
<1>1. /\ v \in Addrs /\ Mapped(e, v) /\ x \in PTEs /\ ~fork[e].half /\ PteOk(e, v) /\ entry[e] /\ store[e] = NIL
      /\ fork[e] # NIL
  BY Dupped DEF CowInd, Pte
<1>3. /\ fork' \in [Envs -> InFork \cup {NIL}] /\ fork'[e] # NIL /\ fork'[e].child = c
      /\ fork'[e].done = fork[e].done \cup {v} /\ \A f \in Envs : f # e => fork'[f] = fork[f]
  BY DEF InForkAt
<1>4. x # NIL /\ (x.D <=> ~x.COW) /\ (x.LIBRARY => x.D)
  BY <1>1 DEF PteOk, Mapped
<1>5. x.page = pt[e][v].page /\ x.LIBRARY = pt[e][v].LIBRARY /\ ~Writable(x)
  OBVIOUS
<1>6. /\ TypeOK' /\ Pte' /\ Shares' /\ BlankOk' /\ NoBadFault'
      /\ \A f \in Envs : EnvOk(f)'
      /\ \A f \in Envs : f # e => ForkOk(f)'
      /\ pt'[c][v] = x /\ \A f \in Envs, vb \in Addrs : ~(f = c /\ vb = v) => pt'[f][vb] = pt[f][vb]
  <2>1. Gift(x, pt[e][v])
    BY <1>1, <1>4, <1>5 DEF Gift
  <2>2. fork[e].done \cup {v} \in SUBSET VPNs /\ x \in PTEs
    BY <1>1, Typed DEF CowInd
  <2> QED
    <3>1. Handed(e, v, c, x, fork[e].done \cup {v})
      BY <1>1, <2>1 DEF Handed
    <3> QED
      BY <2>2, <3>1, GiveChild
<1>7. ForkOk(e)'
  <2>1. /\ entry'[e] /\ store'[e] = NIL /\ status' = status
        /\ status[c] = "NOT_RUNNABLE" /\ \A f \in Envs : fork[f] # NIL /\ fork[f].child = c => f = e
        /\ \A y \in VPNs : Mapped(c, y) <=> y \in fork[e].done
    BY <1>1, Dupped, Constants DEF Dup
  <2>2. \A y \in VPNs : Mapped(c, y)' <=> y \in fork[e].done \cup {v}
    <3> SUFFICES ASSUME NEW y \in VPNs PROVE Mapped(c, y)' <=> y \in fork[e].done \cup {v}
      OBVIOUS
    <3>1. y # v => pt'[c][y] = pt[c][y]
      BY <1>6 DEF Addrs
    <3> QED
      BY <1>4, <1>6, <2>1, <3>1 DEF Mapped
  <2> QED
    BY <1>3, <2>1, <2>2 DEF ForkOk
<1> QED
  BY <1>6, <1>7 DEF CowInd, EnvsOk

\* The first half: the child gets the page, marked.
LEMMA DupChild ==
  ASSUME CowInd, NEW e \in Envs, NEW v \in VPNs, NEW c \in Envs, Dup(e, v, c), Writable(pt[e][v]), ~fork[e].half,
         InForkAt(e, c, fork[e].done), fork'[e].half,
         NEW x, x = AsCow(pt[e][v]), pt' = [pt EXCEPT ![c][v] = x]
  PROVE  CowInd'
<1>1. /\ v \in Addrs /\ Mapped(e, v) /\ pt[e][v] \in PTEs /\ entry[e] /\ store[e] = NIL
      /\ fork[e] # NIL /\ fork[e].done \in SUBSET VPNs /\ c # e /\ Next_vpn(e, v)
  BY Dupped, Typed, Constants DEF CowInd, Dup
<1>2. /\ fork' \in [Envs -> InFork \cup {NIL}] /\ fork'[e] # NIL /\ fork'[e].child = c
      /\ fork'[e].done = fork[e].done /\ \A f \in Envs : f # e => fork'[f] = fork[f]
  BY DEF InForkAt
<1>3. /\ x \in PTEs /\ ~x.D /\ x.COW /\ x.page = pt[e][v].page /\ x.LIBRARY = pt[e][v].LIBRARY /\ ~x.LIBRARY
  BY <1>1 DEF AsCow, PTEs, Writable
<1>4. x # NIL /\ ~Writable(x)
  BY <1>3, NilAssumption DEF Writable
<1>5. \A y \in VPNs : pt'[e][y] = pt[e][y]
  BY <1>1, <1>4, Typed DEF CowInd, Addrs
<1>6. \A y \in VPNs : Next_vpn(e, y)' <=> Next_vpn(e, y)
  BY <1>2, <1>5 DEF Next_vpn
<1>7. MayShare(e, v, c, v)'
  BY <1>1, <1>2, <1>6 DEF MayShare
<1>8. /\ TypeOK' /\ Pte' /\ Shares' /\ BlankOk' /\ NoBadFault'
      /\ \A f \in Envs : EnvOk(f)'
      /\ \A f \in Envs : f # e => ForkOk(f)'
      /\ pt'[c][v] = x /\ \A f \in Envs, vb \in Addrs : ~(f = c /\ vb = v) => pt'[f][vb] = pt[f][vb]
  <2>1. Gift(x, pt[e][v])
    BY <1>3, <1>4 DEF Gift
  <2>2. fork[e].done \in SUBSET VPNs /\ x \in PTEs
    BY <1>1, <1>3
  <2> QED
    <3>1. Handed(e, v, c, x, fork[e].done)
      BY <1>7, <2>1 DEF Handed
    <3> QED
      BY <2>2, <3>1, GiveChild
<1>9. ForkOk(e)'
  <2>1. /\ entry'[e] /\ store'[e] = NIL /\ status' = status
        /\ status[c] = "NOT_RUNNABLE" /\ \A f \in Envs : fork[f] # NIL /\ fork[f].child = c => f = e
        /\ \A y \in VPNs : Mapped(c, y) <=> y \in fork[e].done
    BY <1>1, Dupped, Constants DEF Dup
  <2>2. \A y \in VPNs : Next_vpn(e, y) <=> y = v
    BY <1>1, NextOnce
  <2>3. \A y \in VPNs : Mapped(c, y)' <=> y \in fork[e].done \/ Next_vpn(e, y)'
    <3> SUFFICES ASSUME NEW y \in VPNs PROVE Mapped(c, y)' <=> y \in fork[e].done \/ y = v
      BY <1>6, <2>2
    <3>1. y # v => pt'[c][y] = pt[c][y]
      BY <1>8 DEF Addrs
    <3> QED
      BY <1>4, <1>8, <2>1, <3>1 DEF Mapped
  <2>4. Next_vpn(e, v)' /\ Writable(pt'[e][v]) /\ pt'[c][v].page = pt'[e][v].page
    BY <1>1, <1>3, <1>5, <1>6, <1>8
  <2> QED
    BY <1>2, <2>1, <2>3, <2>4 DEF ForkOk
<1> QED
  BY <1>8, <1>9 DEF CowInd, EnvsOk

\* The second half: the parent's right to write is taken away.
LEMMA DupParent ==
  ASSUME CowInd, NEW e \in Envs, NEW v \in VPNs, NEW c \in Envs \cup {NIL}, Dup(e, v, c), Writable(pt[e][v]),
         fork[e].half,
         InForkAt(e, c, fork[e].done \cup {v}), ~fork'[e].half,
         NEW x, x = AsCow(pt[e][v]), pt' = [pt EXCEPT ![e][v] = x]
  PROVE  CowInd'
<1>1. /\ status[e] = "RUNNABLE" /\ store[e] = NIL /\ cow[e] = "no" /\ entry[e]
      /\ v \in Addrs /\ Mapped(e, v) /\ pt[e][v] \in PTEs /\ fork[e] # NIL
      /\ pt \in [Envs -> [Addrs -> PTEs \cup {NIL}]] /\ v \notin SharedVPNs /\ Next_vpn(e, v) /\ v # UCOW
  BY Dupped, Typed, Constants DEF CowInd, Dup
<1>2. UNCHANGED <<word, status, entry, store, cow, panic, forks, stores>>
  BY DEF Dup
<1>4. /\ fork' \in [Envs -> InFork \cup {NIL}] /\ fork'[e] # NIL /\ fork'[e].child = c
      /\ fork'[e].done = fork[e].done \cup {v} /\ \A f \in Envs : f # e => fork'[f] = fork[f]
  BY DEF InForkAt
<1>5. x \in PTEs /\ ~x.D /\ x.COW /\ x.page = pt[e][v].page /\ ~x.LIBRARY
  BY <1>1 DEF AsCow, PTEs, Writable
<1>6. x # NIL /\ ~Writable(x)
  BY <1>5, NilAssumption DEF Writable
<1>7. /\ pt'[e][v] = x
      /\ \A f \in Envs, vb \in Addrs : ~(f = e /\ vb = v) => pt'[f][vb] = pt[f][vb]
      /\ pt' \in [Envs -> [Addrs -> PTEs \cup {NIL}]]
  <2>1. pt'[e][v] = x
    BY <1>1, <1>6
  <2>2. \A f \in Envs, vb \in Addrs : ~(f = e /\ vb = v) => pt'[f][vb] = pt[f][vb]
    BY <1>1, <1>6
  <2>3. pt' \in [Envs -> [Addrs -> PTEs \cup {NIL}]]
    BY <1>1, <1>5, <1>6
  <2> QED
    BY <2>1, <2>2, <2>3
<1>8. TypeOK'
  <2>1. pt' \in [Envs -> [VPNs \cup {UCOW} -> PTEs \cup {NIL}]]
    BY <1>7 DEF Addrs
  <2> QED
    BY <1>2, <1>4, <2>1 DEF CowInd, TypeOK
<1>9. Pte'
  <2>1. ASSUME NEW f \in Envs, NEW vb \in Addrs PROVE PteOk(f, vb)'
    <3>1. CASE f = e /\ vb = v
      BY <1>1, <1>5, <1>7, <3>1 DEF PteOk, Mapped
    <3>2. CASE ~(f = e /\ vb = v)
      <4>1. pt'[f][vb] = pt[f][vb]
        BY <1>7, <3>2
      <4> QED
        BY <4>1 DEF CowInd, Pte, PteOk, Mapped
    <3> QED
      BY <3>1, <3>2
  <2> QED
    BY <2>1 DEF Pte
<1>10. Shares'
  <2>1. ASSUME NEW f \in Envs, NEW vb \in Addrs, NEW g \in Envs, NEW vc \in Addrs
        PROVE  ShareOk(f, vb, g, vc)'
    <3>1. ShareOk(f, vb, g, vc)
      BY DEF CowInd, Shares
    <3>2. CASE ~(f = e /\ vb = v) /\ ~(g = e /\ vc = v)
      <4>1. pt'[f][vb] = pt[f][vb] /\ pt'[g][vc] = pt[g][vc]
        BY <1>7, <3>2
      <4>2. MayShare(f, vb, g, vc) => MayShare(f, vb, g, vc)'
        <5>1. \A h \in Envs, va \in Addrs : h # e /\ h # c => pt'[h][va] = pt[h][va]
          BY <1>7
        <5> QED
          BY <1>4, <3>2, <5>1, DupMayShare
      <4> QED
        BY <3>1, <4>1, <4>2 DEF ShareOk, Mapped
    <3>3. CASE f = e /\ vb = v
      <4>1. pt'[f][vb] = x /\ pt'[g][vc].page = pt[g][vc].page /\ (Mapped(g, vc)' => Mapped(g, vc))
        BY <1>1, <1>5, <1>7, <3>3 DEF Mapped
      <4> QED
        BY <1>1, <1>5, <1>6, <3>1, <3>3, <4>1 DEF ShareOk
    <3>4. CASE ~(f = e /\ vb = v) /\ g = e /\ vc = v
      <4>1. pt'[f][vb] = pt[f][vb] /\ pt'[g][vc] = x
        BY <1>7, <3>4
      <4>2. Mapped(f, vb)' /\ pt'[f][vb].page = pt'[g][vc].page => ~Writable(pt'[f][vb])
        BY <1>5, <3>4, <4>1, ChildCannot DEF Mapped
      <4>3. Mapped(f, vb)' /\ vb \in SharedVPNs => vb # v /\ pt'[f][vb].page # pt'[g][vc].page
        BY <1>1, <1>5, <3>1, <3>4, <4>1 DEF ShareOk, Mapped
      <4> QED
        BY <3>4, <4>2, <4>3 DEF ShareOk
    <3> QED
      BY <3>2, <3>3, <3>4
  <2> QED
    BY <2>1 DEF Shares
<1>11. EnvOk(e)'
  <2>1. EnvOk(e) /\ \A vb \in Addrs : vb # v => pt'[e][vb] = pt[e][vb]
    BY <1>7 DEF CowInd, EnvsOk
  <2>2. UCOW \in Addrs /\ \A y \in SharedVPNs : y \in Addrs /\ y # v
    BY <1>1, Constants DEF Addrs
  <2> QED
    BY <1>1, <1>2, <2>1, <2>2 DEF EnvOk, Mapped
<1>12. c # NIL => /\ c \in Envs /\ c # e /\ status[c] = "NOT_RUNNABLE" /\ fork[c] = NIL /\ store[c] = NIL /\ cow[c] = "no"
                  /\ \A f \in Envs : fork[f] # NIL /\ fork[f].child = c => f = e
                  /\ \A y \in VPNs : Mapped(c, y) <=> y \in fork[e].done \cup {v}
                  /\ \A vb \in Addrs : pt'[c][vb] = pt[c][vb]
  BY <1>7, Dupped
<1>13. ForkOk(e)'
  <2>1. c # NIL => \A y \in VPNs : Mapped(c, y)' <=> y \in fork[e].done \cup {v}
    BY <1>12 DEF Mapped, Addrs
  <2> QED
    BY <1>1, <1>2, <1>4, <1>12, <2>1 DEF ForkOk
<1>14. ASSUME NEW f \in Envs, f # e PROVE EnvOk(f)' /\ ForkOk(f)'
  <2>1. CASE f # c
    <3>1. \A h \in Envs, va \in Addrs : h # e /\ h # c => pt'[h][va] = pt[h][va]
      BY <1>7
    <3> QED
      BY <1>4, <1>14, <2>1, <3>1, DupOthers
  <2>2. CASE f = c
    <3>1. EnvOk(c) /\ fork'[c] = NIL /\ c # NIL /\ UCOW \in Addrs
      BY <1>4, <1>12, <1>14, <2>2, Constants DEF CowInd, EnvsOk, Addrs
    <3> QED
      BY <1>2, <1>12, <2>2, <3>1 DEF EnvOk, ForkOk, Mapped
  <2> QED
    BY <2>1, <2>2
<1>15. BlankOk' /\ NoBadFault'
  <2>1. \A f \in Envs, vb \in Addrs : Mapped(f, vb) => Mapped(f, vb)' /\ pt'[f][vb].page = pt[f][vb].page
    BY <1>5, <1>6, <1>7 DEF Mapped
  <2>2. ASSUME NEW q \in Pages, word'[q] # Zero
        PROVE  \E f \in Envs, vb \in Addrs : Mapped(f, vb)' /\ pt'[f][vb].page = q
    <3>1. PICK f \in Envs, vb \in Addrs : Mapped(f, vb) /\ pt[f][vb].page = q
      BY <1>2, <2>2 DEF CowInd, BlankOk
    <3> QED
      BY <2>1, <3>1
  <2> QED
    BY <1>2, <2>2 DEF CowInd, BlankOk, NoBadFault
<1> QED
  BY <1>8, <1>9, <1>10, <1>11, <1>13, <1>14, <1>15 DEF CowInd, EnvsOk

\* Without a child, fork goes through the pages all the same.
LEMMA DupAlone ==
  ASSUME CowInd, NEW e \in Envs, NEW v \in VPNs, Dup(e, v, NIL), ~fork[e].half, pt' = pt,
         NEW d \in SUBSET VPNs, InForkAt(e, NIL, d),
         fork'[e].half => Writable(pt[e][v]) /\ d = fork[e].done
  PROVE  CowInd'
<1>1. /\ UNCHANGED <<word, status, entry, store, cow, panic, forks, stores>> /\ Next_vpn(e, v)
      /\ store[e] = NIL /\ entry[e] /\ status[e] = "RUNNABLE"
  BY Dupped DEF Dup
<1>2. /\ fork' \in [Envs -> InFork \cup {NIL}] /\ fork'[e] # NIL /\ fork'[e].child = NIL /\ fork'[e].done = d
      /\ \A f \in Envs : f # e => fork'[f] = fork[f]
  BY DEF InForkAt
<1>3. TypeOK'
  BY <1>1, <1>2 DEF CowInd, TypeOK
<1>4. Pte'
  BY DEF CowInd, Pte, PteOk, Mapped
<1>5. Shares'
  <2>1. ASSUME NEW f \in Envs, NEW vb \in Addrs, NEW g \in Envs, NEW vc \in Addrs, MayShare(f, vb, g, vc)
        PROVE  MayShare(f, vb, g, vc)'
    BY <1>2, <2>1, DupMayShare
  <2> QED
    BY <2>1 DEF CowInd, Shares, ShareOk, Mapped
<1>6. EnvOk(e)'
  BY <1>1 DEF CowInd, EnvsOk, EnvOk, Mapped
<1>7. ForkOk(e)'
  <2>1. fork'[e].half => Next_vpn(e, v)' /\ Writable(pt'[e][v])
    BY <1>1, <1>2 DEF Next_vpn
  <2> QED
    BY <1>1, <1>2, <2>1 DEF ForkOk
<1>8. ASSUME NEW f \in Envs, f # e PROVE EnvOk(f)' /\ ForkOk(f)'
  <2>1. f # NIL
    BY Constants
  <2> QED
    BY <1>2, <1>8, <2>1, DupOthers
<1>9. BlankOk' /\ NoBadFault'
  BY <1>1 DEF CowInd, BlankOk, NoBadFault, Mapped
<1> QED
  BY <1>3, <1>4, <1>5, <1>6, <1>7, <1>8, <1>9 DEF CowInd, EnvsOk

LEMMA DuppageStep ==
  ASSUME CowInd, NEW e \in Envs, fork_duppage(e)
  PROVE  CowInd'
<1>1. PICK v \in VPNs : Next_vpn(e, v) /\ duppage(e, v)
  BY DEF fork_duppage
<1> DEFINE c == fork[e].child
<1>2. Dup(e, v, c) /\ c \in Envs \cup {NIL} /\ fork[e] # NIL /\ fork[e].half \in BOOLEAN /\ fork[e].done \in SUBSET VPNs
  <2>1. InUser(e) /\ fork[e] # NIL
    BY DEF fork_duppage, InLoop
  <2>2. UNCHANGED <<word, status, entry, store, cow, panic, forks, stores>>
    BY <1>1 DEF duppage
  <2> QED
    BY <1>1, <2>1, <2>2, Typed DEF Dup, CowInd
<1>3. pt[e][v] \in PTEs /\ (fork[e].half => Writable(pt[e][v]))
  BY <1>2, Dupped
<1>4. CASE /\ ~Writable(pt[e][v])
           /\ fork' = [fork EXCEPT ![e].done = @ \cup {v}]
           /\ pt' = IF c = NIL THEN pt ELSE [pt EXCEPT ![c][v] = pt[e][v]]
  <2>1. InForkAt(e, c, fork[e].done \cup {v}) /\ ~fork'[e].half /\ ~fork[e].half
    BY <1>2, <1>3, <1>4, ForkMoved
  <2> DEFINE x == pt[e][v]
  <2>2. x = pt[e][v] /\ (c # NIL => pt' = [pt EXCEPT ![c][v] = x]) /\ fork[e].done \cup {v} \in SUBSET VPNs
    BY <1>2, <1>4
  <2> HIDE DEF c, x
  <2>3. CASE c = NIL
    BY <1>2, <1>4, <2>1, <2>2, <2>3, DupAlone
  <2>4. CASE c # NIL
    BY <1>2, <1>4, <2>1, <2>2, <2>4, DupAsIs
  <2> QED
    BY <2>3, <2>4
<1>5. CASE /\ Writable(pt[e][v]) /\ ~fork[e].half
           /\ fork' = [fork EXCEPT ![e].half = TRUE]
           /\ pt' = IF c = NIL THEN pt ELSE [pt EXCEPT ![c][v] = AsCow(pt[e][v])]
  <2>1. InForkAt(e, c, fork[e].done) /\ fork'[e].half
    BY <1>2, <1>5, ForkMoved
  <2> DEFINE x == AsCow(pt[e][v])
  <2>2. x = AsCow(pt[e][v]) /\ (c # NIL => pt' = [pt EXCEPT ![c][v] = x])
    BY <1>5
  <2> HIDE DEF c, x
  <2>3. CASE c = NIL
    BY <1>2, <1>5, <2>1, <2>2, <2>3, DupAlone
  <2>4. CASE c # NIL
    BY <1>2, <1>5, <2>1, <2>2, <2>4, DupChild
  <2> QED
    BY <2>3, <2>4
<1>6. CASE /\ Writable(pt[e][v]) /\ fork[e].half
           /\ fork' = [fork EXCEPT ![e].done = @ \cup {v}, ![e].half = FALSE]
           /\ pt' = [pt EXCEPT ![e][v] = AsCow(pt[e][v])]
  <2>1. InForkAt(e, c, fork[e].done \cup {v}) /\ ~fork'[e].half
    BY <1>2, <1>6, ForkMoved
  <2> DEFINE x == AsCow(pt[e][v])
  <2>2. x = AsCow(pt[e][v]) /\ pt' = [pt EXCEPT ![e][v] = x]
    BY <1>6
  <2> HIDE DEF c, x
  <2> QED
    BY <1>2, <1>6, <2>1, <2>2, DupParent
<1>7. \/ /\ ~Writable(pt[e][v])
         /\ fork' = [fork EXCEPT ![e].done = @ \cup {v}]
         /\ pt' = IF c = NIL THEN pt ELSE [pt EXCEPT ![c][v] = pt[e][v]]
      \/ /\ Writable(pt[e][v]) /\ ~fork[e].half
         /\ fork' = [fork EXCEPT ![e].half = TRUE]
         /\ pt' = IF c = NIL THEN pt ELSE [pt EXCEPT ![c][v] = AsCow(pt[e][v])]
      \/ /\ Writable(pt[e][v]) /\ fork[e].half
         /\ fork' = [fork EXCEPT ![e].done = @ \cup {v}, ![e].half = FALSE]
         /\ pt' = [pt EXCEPT ![e][v] = AsCow(pt[e][v])]
  BY <1>1 DEF duppage
<1> QED
  BY <1>4, <1>5, <1>6, <1>7

LEMMA AccessStep ==
  ASSUME CowInd, NEW e \in Envs, Access(e)
  PROVE  CowInd'
<1>1. status[e] = "RUNNABLE" /\ store[e] # NIL /\ cow[e] = "no" /\ Running(e)
  BY DEF Access, Running
<1> DEFINE va == store[e].va
<1>2. va \in VPNs /\ va \in Addrs /\ EnvOk(e) /\ ForkOk(e)
  BY <1>1, Typed DEF CowInd, EnvsOk, Addrs
<1>3. \/ ~Mapped(e, va) /\ Demand(e, va)
      \/ WriteThrough(e)
      \/ Fault(e)
  BY <1>1 DEF Access, Mapped, WriteThrough, Fault
<1>4. CASE ~Mapped(e, va) /\ Demand(e, va)
  <2>1. va \notin SharedVPNs /\ va # UCOW /\ (fork[e] # NIL => va = StackVPN)
    BY <1>1, <1>2, <1>4, Constants DEF EnvOk, ForkOk
  <2> HIDE DEF va
  <2> QED
    BY <1>1, <1>2, <1>4, <2>1, DemandStep
<1> QED
  BY <1>3, <1>4, WriteStep, FaultStep

LEMMA CowInit == Init => CowInd
<1> SUFFICES ASSUME Init PROVE CowInd
  OBVIOUS
<1>1. IsFiniteSet(TouchedVPNs) /\ TouchedVPNs \subseteq Int /\ Cardinality(TouchedVPNs) <= Cardinality(Pages)
  <2>1. TouchedVPNs \subseteq VPNs /\ IsFiniteSet(VPNs)
    BY Constants, VPNsFinite
  <2>2. IsFiniteSet(TouchedVPNs)
    BY <2>1, FS_Subset
  <2>3. TouchedVPNs \subseteq Int
    BY <2>1, Constants
  <2> QED
    BY <2>2, <2>3, CowAssumption
<1>2. Cardinality(TouchedVPNs) \in Nat /\ Cardinality(Pages) \in Nat
  BY <1>1, Constants, FS_CardinalityType
<1>3. ASSUME NEW v \in TouchedVPNs
      PROVE  FirstPage(v) \in Pages /\ Rank(FirstPage(v), Pages) = Rank(v, TouchedVPNs)
  <2>1. Rank(v, TouchedVPNs) \in 0 .. Cardinality(TouchedVPNs) - 1
    BY <1>1, RankRange
  <2>2. Rank(v, TouchedVPNs) \in 0 .. Cardinality(Pages) - 1
    BY <1>1, <1>2, <2>1
  <2>3. \E p \in Pages : Rank(p, Pages) = Rank(v, TouchedVPNs)
    BY <2>2, Constants, RankOnto
  <2> QED
    BY <2>3 DEF FirstPage
<1>4. ASSUME NEW v \in TouchedVPNs, NEW w \in TouchedVPNs, FirstPage(v) = FirstPage(w)
      PROVE  v = w
  <2>1. Rank(v, TouchedVPNs) = Rank(w, TouchedVPNs)
    BY <1>3, <1>4
  <2>0. /\ Rank(v, TouchedVPNs) \in 0 .. Cardinality(TouchedVPNs) - 1
        /\ Rank(w, TouchedVPNs) \in 0 .. Cardinality(TouchedVPNs) - 1
    BY <1>1, RankRange
  <2>2. v \in Int /\ w \in Int /\ Rank(v, TouchedVPNs) \in Int /\ Rank(w, TouchedVPNs) \in Int
    BY <1>1, <1>2, <2>0
  <2>3. v < w => Rank(v, TouchedVPNs) < Rank(w, TouchedVPNs)
    BY <1>1, RankOrder
  <2>4. w < v => Rank(w, TouchedVPNs) < Rank(v, TouchedVPNs)
    BY <1>1, RankOrder
  <2> QED
    BY <2>1, <2>2, <2>3, <2>4
<1> DEFINE first(va) == PTE(FirstPage(va), TRUE, FALSE, va \in SharedVPNs)
<1>5. ASSUME NEW va \in TouchedVPNs
      PROVE  /\ first(va) \in PTEs /\ first(va) # NIL /\ first(va).page = FirstPage(va) /\ first(va).D
             /\ ~first(va).COW /\ (first(va).LIBRARY <=> va \in SharedVPNs)
  <2> DEFINE l == va \in SharedVPNs
  <2>1. l \in BOOLEAN /\ FirstPage(va) \in Pages
    BY <1>3
  <2> HIDE DEF l
  <2>2. /\ PTE(FirstPage(va), TRUE, FALSE, l) \in PTEs /\ PTE(FirstPage(va), TRUE, FALSE, l) # NIL
        /\ PTE(FirstPage(va), TRUE, FALSE, l).page = FirstPage(va) /\ PTE(FirstPage(va), TRUE, FALSE, l).D = TRUE
        /\ PTE(FirstPage(va), TRUE, FALSE, l).COW = FALSE /\ PTE(FirstPage(va), TRUE, FALSE, l).LIBRARY = l
    BY <2>1, FreshPTE
  <2> QED
    BY <2>2 DEF l
<1>6. \A e \in Envs, va \in Addrs : pt[e][va] = IF e = Root /\ va \in TouchedVPNs THEN first(va) ELSE NIL
  BY DEF Init, Addrs
<1>7. pt \in [Envs -> [Addrs -> PTEs \cup {NIL}]]
  <2> DEFINE row(e) == [va \in Addrs |-> IF e = Root /\ va \in TouchedVPNs THEN first(va) ELSE NIL]
  <2>1. pt = [e \in Envs |-> row(e)]
    BY DEF Init, Addrs
  <2> HIDE DEF first
  <2>2. \A e \in Envs : row(e) \in [Addrs -> PTEs \cup {NIL}]
    BY <1>5
  <2> HIDE DEF row
  <2> QED
    BY <2>1, <2>2
<1>8. /\ word = [p \in Pages |-> Zero] /\ status = [e \in Envs |-> IF e = Root THEN "RUNNABLE" ELSE "FREE"]
      /\ entry = [e \in Envs |-> FALSE] /\ fork = [e \in Envs |-> NIL] /\ store = [e \in Envs |-> NIL]
      /\ cow = [e \in Envs |-> "no"] /\ panic = "no" /\ forks = 0 /\ stores = 0
  BY DEF Init
<1> HIDE DEF first
<1>9. TypeOK
  <2>1. /\ word \in [Pages -> Words] /\ status \in [Envs -> {"FREE", "RUNNABLE", "NOT_RUNNABLE"}]
        /\ entry \in [Envs -> BOOLEAN] /\ fork \in [Envs -> InFork \cup {NIL}] /\ store \in [Envs -> InStore \cup {NIL}]
        /\ cow \in [Envs -> {"no", "alloc", "copy", "map", "unmap"}]
    BY <1>8, Constants
  <2>2. panic \in {"no", "no memory", "no handler", "not copy-on-write"} /\ forks \in 0 .. MaxForks /\ stores \in 0 .. MaxStores
    BY <1>8, Constants
  <2> QED
    BY <1>7, <2>1, <2>2 DEF TypeOK, Addrs
<1>10. \A e \in Envs, va \in Addrs : Mapped(e, va) => e = Root /\ va \in TouchedVPNs /\ pt[e][va] = first(va) /\ va # UCOW
  BY <1>6, Constants DEF Mapped
<1>11. Pte
  <2>1. ASSUME NEW e \in Envs, NEW va \in Addrs PROVE PteOk(e, va)
    BY <1>5, <1>10 DEF PteOk
  <2> QED
    BY <2>1 DEF Pte
<1>12. Shares
  <2>1. ASSUME NEW e \in Envs, NEW va \in Addrs, NEW f \in Envs, NEW vb \in Addrs, Mapped(e, va), Mapped(f, vb)
        PROVE  /\ e = f
               /\ pt[e][va].page = pt[f][vb].page => va = vb
               /\ va = vb => pt[e][va].page = pt[f][vb].page
    <3>1. /\ e = Root /\ f = Root /\ va \in TouchedVPNs /\ vb \in TouchedVPNs
          /\ pt[e][va].page = FirstPage(va) /\ pt[f][vb].page = FirstPage(vb)
      BY <1>5, <1>10, <2>1
    <3> QED
      BY <1>4, <3>1
  <2> QED
    BY <2>1 DEF Shares, ShareOk, MayShare
<1>13. EnvsOk
  <2>1. ASSUME NEW e \in Envs PROVE EnvOk(e) /\ ForkOk(e)
    <3>1. store[e] = NIL /\ fork[e] = NIL /\ cow[e] = "no" /\ status[e] = IF e = Root THEN "RUNNABLE" ELSE "FREE"
      BY <1>8
    <3>2. \A va \in Addrs : Mapped(e, va) => e = Root /\ va # UCOW /\ ~pt[e][va].COW
      BY <1>5, <1>10
    <3>3. e = Root => \A v \in SharedVPNs : Mapped(e, v)
      BY <1>5, <1>6, Constants DEF Mapped, Addrs
    <3>4. UCOW \in Addrs
      BY DEF Addrs
    <3> QED
      BY <3>1, <3>2, <3>3, <3>4 DEF EnvOk, ForkOk
  <2> QED
    BY <2>1 DEF EnvsOk
<1>14. BlankOk /\ NoBadFault
  <2>1. (\A p \in Pages : word[p] = Zero) /\ panic = "no"
    BY <1>8
  <2> QED
    BY <2>1 DEF BlankOk, NoBadFault
<1> QED
  BY <1>9, <1>11, <1>12, <1>13, <1>14 DEF CowInd

LEMMA CowNext == CowInd /\ [Next]_vars => CowInd'
<1> SUFFICES ASSUME CowInd, [Next]_vars PROVE CowInd'
  OBVIOUS
<1>1. CASE UNCHANGED vars
  <2>1. /\ UNCHANGED <<pt, word, status, entry, fork, store, cow, panic, forks, stores>>
    BY <1>1 DEF vars
  <2>2. TypeOK' /\ BlankOk' /\ NoBadFault'
    BY <2>1 DEF CowInd, TypeOK, BlankOk, NoBadFault, Mapped
  <2>3. Pte' /\ Shares'
    BY <2>1, NoMapping
  <2>4. ASSUME NEW f \in Envs PROVE EnvOk(f)' /\ ForkOk(f)'
    BY <2>1, SameEnv, SameFork
  <2> QED
    BY <2>2, <2>3, <2>4 DEF CowInd, EnvsOk
<1>2. ASSUME NEW e \in Envs, NEW v \in VPNs, NEW w \in Words, Begin(e, v, w) PROVE CowInd'
  BY <1>2, BeginStep
<1>3. ASSUME NEW e \in Envs, Access(e) PROVE CowInd'
  BY <1>3, AccessStep
<1>4. ASSUME NEW e \in Envs, cow_entry(e) PROVE CowInd'
  BY <1>4, AllocStep, CopyStep, MapStep, UnmapStep DEF cow_entry
<1>5. ASSUME NEW e \in Envs, fork_entry(e) \/ fork_exofork(e) \/ fork_duppage(e) \/ fork_end(e) PROVE CowInd'
  BY <1>5, EntryStep, ExoforkStep, DuppageStep, EndStep
<1>6. ASSUME NEW e \in Envs, exit(e) PROVE CowInd'
  BY <1>6, ExitStep
<1> QED
  BY <1>1, <1>2, <1>3, <1>4, <1>5, <1>6 DEF Next

-----------------------------------------------------------------------------
(***************************************************************************)
(* The theorems.                                                           *)
(***************************************************************************)
\* CowInd holds always: however the steps of fork, of cow_entry, of the stores
\* and of exit are interleaved.
THEOREM Invariance == Spec => []CowInd
<1> QED
  BY CowInit, CowNext, PTL DEF Spec

\* Every variable has its type.
THEOREM TypeSafe == Spec => []TypeOK
<1>1. CowInd => TypeOK
  BY DEF CowInd
<1> QED
  BY <1>1, Invariance, PTL

\* A private page that can be written is mapped once, but for the page that
\* duppage is half-way through and the one cow_entry is moving into place.
THEOREM PrivateSafe == Spec => []WritableIsPrivate
<1>1. CowInd => WritableIsPrivate
  <2> SUFFICES ASSUME CowInd PROVE WritableIsPrivate
    OBVIOUS
  <2>1. ASSUME NEW e \in Envs, NEW va \in VPNs \cup {UCOW}, pt[e][va] # NIL
        PROVE  /\ pt[e][va].COW => ~pt[e][va].D /\ ~pt[e][va].LIBRARY
               /\ Writable(pt[e][va]) =>
                    \A f \in Envs, vb \in VPNs \cup {UCOW} :
                      pt[f][vb] # NIL /\ pt[f][vb].page = pt[e][va].page => MayShare(e, va, f, vb)
    <3>1. PteOk(e, va)
      BY DEF CowInd, Pte, Addrs
    <3>2. \A f \in Envs, vb \in VPNs \cup {UCOW} : ShareOk(e, va, f, vb)
      BY DEF CowInd, Shares, Addrs
    <3> QED
      BY <2>1, <3>1, <3>2 DEF PteOk, ShareOk, Mapped
  <2> QED
    BY <2>1 DEF WritableIsPrivate
<1> QED
  BY <1>1, Invariance, PTL

\* do_tlb_mod always finds a handler, and cow_entry always finds a page that is
\* marked: of the reasons to give up, only that there is no memory occurs.
THEOREM FaultsSafe == Spec => []NoBadFault
<1>1. CowInd => NoBadFault
  BY DEF CowInd
<1> QED
  BY <1>1, Invariance, PTL

-----------------------------------------------------------------------------
(***************************************************************************)
(* What the programs find in memory is what a fork that copies each page   *)
(* at one instant would have put there.                                    *)
(***************************************************************************)
Visible(f, v) == Mapped(f, v) /\ (status[f] = "NOT_RUNNABLE" => v \in Given(f))

LEMMA GivenIs ==
  ASSUME NEW c, NEW v
  PROVE  v \in Given(c) <=> \E e \in Envs : fork[e] # NIL /\ fork[e].child = c /\ v \in fork[e].done
  BY DEF Given

LEMMA ViewAt ==
  \A f \in Envs, v \in VPNs : View[f][v] = IF Visible(f, v) THEN word[pt[f][v].page] ELSE NIL
  BY DEF View, Visible, Mapped

ViewOk ==
  /\ View \in [Envs -> [VPNs -> Words \cup {NIL}]]
  /\ \A f \in Envs, v \in VPNs : Visible(f, v) <=> View[f][v] # NIL

LEMMA ViewType == TypeOK => ViewOk
<1> SUFFICES ASSUME TypeOK PROVE ViewOk
  OBVIOUS
<1>1. ASSUME NEW f \in Envs, NEW v \in VPNs
      PROVE  View[f][v] \in Words \cup {NIL} /\ (Visible(f, v) <=> View[f][v] # NIL)
  <2>1. Visible(f, v) => word[pt[f][v].page] \in Words
    BY Typed DEF Visible, Addrs
  <2> QED
    BY <2>1, ViewAt, NilAssumption
<1>2. View \in [Envs -> [VPNs -> Words \cup {NIL}]]
  <2>1. View = [f \in Envs |-> [v \in VPNs |-> View[f][v]]]
    BY DEF View
  <2> QED
    BY <1>1, <2>1
<1> QED
  BY <1>1, <1>2 DEF ViewOk

\* The same of the next state.
LEMMA ViewNext ==
  /\ TypeOK' => ViewOk'
  /\ \A f \in Envs, v \in VPNs : View'[f][v] = IF Visible(f, v)' THEN word'[pt'[f][v].page] ELSE NIL
<1>1. TypeOK' => ViewOk'
  BY ViewType, PTL
<1>2. (\A f \in Envs, v \in VPNs : View[f][v] = IF Visible(f, v) THEN word[pt[f][v].page] ELSE NIL)'
  BY ViewAt, PTL
<1> QED
  BY <1>1, <1>2

LEMMA ViewSame ==
  ASSUME TypeOK, TypeOK',
         \A f \in Envs, v \in VPNs : Visible(f, v)' <=> Visible(f, v),
         \A f \in Envs, v \in VPNs : Visible(f, v) => word'[pt'[f][v].page] = word[pt[f][v].page]
  PROVE  View' = View
<1>1. View \in [Envs -> [VPNs -> Words \cup {NIL}]] /\ View' \in [Envs -> [VPNs -> Words \cup {NIL}]]
  BY ViewType, ViewNext DEF ViewOk
<1>2. \A f \in Envs, v \in VPNs : View'[f][v] = IF Visible(f, v)' THEN word'[pt'[f][v].page] ELSE NIL
  BY ViewNext
<1>3. \A f \in Envs, v \in VPNs : View'[f][v] = View[f][v]
  BY <1>2, ViewAt
<1> QED
  BY <1>1, <1>3

\* One word is new.
LEMMA ViewChange ==
  ASSUME TypeOK, TypeOK', NEW e \in Envs, NEW v \in VPNs, NEW w \in Words,
         Visible(e, v)', word'[pt'[e][v].page] = w,
         \A f \in Envs, x \in VPNs : ~(f = e /\ x = v) => (Visible(f, x)' <=> Visible(f, x)),
         \A f \in Envs, x \in VPNs :
           ~(f = e /\ x = v) /\ Visible(f, x) => word'[pt'[f][x].page] = word[pt[f][x].page]
  PROVE  View' = [View EXCEPT ![e][v] = w]
<1>1. View \in [Envs -> [VPNs -> Words \cup {NIL}]] /\ View' \in [Envs -> [VPNs -> Words \cup {NIL}]]
  BY ViewType, ViewNext DEF ViewOk
<1>2. \A f \in Envs, x \in VPNs : View'[f][x] = IF Visible(f, x)' THEN word'[pt'[f][x].page] ELSE NIL
  BY ViewNext
<1>3. \A f \in Envs, x \in VPNs : ~(f = e /\ x = v) => View'[f][x] = View[f][x]
  BY <1>2, ViewAt
<1>4. View'[e][v] = w
  BY <1>2
<1> QED
  BY <1>1, <1>3, <1>4

\* Steps that leave the VPNs, the words in them and the pages given as they are.
LEMMA SameView ==
  ASSUME CowInd, CowInd', UNCHANGED <<status, fork>>,
         \A f \in Envs, v \in VPNs : Mapped(f, v)' <=> Mapped(f, v),
         \A f \in Envs, v \in VPNs : Mapped(f, v) => word'[pt'[f][v].page] = word[pt[f][v].page]
  PROVE  View' = View
<1>1. \A f \in Envs : Given(f)' = Given(f)
  BY DEF Given
<1>2. \A f \in Envs, v \in VPNs : Visible(f, v)' <=> Visible(f, v)
  BY <1>1 DEF Visible
<1>3. \A f \in Envs, v \in VPNs : Visible(f, v) => word'[pt'[f][v].page] = word[pt[f][v].page]
  BY DEF Visible
<1> QED
  BY <1>2, <1>3, ViewSame DEF CowInd

\* What a program sees changes neither when it begins a store or faults, nor while
\* cow_entry makes the copy and moves it into place.
LEMMA QuietView ==
  ASSUME CowInd, CowInd', NEW e \in Envs,
         \/ \E v \in VPNs, w \in Words : Begin(e, v, w)
         \/ \E why \in {"no memory", "no handler", "not copy-on-write"} : Halt(why)
         \/ Fault(e) \/ fork_entry(e) \/ cow_alloc(e)
  PROVE  View' = View
<1>1. CASE UNCHANGED <<pt, word, status, fork>>
  BY <1>1, SameView DEF Mapped
<1>2. CASE cow_alloc(e)
  <2>1. CASE ~pt[e][store[e].va].COW
    BY <1>1, <1>2, <2>1 DEF cow_alloc, Halt
  <2>2. CASE pt[e][store[e].va].COW
    <3>1. /\ UNCHANGED <<word, status, fork>>
          /\ pt' = pt \/ \E p \in page_alloc : pt' = [pt EXCEPT ![e][UCOW] = PTE(p, TRUE, FALSE, FALSE)]
      BY <1>2, <2>2 DEF cow_alloc, At
    <3>2. ASSUME NEW x, pt' = [pt EXCEPT ![e][UCOW] = x]
          PROVE  \A f \in Envs, v \in VPNs : pt'[f][v] = pt[f][v]
      <4>1. pt \in [Envs -> [Addrs -> PTEs \cup {NIL}]] /\ UCOW \in Addrs /\ UCOW \notin VPNs /\ VPNs \subseteq Addrs
        BY Typed, Constants DEF CowInd, Addrs
      <4> QED
        BY <3>2, <4>1
    <3>3. \A f \in Envs, v \in VPNs : pt'[f][v] = pt[f][v]
      BY <3>1, <3>2
    <3> QED
      BY <3>1, <3>3, SameView DEF Mapped
  <2> QED
    BY <2>1, <2>2
<1> QED
  BY <1>1, <1>2 DEF Begin, Halt, Fault, do_tlb_mod, fork_entry

LEMMA CopyView ==
  ASSUME CowInd, CowInd', NEW e \in Envs, Mapped(e, UCOW), At(e, "copy", "map"),
         word' = [word EXCEPT ![pt[e][UCOW].page] = word[pt[e][store[e].va].page]], UNCHANGED pt
  PROVE  View' = View
<1>1. UNCHANGED <<pt, status, fork>> /\ cow[e] = "copy" /\ word \in [Pages -> Words]
  BY Typed DEF At, CowInd
<1>2. ASSUME NEW f \in Envs, NEW v \in VPNs, Mapped(f, v)
      PROVE  word'[pt[f][v].page] = word[pt[f][v].page]
  <2>1. pt[f][v].page # pt[e][UCOW].page
    BY <1>1, <1>2, CopyApart, Constants DEF Addrs
  <2>2. pt[f][v].page \in Pages
    BY <1>2, Typed DEF CowInd, Addrs
  <2> QED
    BY <1>1, <2>1, <2>2
<1> QED
  BY <1>1, <1>2, SameView DEF Mapped

LEMMA MapView ==
  ASSUME CowInd, CowInd', NEW e \in Envs, cow_map(e)
  PROVE  View' = View
<1> DEFINE va  == store[e].va
           x   == CowPTE(pt[e][va], pt[e][UCOW].page)
<1>1. /\ cow[e] = "map" /\ UNCHANGED <<status, fork>> /\ pt' = [pt EXCEPT ![e][va] = x] /\ Blank(pt')
  BY DEF cow_map, At
<1>2. /\ pt \in [Envs -> [Addrs -> PTEs \cup {NIL}]] /\ Mapped(e, va) /\ Mapped(e, UCOW) /\ va \in Addrs
      /\ word[pt[e][UCOW].page] = word[pt[e][va].page] /\ pt[e][UCOW].page \in Pages
  BY <1>1, Typed DEF CowInd, EnvsOk, EnvOk, Addrs
<1>3. x # NIL /\ x.page = pt[e][UCOW].page
  BY <1>2, FreshPTE DEF CowPTE
<1> HIDE DEF x, va
<1>4. pt'[e][va] = x /\ \A f \in Envs, vb \in Addrs : ~(f = e /\ vb = va) => pt'[f][vb] = pt[f][vb]
  <2>1. pt'[e][va] = x
    BY <1>1, <1>2
  <2>2. \A f \in Envs, vb \in Addrs : ~(f = e /\ vb = va) => pt'[f][vb] = pt[f][vb]
    BY <1>1, <1>2
  <2> QED
    BY <2>1, <2>2
<1>5. pt' \in [Envs -> [Addrs -> PTEs \cup {NIL}]]
  BY DEF CowInd, TypeOK, Addrs
<1>6. \A f \in Envs, vb \in Addrs : Mapped(f, vb)' => word'[pt'[f][vb].page] = word[pt'[f][vb].page]
  BY <1>1, <1>5, Blanked DEF CowInd
<1>7. \A f \in Envs, v \in VPNs : Mapped(f, v)' <=> Mapped(f, v)
  BY <1>2, <1>3, <1>4 DEF Mapped, Addrs
<1>8. ASSUME NEW f \in Envs, NEW v \in VPNs, Mapped(f, v)
      PROVE  word'[pt'[f][v].page] = word[pt[f][v].page]
  <2>1. word'[pt'[f][v].page] = word[pt'[f][v].page]
    BY <1>6, <1>7, <1>8 DEF Addrs
  <2>2. word[pt'[f][v].page] = word[pt[f][v].page]
    BY <1>2, <1>3, <1>4 DEF Addrs
  <2> QED
    BY <2>1, <2>2
<1> QED
  BY <1>1, <1>7, <1>8, SameView

LEMMA UnmapView ==
  ASSUME CowInd, CowInd', NEW e \in Envs, cow_unmap(e)
  PROVE  View' = View
<1>1. UNCHANGED <<status, fork>> /\ pt' = [pt EXCEPT ![e][UCOW] = NIL] /\ Blank(pt')
  BY DEF cow_unmap, At
<1>2. pt \in [Envs -> [Addrs -> PTEs \cup {NIL}]] /\ UCOW \in Addrs /\ UCOW \notin VPNs /\ VPNs \subseteq Addrs
  BY Typed, Constants DEF CowInd, Addrs
<1>3. \A f \in Envs, v \in VPNs : pt'[f][v] = pt[f][v]
  BY <1>1, <1>2
<1>4. pt' \in [Envs -> [Addrs -> PTEs \cup {NIL}]]
  BY DEF CowInd, TypeOK, Addrs
<1>5. \A f \in Envs, vb \in Addrs : Mapped(f, vb)' => word'[pt'[f][vb].page] = word[pt'[f][vb].page]
  BY <1>1, <1>4, Blanked DEF CowInd
<1>6. \A f \in Envs, v \in VPNs : Mapped(f, v)' <=> Mapped(f, v)
  BY <1>3 DEF Mapped
<1>7. ASSUME NEW f \in Envs, NEW v \in VPNs, Mapped(f, v)
      PROVE  word'[pt'[f][v].page] = word[pt[f][v].page]
  BY <1>2, <1>3, <1>5, <1>6, <1>7
<1> QED
  BY <1>1, <1>6, <1>7, SameView

\* The child is given what it has: nothing when fork begins, everything at its end.
LEMMA ExoforkView ==
  ASSUME CowInd, CowInd', NEW e \in Envs, fork_exofork(e)
  PROVE  View' = View
<1>1. fork[e] = NIL /\ UNCHANGED <<pt, word>> /\ status[e] = "RUNNABLE"
  BY DEF fork_exofork, InUser, Running
<1>2. PICK c \in Envs \cup {NIL} :
        /\ c # NIL => status[c] = "FREE" /\ status' = [status EXCEPT ![c] = "NOT_RUNNABLE"]
        /\ c = NIL => UNCHANGED status
        /\ fork' = [fork EXCEPT ![e] = [child |-> c, done |-> {}, half |-> FALSE]]
  BY DEF fork_exofork
<1>3. status \in [Envs -> {"FREE", "RUNNABLE", "NOT_RUNNABLE"}] /\ fork \in [Envs -> InFork \cup {NIL}]
  BY DEF CowInd, TypeOK
<1>4. fork'[e].done = {} /\ \A f \in Envs : f # e => fork'[f] = fork[f]
  BY <1>2, <1>3
<1>5. ASSUME NEW f \in Envs, NEW v \in VPNs
      PROVE  (v \in Given(f))' <=> v \in Given(f)
  <2>1. (v \in Given(f))' <=> \E g \in Envs : fork'[g] # NIL /\ fork'[g].child = f /\ v \in fork'[g].done
    BY DEF Given
  <2> QED
    BY <1>1, <1>4, <2>1, GivenIs
<1>6. ASSUME NEW f \in Envs, NEW v \in VPNs
      PROVE  Visible(f, v)' <=> Visible(f, v)
  <2>1. CASE f = c
    <3>1. status[c] = "FREE" /\ c # NIL
      BY <1>2, <2>1, Constants
    <3>2. ~Mapped(f, v)
      BY <2>1, <3>1 DEF CowInd, EnvsOk, EnvOk, Addrs
    <3> QED
      BY <1>1, <3>2 DEF Visible, Mapped
  <2>2. CASE f # c
    <3>1. status'[f] = status[f]
      BY <1>2, <1>3, <2>2
    <3> QED
      BY <1>1, <1>5, <3>1 DEF Visible, Mapped
  <2> QED
    BY <2>1, <2>2
<1> QED
  BY <1>1, <1>6, ViewSame DEF CowInd

LEMMA EndView ==
  ASSUME CowInd, CowInd', NEW e \in Envs, fork_end(e)
  PROVE  View' = View
<1> DEFINE c == fork[e].child
<1>1. fork[e] # NIL /\ status[e] = "RUNNABLE" /\ UNCHANGED <<pt, word>> /\ \A v \in VPNs : ~Next_vpn(e, v)
  BY DEF fork_end, InLoop, InUser, Running
<1>2. /\ fork \in [Envs -> InFork \cup {NIL}] /\ status \in [Envs -> {"FREE", "RUNNABLE", "NOT_RUNNABLE"}]
      /\ c \in Envs \cup {NIL} /\ ForkOk(e) /\ ~fork[e].half
  BY <1>1, NoneLeft, Typed DEF CowInd, TypeOK, EnvsOk
<1>3. CASE UNCHANGED <<status, fork>>
  BY <1>1, <1>3, SameView DEF Mapped
<1>4. CASE /\ fork' = [fork EXCEPT ![e] = NIL]
           /\ status' = IF c = NIL THEN status ELSE [status EXCEPT ![c] = "RUNNABLE"]
  <2>1. fork'[e] = NIL /\ \A f \in Envs : f # e => fork'[f] = fork[f]
    BY <1>2, <1>4
  <2>2. ASSUME NEW f \in Envs, NEW v \in VPNs
        PROVE  Visible(f, v)' <=> Visible(f, v)
    <3>1. CASE f = c
      <4>1. c # NIL /\ status'[c] = "RUNNABLE"
        BY <1>2, <1>4, <3>1, Constants
      <4>2. Mapped(c, v) => v \in fork[e].done
        BY <1>1, <1>2, <4>1 DEF ForkOk
      <4>3. Mapped(c, v) => v \in Given(c)
        BY <1>1, <4>2, GivenIs
      <4> QED
        BY <1>1, <3>1, <4>1, <4>3 DEF Visible, Mapped
    <3>2. CASE f # c
      <4>1. status'[f] = status[f]
        BY <1>2, <1>4, <3>2
      <4>2. (v \in Given(f))' <=> \E g \in Envs : fork'[g] # NIL /\ fork'[g].child = f /\ v \in fork'[g].done
        BY DEF Given
      <4>3. (v \in Given(f))' <=> v \in Given(f)
        BY <2>1, <3>2, <4>2, GivenIs
      <4> QED
        BY <1>1, <4>1, <4>3 DEF Visible, Mapped
    <3> QED
      BY <3>1, <3>2
  <2> QED
    BY <1>1, <2>2, ViewSame DEF CowInd
<1> QED
  BY <1>3, <1>4 DEF fork_end

\* The steps that Fork has, or none.
ForkStep == Copies!Next \/ View' = View

LEMMA DemandView ==
  ASSUME CowInd, CowInd', NEW e \in Envs, NEW va \in Addrs, NEW p \in page_alloc, ~Mapped(e, va),
         va \notin SharedVPNs, status[e] = "RUNNABLE",
         NEW x \in PTEs, x # NIL, x.page = p, pt' = [pt EXCEPT ![e][va] = x],
         UNCHANGED <<word, status, fork>>
  PROVE  ForkStep
<1>1. pt \in [Envs -> [Addrs -> PTEs \cup {NIL}]] /\ pt' = [pt EXCEPT ![e][va] = x] /\ VPNs \subseteq Addrs
  BY Typed DEF CowInd, Addrs
<1>2. x # NIL /\ x.page = p /\ p \in Pages /\ word[p] = Zero
  BY Fresh DEF CowInd, BlankOk, Mapped, Addrs
<1>3. pt'[e][va] = x
  BY <1>1
<1>4. \A f \in Envs, v \in VPNs : ~(f = e /\ v = va) => pt'[f][v] = pt[f][v]
  BY <1>1
<1>5. \A f \in Envs : Given(f)' = Given(f)
  BY DEF Given
<1>6. \A f \in Envs, v \in VPNs : ~(f = e /\ v = va) => (Visible(f, v)' <=> Visible(f, v))
  BY <1>4, <1>5 DEF Visible, Mapped
<1>7. CASE va \notin VPNs
  <2>1. \A f \in Envs, v \in VPNs : pt'[f][v] = pt[f][v]
    BY <1>4, <1>7
  <2> QED
    BY <2>1, SameView DEF Mapped, ForkStep
<1>8. CASE va \in VPNs
  <2>1. Visible(e, va)' /\ word'[pt'[e][va].page] = Zero
    BY <1>2, <1>3 DEF Visible, Mapped
  <2>2. View' = [View EXCEPT ![e][va] = Zero]
    BY <1>4, <1>6, <1>8, <2>1, ViewChange, Constants DEF CowInd
  <2>3. View[e][va] = NIL
    BY <1>8, ViewAt DEF Visible
  <2>4. Copies!Touch(e, va)
    BY <2>2, <2>3 DEF Copies!Touch
  <2> QED
    BY <1>8, <2>4 DEF ForkStep, Copies!Next
<1> QED
  BY <1>7, <1>8

\* Only half-way through duppage does the child have the page its parent may write,
\* and then it does not see it.
LEMMA StoreSeen ==
  ASSUME CowInd, NEW e \in Envs, NEW va \in VPNs, cow[e] = "no", Mapped(e, va), pt[e][va].D,
         NEW f \in Envs, NEW v \in VPNs, Visible(f, v)
  PROVE  pt[f][v].page = pt[e][va].page <=> v = va /\ (f = e \/ va \in SharedVPNs)
<1>1. va \in Addrs /\ v \in Addrs /\ Mapped(f, v) /\ PteOk(e, va) /\ va # UCOW
  BY Constants DEF Visible, Addrs, CowInd, Pte
<1>2. ShareOk(e, va, f, v)
  BY <1>1 DEF CowInd, Shares
<1>3. CASE va \in SharedVPNs
  BY <1>1, <1>2, <1>3 DEF ShareOk
<1>4. CASE va \notin SharedVPNs
  <2>1. Writable(pt[e][va])
    BY <1>1, <1>4 DEF PteOk, Writable
  <2>2. ASSUME pt[f][v].page = pt[e][va].page, ~(f = e /\ v = va)
        PROVE  FALSE
    <3>1. MayShare(e, va, f, v)
      BY <1>1, <1>2, <2>1, <2>2 DEF ShareOk
    <3>2. va = v /\ fork[e] # NIL /\ fork[e].half /\ f = fork[e].child /\ Next_vpn(e, va)
      BY <2>2, <3>1 DEF MayShare
    <3>3. status[f] = "NOT_RUNNABLE" /\ \A g \in Envs : fork[g] # NIL /\ fork[g].child = f => g = e
      BY <3>2, Constants DEF CowInd, EnvsOk, ForkOk
    <3>4. v \notin fork[e].done
      BY <3>2 DEF Next_vpn
    <3>5. v \notin Given(f)
      BY <3>3, <3>4, GivenIs
    <3> QED
      BY <3>3, <3>5 DEF Visible
  <2> QED
    BY <1>4, <2>2
<1> QED
  BY <1>3, <1>4

LEMMA WriteView ==
  ASSUME CowInd, CowInd', NEW e \in Envs, WriteThrough(e)
  PROVE  ForkStep
<1> DEFINE va == store[e].va
           w  == store[e].w
           p  == pt[e][va].page
<1>1. /\ status[e] = "RUNNABLE" /\ cow[e] = "no" /\ Mapped(e, va) /\ pt[e][va].D
      /\ word' = [word EXCEPT ![p] = w] /\ UNCHANGED <<pt, status, fork>> /\ store[e] # NIL
  BY DEF WriteThrough, Running
<1>2. va \in VPNs /\ w \in Words /\ p \in Pages /\ word \in [Pages -> Words]
  BY <1>1, Typed DEF CowInd, Addrs
<1> HIDE DEF va, w
<1>3. word'[p] = w /\ \A q \in Pages : q # p => word'[q] = word[q]
  BY <1>1, <1>2
<1> HIDE DEF p
<1>4. \A f \in Envs, v \in VPNs : Visible(f, v)' <=> Visible(f, v)
  BY <1>1 DEF Visible, Mapped, Given
<1>5. View \in [Envs -> [VPNs -> Words \cup {NIL}]] /\ View' \in [Envs -> [VPNs -> Words \cup {NIL}]]
  BY ViewType, ViewNext DEF ViewOk, CowInd
<1>6. ASSUME NEW f \in Envs, NEW v \in VPNs
      PROVE  View'[f][v] = IF v = va /\ (f = e \/ (va \in SharedVPNs /\ View[f][v] # NIL)) THEN w ELSE View[f][v]
  <2>1. CASE Visible(f, v)
    <3>1. pt[f][v].page = p <=> v = va /\ (f = e \/ va \in SharedVPNs)
      BY <1>1, <1>2, <2>1, StoreSeen DEF p
    <3>2. pt[f][v].page \in Pages
      BY <2>1, Typed DEF CowInd, Visible, Addrs
    <3>3. View'[f][v] = word'[pt[f][v].page] /\ View[f][v] = word[pt[f][v].page] /\ View[f][v] # NIL
      <4>1. View'[f][v] = word'[pt'[f][v].page]
        BY <1>4, <2>1, ViewNext
      <4>2. View[f][v] = word[pt[f][v].page]
        BY <2>1, ViewAt
      <4> QED
        BY <1>1, <2>1, <4>1, <4>2, ViewType DEF CowInd, ViewOk
    <3> QED
      BY <1>3, <3>1, <3>2, <3>3
  <2>2. CASE ~Visible(f, v)
    <3>1. View'[f][v] = NIL /\ View[f][v] = NIL
      BY <1>4, <2>2, ViewAt, ViewNext
    <3>2. ~(f = e /\ v = va)
      BY <1>1, <2>2 DEF Visible
    <3> QED
      BY <3>1, <3>2
  <2> QED
    BY <2>1, <2>2
<1>7. View' = [f \in Envs |->
                [View[f] EXCEPT ![va] = IF f = e \/ (va \in SharedVPNs /\ View[f][va] # NIL) THEN w ELSE View[f][va]]]
  BY <1>2, <1>5, <1>6
<1>8. View[e][va] # NIL
  <2>1. Visible(e, va)
    BY <1>1 DEF Visible
  <2> QED
    BY <1>2, <2>1, ViewType DEF CowInd, ViewOk
<1>9. Copies!Store(e, va, w)
  BY <1>7, <1>8 DEF Copies!Store
<1> QED
  BY <1>2, <1>9 DEF ForkStep, Copies!Next

LEMMA ExitView ==
  ASSUME CowInd, CowInd', NEW e \in Envs, exit(e)
  PROVE  ForkStep
<1>1. /\ status[e] = "RUNNABLE" /\ status' = [status EXCEPT ![e] = "FREE"] /\ pt' = [pt EXCEPT ![e] = NoMap]
      /\ Blank(pt') /\ UNCHANGED fork
  BY DEF exit, InUser, Running
<1>2. /\ pt \in [Envs -> [Addrs -> PTEs \cup {NIL}]] /\ VPNs \subseteq Addrs
      /\ status \in [Envs -> {"FREE", "RUNNABLE", "NOT_RUNNABLE"}]
      /\ pt' \in [Envs -> [Addrs -> PTEs \cup {NIL}]]
  BY Typed DEF CowInd, TypeOK, Addrs
<1>3. \A v \in VPNs : ~Mapped(e, v)'
  BY <1>1, <1>2 DEF Mapped, NoMap
<1>4. \A f \in Envs, v \in VPNs : f # e => pt'[f][v] = pt[f][v] /\ status'[f] = status[f]
  BY <1>1, <1>2
<1>5. \A f \in Envs : Given(f)' = Given(f)
  BY <1>1 DEF Given
<1>6. \A f \in Envs, v \in VPNs : f # e => (Visible(f, v)' <=> Visible(f, v))
  BY <1>4, <1>5 DEF Visible, Mapped
<1>7. \A f \in Envs, vb \in Addrs : Mapped(f, vb)' => word'[pt'[f][vb].page] = word[pt'[f][vb].page]
  BY <1>1, <1>2, Blanked DEF CowInd
<1>8. View \in [Envs -> [VPNs -> Words \cup {NIL}]] /\ View' \in [Envs -> [VPNs -> Words \cup {NIL}]]
  BY ViewType, ViewNext DEF ViewOk, CowInd
<1>9. ASSUME NEW f \in Envs, NEW v \in VPNs
      PROVE  View'[f][v] = IF f = e THEN NIL ELSE View[f][v]
  <2>1. CASE f = e
    <3>1. ~Visible(f, v)'
      BY <1>3, <2>1 DEF Visible
    <3> QED
      BY <2>1, <3>1, ViewNext
  <2>2. CASE f # e
    <3>1. Visible(f, v) => word'[pt'[f][v].page] = word[pt[f][v].page]
      BY <1>2, <1>4, <1>7, <2>2 DEF Visible, Mapped
    <3> QED
      BY <1>6, <2>2, <3>1, ViewAt, ViewNext
  <2> QED
    BY <2>1, <2>2
<1>10. View' = [View EXCEPT ![e] = [v \in VPNs |-> NIL]]
  BY <1>8, <1>9
<1>11. Copies!Exit(e)
  BY <1>10 DEF Copies!Exit
<1> QED
  BY <1>11 DEF ForkStep, Copies!Next

\* A step of duppage that leaves every address with its page, the child's v
\* apart, and after which the pages in d are done.
KeptButFor(c, v) ==
  /\ \A f \in Envs, x \in VPNs : ~(f = c /\ x = v) => (Mapped(f, x)' <=> Mapped(f, x))
  /\ \A f \in Envs, x \in VPNs : ~(f = c /\ x = v) /\ Mapped(f, x) => pt'[f][x].page = pt[f][x].page

Moved(e, v, c, d) == Dup(e, v, c) /\ InForkAt(e, c, d) /\ KeptButFor(c, v)

\* What duppage changes for everybody but the child.
LEMMA GivenKept ==
  ASSUME CowInd, NEW e \in Envs, NEW v \in VPNs, NEW c \in Envs \cup {NIL}, NEW d \in SUBSET VPNs, Moved(e, v, c, d)
  PROVE  /\ \A f \in Envs, x \in VPNs : f # c => (x \in Given(f)' <=> x \in Given(f))
         /\ \A x \in VPNs : c # NIL => (x \in Given(c)' <=> x \in d) /\ (x \in Given(c) <=> x \in fork[e].done)
<1>1. /\ fork'[e] # NIL /\ fork'[e].child = c /\ fork'[e].done = d /\ \A f \in Envs : f # e => fork'[f] = fork[f]
  BY DEF Moved, InForkAt
<1>2. \A f, x : x \in Given(f)' <=> \E g \in Envs : fork'[g] # NIL /\ fork'[g].child = f /\ x \in fork'[g].done
  BY DEF Given
<1>3. \A f, x : x \in Given(f) <=> \E g \in Envs : fork[g] # NIL /\ fork[g].child = f /\ x \in fork[g].done
  BY DEF Given
<1>4. /\ c # NIL => \A g \in Envs : fork[g] # NIL /\ fork[g].child = c => g = e
      /\ fork[e] # NIL /\ fork[e].child = c
  BY Dupped DEF Moved, Dup
<1>5. ASSUME NEW f \in Envs, NEW x \in VPNs, f # c
      PROVE  x \in Given(f)' <=> x \in Given(f)
  BY <1>1, <1>2, <1>3, <1>4, <1>5
<1>6. ASSUME NEW x \in VPNs, c # NIL
      PROVE  (x \in Given(c)' <=> x \in d) /\ (x \in Given(c) <=> x \in fork[e].done)
  BY <1>1, <1>2, <1>3, <1>4, <1>6
<1> QED
  BY <1>5, <1>6

\* The step that completes a page gives it to the child.
LEMMA GiveView ==
  ASSUME CowInd, CowInd', NEW e \in Envs, NEW v \in VPNs, NEW c \in Envs,
         Moved(e, v, c, fork[e].done \cup {v}), Mapped(c, v)', pt'[c][v].page = pt[e][v].page
  PROVE  ForkStep
<1>1. /\ status[e] = "RUNNABLE" /\ status[c] = "NOT_RUNNABLE" /\ c # e /\ c # NIL /\ fork[e] # NIL
      /\ c = fork[e].child /\ Mapped(e, v) /\ v \notin fork[e].done /\ UNCHANGED <<word, status>>
      /\ fork[e].done \cup {v} \in SUBSET VPNs /\ c \in Envs \cup {NIL}
  BY Dupped, Typed, Constants DEF Moved, Dup, CowInd
<1> DEFINE d == fork[e].done \cup {v}
<1>11. Moved(e, v, c, d) /\ d \in SUBSET VPNs
  BY <1>1
<1>2. /\ \A f \in Envs, x \in VPNs : f # c => (x \in Given(f)' <=> x \in Given(f))
      /\ \A x \in VPNs : (x \in Given(c)' <=> x \in d) /\ (x \in Given(c) <=> x \in fork[e].done)
  <2> HIDE DEF d
  <2> QED
    BY <1>1, <1>11, GivenKept
<1>3. Visible(c, v)' /\ ~Visible(c, v) /\ Visible(e, v)
  BY <1>1, <1>2 DEF Visible
<1>4. \A f \in Envs, x \in VPNs : ~(f = c /\ x = v) => (Visible(f, x)' <=> Visible(f, x))
  BY <1>1, <1>2 DEF Visible, Moved, KeptButFor
<1>5. View[c][v] = NIL /\ View[e][v] = word[pt[e][v].page] /\ View[e][v] # NIL /\ View[e][v] \in Words
  <2>1. ViewOk
    BY ViewType DEF CowInd
  <2> QED
    BY <1>3, <2>1, ViewAt DEF ViewOk
<1>6. word'[pt'[c][v].page] = View[e][v]
  BY <1>1, <1>5
<1>7. \A f \in Envs, x \in VPNs : ~(f = c /\ x = v) /\ Visible(f, x) => word'[pt'[f][x].page] = word[pt[f][x].page]
  BY <1>1 DEF Visible, Moved, KeptButFor
<1>8. View' = [View EXCEPT ![c][v] = View[e][v]]
  BY <1>3, <1>4, <1>5, <1>6, <1>7, ViewChange DEF CowInd
<1>9. Copies!Copy(e, c, v)
  BY <1>5, <1>8 DEF Copies!Copy
<1> QED
  BY <1>1, <1>9 DEF ForkStep, Copies!Next

\* Nobody sees anything of the first half, and of a fork without a child.
LEMMA StillView ==
  ASSUME CowInd, CowInd', NEW e \in Envs, NEW v \in VPNs, NEW c \in Envs \cup {NIL},
         NEW d \in SUBSET VPNs, Moved(e, v, c, d), c # NIL => d = fork[e].done
  PROVE  ForkStep
<1>1. /\ fork[e] # NIL /\ c = fork[e].child /\ v \notin fork[e].done /\ UNCHANGED <<word, status>>
      /\ c # NIL => c \in Envs /\ status[c] = "NOT_RUNNABLE"
  BY Dupped, Constants DEF Moved, Dup
<1>2. /\ \A f \in Envs, x \in VPNs : f # c => (x \in Given(f)' <=> x \in Given(f))
      /\ \A x \in VPNs : c # NIL => (x \in Given(c)' <=> x \in d) /\ (x \in Given(c) <=> x \in fork[e].done)
  BY <1>1, GivenKept
<1>3. ASSUME NEW f \in Envs, NEW x \in VPNs
      PROVE  /\ Visible(f, x)' <=> Visible(f, x)
             /\ Visible(f, x) => word'[pt'[f][x].page] = word[pt[f][x].page]
  <2>1. CASE f = c /\ x = v
    <3>1. c # NIL
      BY <2>1, Constants
    <3>2. ~Visible(f, x) /\ ~Visible(f, x)'
      BY <1>1, <1>2, <2>1, <3>1 DEF Visible
    <3> QED
      BY <3>2
  <2>2. CASE ~(f = c /\ x = v)
    <3>1. x \in Given(f)' <=> x \in Given(f)
      BY <1>2, Constants
    <3> QED
      BY <1>1, <2>2, <3>1 DEF Visible, Moved, KeptButFor
  <2> QED
    BY <2>1, <2>2
<1>4. View' = View
  BY <1>3, ViewSame DEF CowInd
<1> QED
  BY <1>4 DEF ForkStep

LEMMA DuppageView ==
  ASSUME CowInd, CowInd', NEW e \in Envs, fork_duppage(e)
  PROVE  ForkStep
<1>1. PICK v \in VPNs : Next_vpn(e, v) /\ duppage(e, v)
  BY DEF fork_duppage
<1>9. PICK c \in Envs \cup {NIL} : c = fork[e].child
  BY Typed DEF CowInd, fork_duppage, InLoop
<1>2. Dup(e, v, c) /\ fork[e] # NIL /\ fork[e].half \in BOOLEAN /\ fork[e].done \in SUBSET VPNs
  <2>1. InUser(e) /\ fork[e] # NIL
    BY DEF fork_duppage, InLoop
  <2>2. UNCHANGED <<word, status, entry, store, cow, panic, forks, stores>>
    BY <1>1 DEF duppage
  <2> QED
    BY <1>1, <1>9, <2>1, <2>2, Typed DEF Dup, CowInd
<1>3. /\ pt[e][v] \in PTEs /\ pt[e][v] # NIL /\ pt \in [Envs -> [Addrs -> PTEs \cup {NIL}]] /\ VPNs \subseteq Addrs
      /\ fork[e].done \cup {v} \in SUBSET VPNs
      /\ fork[e].half /\ c # NIL => Mapped(c, v) /\ pt[c][v].page = pt[e][v].page
  <2>1. fork[e].half /\ c # NIL => Mapped(c, v) /\ pt[c][v].page = pt[e][v].page
    BY <1>2, Dupped
  <2>2. Mapped(e, v)
    BY <1>2, Dupped
  <2> QED
    BY <1>2, <2>1, <2>2, Dupped DEF Mapped, Addrs
<1> DEFINE x == AsCow(pt[e][v])
<1>4. x # NIL /\ x.page = pt[e][v].page
  <2>1. x \in PTEs /\ x.page = pt[e][v].page
    BY <1>3 DEF AsCow, PTEs
  <2> QED
    BY <2>1, NilAssumption
<1>5. CASE /\ ~Writable(pt[e][v])
           /\ fork' = [fork EXCEPT ![e].done = @ \cup {v}]
           /\ pt' = IF c = NIL THEN pt ELSE [pt EXCEPT ![c][v] = pt[e][v]]
  <2>1. InForkAt(e, c, fork[e].done \cup {v})
    BY <1>2, <1>5, <1>9, ForkMoved
  <2>2. pt' = IF c = NIL THEN pt ELSE [pt EXCEPT ![c][v] = pt[e][v]]
    BY <1>5
  <2> HIDE DEF x
  <2>3. /\ c # NIL => pt'[c][v] = pt[e][v]
        /\ \A f \in Envs, y \in VPNs : ~(f = c /\ y = v) => pt'[f][y] = pt[f][y]
    BY <1>2, <1>3, <2>2
  <2> DEFINE d == fork[e].done \cup {v}
  <2>6. Moved(e, v, c, d) /\ d \in SUBSET VPNs
    <3>1. KeptButFor(c, v)
      BY <2>3 DEF KeptButFor, Mapped
    <3> QED
      BY <1>2, <1>3, <2>1, <3>1 DEF Moved
  <2>4. CASE c = NIL
    <3> HIDE DEF d
    <3> QED
      BY <1>2, <2>4, <2>6, StillView
  <2>5. CASE c # NIL
    <3>1. Mapped(c, v)' /\ pt'[c][v].page = pt[e][v].page
      BY <1>3, <2>3, <2>5 DEF Mapped
    <3> QED
      BY <1>2, <2>5, <2>6, <3>1, GiveView
  <2> QED
    BY <2>4, <2>5
<1>6. CASE /\ Writable(pt[e][v]) /\ ~fork[e].half
           /\ fork' = [fork EXCEPT ![e].half = TRUE]
           /\ pt' = IF c = NIL THEN pt ELSE [pt EXCEPT ![c][v] = x]
  <2>1. InForkAt(e, c, fork[e].done)
    BY <1>2, <1>6, <1>9, ForkMoved
  <2>2. pt' = IF c = NIL THEN pt ELSE [pt EXCEPT ![c][v] = x]
    BY <1>6
  <2> HIDE DEF x
  <2>3. \A f \in Envs, y \in VPNs : ~(f = c /\ y = v) => pt'[f][y] = pt[f][y]
    BY <1>2, <1>3, <2>2
  <2>4. Moved(e, v, c, fork[e].done)
    <3>1. KeptButFor(c, v)
      BY <2>3 DEF KeptButFor, Mapped
    <3> QED
      BY <1>2, <2>1, <3>1 DEF Moved
  <2> QED
    BY <1>2, <2>4, StillView
<1>7. CASE /\ Writable(pt[e][v]) /\ fork[e].half
           /\ fork' = [fork EXCEPT ![e].done = @ \cup {v}, ![e].half = FALSE]
           /\ pt' = [pt EXCEPT ![e][v] = x]
  <2>1. InForkAt(e, c, fork[e].done \cup {v})
    BY <1>2, <1>7, <1>9, ForkMoved
  <2>2. pt' = [pt EXCEPT ![e][v] = x]
    BY <1>7
  <2>3. c # NIL => c # e
    BY <1>2, Dupped
  <2>4. fork[e].half
    BY <1>7
  <2> HIDE DEF x
  <2>5. pt'[e][v] = x /\ \A f \in Envs, y \in VPNs : ~(f = e /\ y = v) => pt'[f][y] = pt[f][y]
    BY <1>2, <1>3, <2>2
  <2>6. /\ \A f \in Envs, y \in VPNs : Mapped(f, y)' <=> Mapped(f, y)
        /\ \A f \in Envs, y \in VPNs : Mapped(f, y) => pt'[f][y].page = pt[f][y].page
    BY <1>3, <1>4, <2>5 DEF Mapped
  <2> DEFINE d == fork[e].done \cup {v}
  <2>9. Moved(e, v, c, d) /\ d \in SUBSET VPNs
    <3>1. KeptButFor(c, v)
      BY <2>6 DEF KeptButFor
    <3> QED
      BY <1>2, <1>3, <2>1, <3>1 DEF Moved
  <2>7. CASE c = NIL
    <3> HIDE DEF d
    <3> QED
      BY <1>2, <2>7, <2>9, StillView
  <2>8. CASE c # NIL
    <3>1. Mapped(c, v)' /\ pt'[c][v].page = pt[e][v].page
      BY <1>2, <1>3, <2>4, <2>6, <2>8
    <3> QED
      BY <1>2, <2>8, <2>9, <3>1, GiveView
  <2> QED
    BY <2>7, <2>8
<1>8. \/ /\ ~Writable(pt[e][v])
         /\ fork' = [fork EXCEPT ![e].done = @ \cup {v}]
         /\ pt' = IF c = NIL THEN pt ELSE [pt EXCEPT ![c][v] = pt[e][v]]
      \/ /\ Writable(pt[e][v]) /\ ~fork[e].half
         /\ fork' = [fork EXCEPT ![e].half = TRUE]
         /\ pt' = IF c = NIL THEN pt ELSE [pt EXCEPT ![c][v] = x]
      \/ /\ Writable(pt[e][v]) /\ fork[e].half
         /\ fork' = [fork EXCEPT ![e].done = @ \cup {v}, ![e].half = FALSE]
         /\ pt' = [pt EXCEPT ![e][v] = x]
  BY <1>1, <1>9 DEF duppage
<1> QED
  BY <1>5, <1>6, <1>7, <1>8

LEMMA DemandForkStep ==
  ASSUME CowInd, CowInd', NEW e \in Envs, NEW va \in Addrs, Demand(e, va), ~Mapped(e, va),
         va \notin SharedVPNs, status[e] = "RUNNABLE"
  PROVE  ForkStep
<1>1. CASE Halt("no memory")
  BY <1>1, QuietView DEF ForkStep
<1>2. ASSUME NEW p \in page_alloc,
             pt' = [pt EXCEPT ![e][va] = PTE(p, TRUE, FALSE, FALSE)],
             UNCHANGED <<word, status, entry, fork, store, cow, panic, forks, stores>>
      PROVE  ForkStep
  <2> DEFINE x == PTE(p, TRUE, FALSE, FALSE)
  <2>1. x \in PTEs /\ x # NIL /\ x.page = p /\ pt' = [pt EXCEPT ![e][va] = x] /\ UNCHANGED <<word, status, fork>>
    BY <1>2, Fresh, FreshPTE
  <2> HIDE DEF x
  <2> QED
    BY <2>1, DemandView
<1> QED
  BY <1>1, <1>2 DEF Demand

LEMMA ForkRefined ==
  ASSUME CowInd, CowInd', [Next]_vars
  PROVE  ForkStep
<1>1. CASE UNCHANGED vars
  BY <1>1, SameView DEF vars, Mapped, ForkStep
<1>2. ASSUME NEW e \in Envs, NEW v \in VPNs, NEW w \in Words, Begin(e, v, w) PROVE ForkStep
  BY <1>2, QuietView DEF ForkStep
<1>3. ASSUME NEW e \in Envs, Access(e) PROVE ForkStep
  <2>1. /\ status[e] = "RUNNABLE" /\ store[e] # NIL /\ cow[e] = "no" /\ Running(e) /\ store[e].va \in Addrs
        /\ store[e].va \in VPNs
    BY <1>3, Typed DEF Access, Running, CowInd, Addrs
  <2>2. \/ ~Mapped(e, store[e].va) /\ Demand(e, store[e].va)
        \/ WriteThrough(e)
        \/ Fault(e)
    BY <1>3 DEF Access, Mapped, WriteThrough, Fault
  <2>3. ~Mapped(e, store[e].va) => store[e].va \notin SharedVPNs
    BY <2>1 DEF CowInd, EnvsOk, EnvOk
  <2>4. Fault(e) => ForkStep
    BY QuietView DEF ForkStep
  <2> QED
    BY <2>1, <2>2, <2>3, <2>4, DemandForkStep, WriteView
<1>4. ASSUME NEW e \in Envs, cow_entry(e) PROVE ForkStep
  <2>1. CASE cow_alloc(e)
    BY <2>1, QuietView DEF ForkStep
  <2>2. CASE cow_copy(e)
    <3>1. CASE ~Mapped(e, UCOW) /\ Demand(e, UCOW)
      <4>1. status[e] = "RUNNABLE" /\ UCOW \in Addrs /\ UCOW \notin SharedVPNs
        BY <2>2, Constants DEF cow_copy, At, Running, Addrs
      <4> QED
        BY <3>1, <4>1, DemandForkStep
    <3>2. CASE /\ At(e, "copy", "map") /\ Mapped(e, UCOW)
               /\ word' = [word EXCEPT ![pt[e][UCOW].page] = word[pt[e][store[e].va].page]]
               /\ UNCHANGED pt
      BY <3>2, CopyView DEF ForkStep
    <3> QED
      BY <2>2, <3>1, <3>2 DEF cow_copy, Mapped
  <2>3. CASE cow_map(e)
    BY <2>3, MapView DEF ForkStep
  <2>4. CASE cow_unmap(e)
    BY <2>4, UnmapView DEF ForkStep
  <2> QED
    BY <1>4, <2>1, <2>2, <2>3, <2>4 DEF cow_entry
<1>5. ASSUME NEW e \in Envs, fork_entry(e) PROVE ForkStep
  BY <1>5, QuietView DEF ForkStep
<1>6. ASSUME NEW e \in Envs, fork_exofork(e) \/ fork_end(e) PROVE ForkStep
  BY <1>6, ExoforkView, EndView DEF ForkStep
<1>7. ASSUME NEW e \in Envs, fork_duppage(e) PROVE ForkStep
  BY <1>7, DuppageView
<1>8. ASSUME NEW e \in Envs, exit(e) PROVE ForkStep
  BY <1>8, ExitView
<1> QED
  BY <1>1, <1>2, <1>3, <1>4, <1>5, <1>6, <1>7, <1>8 DEF Next

\* Whatever is stored while fork goes from page to page, and however faults,
\* further forks and exits are interleaved, every program finds in its memory
\* what a fork that copies each page at one instant would have put there.
THEOREM ForkImplemented == Spec => ImplementsFork
<1>1. CowInd => Copies!Init
  BY ViewType DEF CowInd, ViewOk, Copies!Init
<1>2. CowInd /\ CowInd' /\ [Next]_vars => [Copies!Next]_View
  BY ForkRefined DEF ForkStep
<1>3. Init => CowInd
  BY CowInit
<1> QED
  BY <1>1, <1>2, <1>3, Invariance, PTL DEF Spec, ImplementsFork, Copies!ForkSpec

=============================================================================
