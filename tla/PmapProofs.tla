------------------------------ MODULE PmapProofs ------------------------------
(***************************************************************************)
(* Proofs about Pmap, for any number of address spaces, pages and          *)
(* addresses and any size of the TLB.                                      *)
(*                                                                         *)
(* The calls of Pmap are operators on a memory m, so the lemmas are about  *)
(* a memory m and the directories g of the environments: what holds of     *)
(* them before a call (Sound) holds after it.  At the end they are about   *)
(* the variables: Memory and pgdir.                                        *)
(*                                                                         *)
(* pp_ref is 16 bits wide and nothing keeps it from wrapping around, so    *)
(* the theorems are about behaviours in which no page gets as many         *)
(* pointers as that (FewRefs).                                             *)
(***************************************************************************)
EXTENDS Pmap, FiniteSetTheorems, WellFoundedInduction, TLAPS

-----------------------------------------------------------------------------
(***************************************************************************)
(* A memory, what points where in it, and what must hold of it.            *)
(***************************************************************************)
Panics  == {"no", "bad access", "out of memory", "pp_ref > 0"}
Entries == [asid : ASIDs, va : VAs, pte : Ptes]
Mem     == [ref : [Pages -> 0 .. RefMod - 1], free : Seq(FreePages),
            tab : [Pages -> [Idx -> Ptes \cup {NIL}]], tlb : SUBSET Entries, panic : Panics]
Dirs    == [ASIDs -> FreePages \cup {NIL}]
BaseTab == [i \in Idx |-> IF i = UENVS THEN [pp |-> KPAGE, perm |-> "R"] ELSE NIL]

\* The entry for table x, and for user address va, of the environment a.
T(m, g, a, x)  == IF g[a] = NIL THEN NIL ELSE m.tab[g[a]][x]
V(m, g, a, va) == IF T(m, g, a, va[1]) = NIL THEN NIL ELSE m.tab[T(m, g, a, va[1]).pp][va[2]]

\* The page a pointer names, the pointers to a page, and whether it is free.
Aim(m, g, x) == CASE x[1] = "dir"   -> g[x[2]]
                  [] x[1] = "table" -> PageOf(T(m, g, x[2], x[3]))
                  [] x[1] = "page"  -> PageOf(V(m, g, x[2], x[3]))
RefsIn(m, g, p) == {x \in Pointers : Aim(m, g, x) = p}
InFree(m, p)    == \E i \in DOMAIN m.free : m.free[i] = p

\* What an environment reads at an address.
Seen(m, g, a, va) ==
  IF va[1] \in UserX THEN V(m, g, a, va)
  ELSE IF va[1] = UENVS THEN BaseTab[va[2]]
  ELSE IF va[2] \in UserX THEN T(m, g, a, va[2])
  ELSE IF va[2] = UENVS THEN [pp |-> BASE, perm |-> "R"]
  ELSE IF g[a] = NIL THEN NIL ELSE [pp |-> g[a], perm |-> "R"]

\* What Sound consists of: base_pgdir's table and the two entries env_setup_vm puts
\* in every directory are there; nothing else points to what a directory or a table
\* is; pp_ref counts pointers; free pages are free; and the TLB repeats the tables.
SelfMaps(m, g) == /\ m.tab[BASE] = BaseTab
                  /\ \A a \in ASIDs : g[a] # NIL =>
                       /\ m.tab[g[a]][UENVS] = [pp |-> BASE, perm |-> "R"]
                       /\ m.tab[g[a]][UVPT] = [pp |-> g[a], perm |-> "R"]
Private(m, g)  == \A x, y \in Pointers :
                    x[1] # "page" /\ Aim(m, g, x) # NIL /\ Aim(m, g, y) = Aim(m, g, x) => y = x
Counted(m, g)  == \A p \in FreePages : RefsIn(m, g, p) # {} => m.ref[p] = Cardinality(RefsIn(m, g, p))
FreeOk(m, g)   == /\ \A i, j \in DOMAIN m.free : m.free[i] = m.free[j] => i = j
                  /\ \A i \in DOMAIN m.free : m.ref[m.free[i]] = 0 /\ RefsIn(m, g, m.free[i]) = {}
Coherent(m, g) == \A t \in m.tlb : t.pte = Seen(m, g, t.asid, t.va)

Typed(m, g)   == m \in Mem /\ g \in Dirs /\ (\A x \in Pointers : Aim(m, g, x) \in FreePages \cup {NIL})
Owned(m, g)   == Typed(m, g) /\ Private(m, g) /\ Counted(m, g) /\ FreeOk(m, g)
Sound(m, g)   == Owned(m, g) /\ SelfMaps(m, g) /\ Coherent(m, g)

\* Page p is in use as nothing but data, or has just been allocated.
Data(m, g, p) == /\ p \in FreePages /\ ~InFree(m, p)
                 /\ RefsIn(m, g, p) # {} \/ m.ref[p] = 0
                 /\ \A x \in Pointers : Aim(m, g, x) = p => x[1] = "page"

-----------------------------------------------------------------------------
\* The assumption on the constants, as the proofs use it.
LEMMA Consts ==
  /\ UENVS \notin UserX /\ UVPT \notin UserX /\ UENVS # UVPT
  /\ BASE \notin FreePages /\ KPAGE \notin FreePages /\ BASE # KPAGE
  /\ RefMod \in Nat /\ RefMod >= 2 /\ TLBSize \in Nat /\ TLBSize >= 1
  /\ NIL \notin Pages /\ NIL \notin ASIDs /\ NIL \notin Ptes
  /\ NIL \notin FreePages /\ FreePages \subseteq Pages /\ BASE \in Pages /\ KPAGE \in Pages
  /\ Idx = UserX \cup {UENVS, UVPT}
BY PmapAssumption DEF Pages, Idx

\* Addresses are finitely many, so references can be counted.
LEMMA PointersFinite == IsFiniteSet(Pointers)
<1>1. IsFiniteSet({UENVS}) /\ IsFiniteSet({UVPT}) /\ IsFiniteSet({"dir"}) /\ IsFiniteSet({"table"}) /\ IsFiniteSet({"page"})
  BY FS_Singleton
<1>2. IsFiniteSet({UENVS} \cup {UVPT})
  BY <1>1, FS_Union
<1>3. IsFiniteSet(UserX \cup ({UENVS} \cup {UVPT}))
  BY <1>2, FS_Union, PmapAssumption
<1>4. IsFiniteSet(Idx)
  <2>1. Idx = UserX \cup ({UENVS} \cup {UVPT})
    BY DEF Idx
  <2> QED BY <1>3, <2>1
<1>5. IsFiniteSet(UserVAs)
  BY <1>4, FS_Product, PmapAssumption DEF UserVAs
<1>6. IsFiniteSet({"dir"} \X ASIDs)
  BY <1>1, FS_Product, PmapAssumption
<1>7. IsFiniteSet(ASIDs \X UserX) /\ IsFiniteSet(ASIDs \X UserVAs)
  BY <1>5, FS_Product, PmapAssumption
<1>8. ASSUME NEW k, NEW X, IsFiniteSet(ASIDs \X X) PROVE IsFiniteSet({k} \X ASIDs \X X)
  <2> DEFINE f == [x \in {k} \X ASIDs \X X |-> <<x[2], x[3]>>]
  <2>1. f \in [{k} \X ASIDs \X X -> ASIDs \X X]
    OBVIOUS
  <2>2. ASSUME NEW x \in {k} \X ASIDs \X X, NEW y \in {k} \X ASIDs \X X, f[x] = f[y] PROVE x = y
    BY <2>2
  <2>3. f \in Injection({k} \X ASIDs \X X, ASIDs \X X)
    BY <2>1, <2>2 DEF Injection, IsInjective
  <2> QED BY <2>3, <1>8, FS_Injection
<1>9. IsFiniteSet({"table"} \X ASIDs \X UserX) /\ IsFiniteSet({"page"} \X ASIDs \X UserVAs)
  BY <1>7, <1>8
<1>10. IsFiniteSet({"dir"} \X ASIDs \cup {"table"} \X ASIDs \X UserX)
  BY <1>6, <1>9, FS_Union
<1> QED BY <1>9, <1>10, FS_Union DEF Pointers

LEMMA Ptr ==
  ASSUME NEW x \in Pointers
  PROVE  /\ x[2] \in ASIDs
         /\ \/ x[1] = "dir" /\ x = <<"dir", x[2]>>
            \/ x[1] = "table" /\ x[3] \in UserX /\ x = <<"table", x[2], x[3]>>
            \/ x[1] = "page" /\ x[3] \in UserVAs /\ x = <<"page", x[2], x[3]>>
BY DEF Pointers

LEMMA UserVA ==
  ASSUME NEW va \in UserVAs
  PROVE  va[1] \in UserX /\ va[2] \in Idx /\ va[1] \in Idx /\ va = <<va[1], va[2]>>
BY DEF UserVAs, Idx

\* Each pointer by its name, and what it points to.
LEMMA AimOf ==
  ASSUME NEW m, NEW g, NEW a \in ASIDs
  PROVE  /\ <<"dir", a>> \in Pointers /\ Aim(m, g, <<"dir", a>>) = g[a]
         /\ \A x \in UserX : <<"table", a, x>> \in Pointers /\ Aim(m, g, <<"table", a, x>>) = PageOf(T(m, g, a, x))
         /\ \A va \in UserVAs : <<"page", a, va>> \in Pointers /\ Aim(m, g, <<"page", a, va>>) = PageOf(V(m, g, a, va))
<1>1. <<"dir", a>> \in Pointers /\ Aim(m, g, <<"dir", a>>) = g[a]
  BY DEF Pointers, Aim
<1>2. ASSUME NEW x \in UserX
      PROVE  <<"table", a, x>> \in Pointers /\ Aim(m, g, <<"table", a, x>>) = PageOf(T(m, g, a, x))
  BY DEF Pointers, Aim
<1>3. ASSUME NEW va \in UserVAs
      PROVE  <<"page", a, va>> \in Pointers /\ Aim(m, g, <<"page", a, va>>) = PageOf(V(m, g, a, va))
  BY DEF Pointers, Aim
<1> QED BY <1>1, <1>2, <1>3

LEMMA TableAim ==
  ASSUME NEW m, NEW g, NEW a \in ASIDs, NEW x \in UserX, T(m, g, a, x) # NIL
  PROVE  <<"table", a, x>> \in Pointers /\ Aim(m, g, <<"table", a, x>>) = T(m, g, a, x).pp
<1>1. <<"table", a, x>> \in Pointers /\ Aim(m, g, <<"table", a, x>>) = PageOf(T(m, g, a, x))
  BY AimOf
<1>2. PageOf(T(m, g, a, x)) = T(m, g, a, x).pp
  BY DEF PageOf
<1> QED BY <1>1, <1>2

LEMMA PageAim ==
  ASSUME NEW m, NEW g, NEW a \in ASIDs, NEW va \in UserVAs, V(m, g, a, va) # NIL
  PROVE  <<"page", a, va>> \in Pointers /\ Aim(m, g, <<"page", a, va>>) = V(m, g, a, va).pp
<1>1. <<"page", a, va>> \in Pointers /\ Aim(m, g, <<"page", a, va>>) = PageOf(V(m, g, a, va))
  BY AimOf
<1>2. PageOf(V(m, g, a, va)) = V(m, g, a, va).pp
  BY DEF PageOf
<1> QED BY <1>1, <1>2

-----------------------------------------------------------------------------
LEMMA RefsFinite ==
  ASSUME NEW m, NEW g, NEW p
  PROVE  IsFiniteSet(RefsIn(m, g, p)) /\ Cardinality(RefsIn(m, g, p)) \in Nat
<1>1. RefsIn(m, g, p) \in SUBSET Pointers
  BY DEF RefsIn
<1> QED BY <1>1, PointersFinite, FS_Subset, FS_CardinalityType

\* Putting a page at the front of the free list.
LEMMA Front ==
  ASSUME NEW S, NEW s \in Seq(S), NEW p \in S
  PROVE  /\ <<p>> \o s \in Seq(S)
         /\ DOMAIN (<<p>> \o s) = 1 .. Len(s) + 1 /\ DOMAIN s = 1 .. Len(s) /\ Len(s) \in Nat
         /\ (<<p>> \o s)[1] = p
         /\ \A i \in DOMAIN (<<p>> \o s) : i # 1 => (i - 1) \in DOMAIN s /\ (<<p>> \o s)[i] = s[i - 1]
OBVIOUS

LEMMA Rest ==
  ASSUME NEW S, NEW s \in Seq(S), s # <<>>
  PROVE  /\ Tail(s) \in Seq(S) /\ Head(s) \in S /\ Head(s) = s[1] /\ 1 \in DOMAIN s
         /\ DOMAIN Tail(s) = 1 .. Len(s) - 1 /\ DOMAIN s = 1 .. Len(s) /\ Len(s) \in Nat
         /\ \A i \in DOMAIN Tail(s) : (i + 1) \in DOMAIN s /\ Tail(s)[i] = s[i + 1] /\ i + 1 # 1
OBVIOUS

\* A pointer that was null is set to a page.
LEMMA AddPtr ==
  ASSUME NEW m, NEW g, Owned(m, g), NEW m2, NEW g2, m2 \in Mem, g2 \in Dirs,
         NEW x0 \in Pointers, NEW p, Aim(m, g, x0) = NIL, Aim(m2, g2, x0) = p, Data(m, g, p),
         x0[1] # "page" => RefsIn(m, g, p) = {},
         \A x \in Pointers : x # x0 => Aim(m2, g2, x) = Aim(m, g, x),
         m2.free = m.free, m2.ref = [m.ref EXCEPT ![p] = (@ + 1) % RefMod],
         Cardinality(RefsIn(m2, g2, p)) < RefMod
  PROVE  /\ Owned(m2, g2)
         /\ \A q : q # p /\ Data(m, g, q) => Data(m2, g2, q)
<1> DEFINE R(q) == RefsIn(m, g, q)  R2(q) == RefsIn(m2, g2, q)
<1>1. p \in FreePages /\ p # NIL /\ p \in Pages /\ NIL \notin FreePages
  BY Consts DEF Data
<1>2. \A q \in FreePages : q # p => R2(q) = R(q)
  BY <1>1 DEF RefsIn
<1>3. R2(p) = R(p) \cup {x0} /\ x0 \notin R(p)
  BY <1>1 DEF RefsIn
<1>4. Cardinality(R2(p)) = Cardinality(R(p)) + 1 /\ Cardinality(R(p)) \in Nat /\ Cardinality(R2(p)) \in Nat
  BY <1>3, RefsFinite, FS_AddElement
<1>5. m.ref \in [Pages -> 0 .. RefMod - 1] /\ m2.ref \in [Pages -> 0 .. RefMod - 1]
  BY DEF Owned, Typed, Mem
<1>6. \A q \in FreePages : q # p => m2.ref[q] = m.ref[q]
  BY <1>5, Consts
<1>7. m.ref[p] = Cardinality(R(p))
  <2>1. CASE R(p) # {}
    BY <2>1, <1>1 DEF Owned, Counted
  <2>2. CASE R(p) = {}
    BY <2>2, FS_EmptySet DEF Data
  <2> QED BY <2>1, <2>2
<1>8. m2.ref[p] = Cardinality(R2(p))
  <2>1. m2.ref[p] = (m.ref[p] + 1) % RefMod
    BY <1>1, <1>5
  <2>2. Cardinality(R2(p)) < RefMod
    OBVIOUS
  <2> HIDE DEF R, R2
  <2>3. (m.ref[p] + 1) % RefMod = m.ref[p] + 1
    BY <1>7, <1>4, <2>2, Consts
  <2> QED BY <2>1, <2>3, <1>7, <1>4
<1>9. Typed(m2, g2)
  BY <1>1 DEF Owned, Typed
<1>10. Private(m2, g2)
  <2> SUFFICES ASSUME NEW x \in Pointers, NEW y \in Pointers, x[1] # "page", Aim(m2, g2, x) # NIL,
                      Aim(m2, g2, y) = Aim(m2, g2, x)
               PROVE  y = x
    BY DEF Private
  <2>1. CASE x # x0 /\ y # x0
    BY <2>1 DEF Owned, Private
  <2>2. CASE x = x0 /\ y # x0
    BY <2>2, <1>1 DEF RefsIn
  <2>3. CASE x # x0 /\ y = x0
    BY <2>3 DEF Data
  <2> QED BY <2>1, <2>2, <2>3
<1>11. Counted(m2, g2)
  BY <1>2, <1>6, <1>8 DEF Owned, Counted
<1>12. FreeOk(m2, g2)
  <2>1. \A i \in DOMAIN m2.free : m2.free[i] \in FreePages /\ m2.free[i] # p
    BY DEF Data, InFree, Owned, Typed, Mem
  <2> QED BY <2>1, <1>2, <1>6 DEF Owned, FreeOk
<1>13. ASSUME NEW q, q # p, Data(m, g, q) PROVE Data(m2, g2, q)
  <2>1. q \in FreePages /\ ~InFree(m2, q)
    BY <1>13 DEF Data, InFree
  <2>2. RefsIn(m2, g2, q) # {} \/ m2.ref[q] = 0
    BY <1>13, <2>1, <1>2, <1>6 DEF Data
  <2>3. \A x \in Pointers : Aim(m2, g2, x) = q => x[1] = "page"
    BY <1>13 DEF Data
  <2> QED BY <2>1, <2>2, <2>3 DEF Data
<1> QED BY <1>9, <1>10, <1>11, <1>12, <1>13 DEF Owned

\* A pointer is set to null, and the page it named is released.
LEMMA DropPtr ==
  ASSUME NEW m, NEW g, Owned(m, g), NEW m2, NEW g2, m2 \in Mem, g2 \in Dirs,
         NEW x0 \in Pointers, NEW p, p # NIL, Aim(m, g, x0) = p, Aim(m2, g2, x0) = NIL,
         \A x \in Pointers : x # x0 => Aim(m2, g2, x) = Aim(m, g, x),
         m2.ref = [m.ref EXCEPT ![p] = @ - 1],
         m2.free = IF m.ref[p] = 1 THEN <<p>> \o m.free ELSE m.free
  PROVE  /\ Owned(m2, g2)
         /\ \A q : q # p /\ Data(m, g, q) => Data(m2, g2, q)
<1> DEFINE R(q) == RefsIn(m, g, q)  R2(q) == RefsIn(m2, g2, q)
<1>1. p \in FreePages /\ p \in Pages /\ NIL \notin FreePages
  BY Consts DEF Owned, Typed
<1>2. \A q \in FreePages : q # p => R2(q) = R(q)
  BY <1>1 DEF RefsIn
<1>3. R2(p) = R(p) \ {x0} /\ x0 \in R(p)
  BY <1>1 DEF RefsIn
<1>4. Cardinality(R2(p)) = Cardinality(R(p)) - 1 /\ Cardinality(R(p)) \in Nat /\ Cardinality(R2(p)) \in Nat
  BY <1>3, RefsFinite, FS_RemoveElement
<1>5. m.ref \in [Pages -> 0 .. RefMod - 1] /\ m2.ref \in [Pages -> 0 .. RefMod - 1]
      /\ m.free \in Seq(FreePages) /\ m2.free \in Seq(FreePages)
  BY DEF Owned, Typed, Mem
<1>6. \A q \in FreePages : q # p => m2.ref[q] = m.ref[q]
  BY <1>5, Consts
<1>7. m.ref[p] = Cardinality(R(p))
  BY <1>1, <1>3 DEF Owned, Counted
<1>8. m2.ref[p] = Cardinality(R2(p))
  BY <1>1, <1>4, <1>5, <1>7
<1>9. Typed(m2, g2)
  BY <1>1 DEF Owned, Typed
<1>10. Private(m2, g2)
  <2> SUFFICES ASSUME NEW x \in Pointers, NEW y \in Pointers, x[1] # "page", Aim(m2, g2, x) # NIL,
                      Aim(m2, g2, y) = Aim(m2, g2, x)
               PROVE  y = x
    BY DEF Private
  <2>1. x # x0 /\ y # x0
    OBVIOUS
  <2> QED BY <2>1 DEF Owned, Private
<1>11. Counted(m2, g2)
  BY <1>2, <1>6, <1>8 DEF Owned, Counted
<1>12. ~InFree(m, p)
  BY <1>3 DEF Owned, FreeOk, InFree
<1>13. \A q : InFree(m2, q) => InFree(m, q) \/ (q = p /\ m.ref[p] = 1)
  <2>1. CASE m.ref[p] = 1
    <3>1. m2.free = <<p>> \o m.free
      BY <2>1
    <3> QED BY <3>1, <2>1, <1>1, <1>5, Front DEF InFree
  <2>2. CASE m.ref[p] # 1
    BY <2>2 DEF InFree
  <2> QED BY <2>1, <2>2
<1>14. FreeOk(m2, g2)
  <2>1. \A i, j \in DOMAIN m2.free : m2.free[i] = m2.free[j] => i = j
    <3>1. CASE m.ref[p] = 1
      <4>1. m2.free = <<p>> \o m.free
        BY <3>1
      <4>2. \A i \in DOMAIN m2.free : i # 1 => (i - 1) \in DOMAIN m.free /\ m2.free[i] = m.free[i - 1]
        BY <4>1, <1>1, <1>5, Front
      <4>3. m2.free[1] = p /\ DOMAIN m2.free \subseteq Int
        BY <4>1, <1>1, <1>5, Front
      <4>4. \A i \in DOMAIN m2.free : i # 1 => m2.free[i] # p
        BY <4>2, <1>12 DEF InFree
      <4>5. \A i, j \in DOMAIN m.free : m.free[i] = m.free[j] => i = j
        BY DEF Owned, FreeOk
      <4>6. ASSUME NEW i \in DOMAIN m2.free, NEW j \in DOMAIN m2.free, i # 1, j # 1, m2.free[i] = m2.free[j] PROVE i = j
        <5>1. i - 1 = j - 1
          BY <4>6, <4>2, <4>5
        <5> QED BY <5>1, <4>3
      <4> QED BY <4>3, <4>4, <4>6
    <3>2. CASE m.ref[p] # 1
      BY <3>2 DEF Owned, FreeOk
    <3> QED BY <3>1, <3>2
  <2>2. ASSUME NEW q, InFree(m2, q) PROVE m2.ref[q] = 0 /\ R2(q) = {}
    <3>1. CASE InFree(m, q)
      <4>1. q # p /\ q \in FreePages
        BY <3>1, <1>12, <1>5 DEF InFree
      <4> QED BY <4>1, <3>1, <1>2, <1>6 DEF Owned, FreeOk, InFree
    <3>2. CASE q = p /\ m.ref[p] = 1
      <4>1. Cardinality(R2(p)) = 0
        BY <3>2, <1>4, <1>7
      <4>2. R2(p) = {}
        BY <4>1, RefsFinite, FS_EmptySet
      <4> QED BY <4>1, <4>2, <3>2, <1>8
    <3> QED BY <2>2, <3>1, <3>2, <1>13
  <2> QED BY <2>1, <2>2 DEF FreeOk, InFree
<1>15. ASSUME NEW q, q # p, Data(m, g, q) PROVE Data(m2, g2, q)
  <2>1. q \in FreePages /\ ~InFree(m2, q)
    BY <1>15, <1>13 DEF Data
  <2>2. RefsIn(m2, g2, q) # {} \/ m2.ref[q] = 0
    BY <1>15, <2>1, <1>2, <1>6 DEF Data
  <2>3. q # NIL
    BY <2>1, <1>1
  <2>4. \A x \in Pointers : Aim(m2, g2, x) = q => x[1] = "page"
    BY <1>15, <2>3 DEF Data
  <2> QED BY <2>1, <2>2, <2>4 DEF Data
<1> QED BY <1>9, <1>10, <1>11, <1>14, <1>15 DEF Owned

-----------------------------------------------------------------------------
(***************************************************************************)
(* Stores into directories and tables.                                     *)
(***************************************************************************)
LEMMA Types ==
  ASSUME NEW m, NEW g, Typed(m, g), NEW a \in ASIDs
  PROVE  /\ g[a] \in FreePages \cup {NIL}
         /\ \A i \in Idx : T(m, g, a, i) \in Ptes \cup {NIL}
         /\ \A x \in UserX : T(m, g, a, x) # NIL => T(m, g, a, x) \in Ptes /\ T(m, g, a, x).pp \in FreePages
         /\ \A va \in UserVAs : V(m, g, a, va) \in Ptes \cup {NIL}
         /\ \A va \in UserVAs : V(m, g, a, va) # NIL => V(m, g, a, va) \in Ptes /\ V(m, g, a, va).pp \in FreePages
<1>1. g[a] \in FreePages \cup {NIL}
  BY DEF Typed, Dirs
<1>2. m.tab \in [Pages -> [Idx -> Ptes \cup {NIL}]]
  BY DEF Typed, Mem
<1>3. ASSUME NEW i \in Idx PROVE T(m, g, a, i) \in Ptes \cup {NIL}
  BY <1>1, <1>2, Consts DEF T
<1>4. ASSUME NEW x \in UserX, T(m, g, a, x) # NIL PROVE T(m, g, a, x) \in Ptes /\ T(m, g, a, x).pp \in FreePages
  <2>1. Aim(m, g, <<"table", a, x>>) \in FreePages \cup {NIL} /\ T(m, g, a, x) \in Ptes
    BY <1>3, <1>4, AimOf, Consts DEF Typed
  <2>2. T(m, g, a, x).pp \in Pages
    BY <2>1 DEF Ptes
  <2>3. Aim(m, g, <<"table", a, x>>) = T(m, g, a, x).pp
    BY <1>4, TableAim
  <2> QED BY <2>1, <2>2, <2>3, Consts
<1>5. ASSUME NEW va \in UserVAs PROVE V(m, g, a, va) \in Ptes \cup {NIL}
  <2>1. va[1] \in UserX /\ va[2] \in Idx
    BY UserVA
  <2> QED BY <1>2, <1>4, <2>1, Consts DEF V
<1>6. ASSUME NEW va \in UserVAs, V(m, g, a, va) # NIL PROVE V(m, g, a, va) \in Ptes /\ V(m, g, a, va).pp \in FreePages
  <2>1. Aim(m, g, <<"page", a, va>>) \in FreePages \cup {NIL} /\ V(m, g, a, va) \in Ptes
    BY <1>5, <1>6, AimOf, Consts DEF Typed
  <2>2. V(m, g, a, va).pp \in Pages
    BY <2>1 DEF Ptes
  <2>3. Aim(m, g, <<"page", a, va>>) = V(m, g, a, va).pp
    BY <1>6, PageAim
  <2> QED BY <2>1, <2>2, <2>3, Consts
<1> QED BY <1>1, <1>3, <1>4, <1>5, <1>6

\* Directories and tables are all different, and no data.
LEMMA Apart ==
  ASSUME NEW m, NEW g, Owned(m, g), NEW a \in ASIDs, NEW b \in ASIDs
  PROVE  /\ g[a] # NIL /\ g[a] = g[b] => a = b
         /\ \A x \in UserX : T(m, g, a, x) # NIL => T(m, g, a, x).pp # g[b]
         /\ \A x, y \in UserX : T(m, g, a, x) # NIL /\ T(m, g, b, y) # NIL
                                  /\ T(m, g, a, x).pp = T(m, g, b, y).pp => a = b /\ x = y
         /\ \A va \in UserVAs : V(m, g, a, va) # NIL => V(m, g, a, va).pp # g[b]
         /\ \A va \in UserVAs, y \in UserX : V(m, g, a, va) # NIL /\ T(m, g, b, y) # NIL =>
                                               V(m, g, a, va).pp # T(m, g, b, y).pp
<1> DEFINE D(c) == <<"dir", c>>  K(c, x) == <<"table", c, x>>  W(c, va) == <<"page", c, va>>
<1>1. \A c \in ASIDs : /\ D(c) \in Pointers /\ D(c)[1] = "dir" /\ D(c)[2] = c
                       /\ \A x \in UserX : K(c, x) \in Pointers /\ K(c, x)[1] = "table" /\ K(c, x)[2] = c /\ K(c, x)[3] = x
                       /\ \A va \in UserVAs : W(c, va) \in Pointers /\ W(c, va)[1] = "page"
  BY AimOf
<1>2. \A c \in ASIDs : /\ Aim(m, g, D(c)) = g[c]
                       /\ \A x \in UserX : Aim(m, g, K(c, x)) = PageOf(T(m, g, c, x))
                       /\ \A va \in UserVAs : Aim(m, g, W(c, va)) = PageOf(V(m, g, c, va))
  BY AimOf
<1>3. \A x, y \in Pointers : x[1] # "page" /\ Aim(m, g, x) # NIL /\ Aim(m, g, y) = Aim(m, g, x) => y = x
  BY DEF Owned, Private
<1>4. NIL \notin FreePages /\ Typed(m, g)
  BY Consts DEF Owned
<1> HIDE DEF D, K, W
<1>5. g[a] # NIL /\ g[a] = g[b] => a = b
  BY <1>1, <1>2, <1>3
<1>6. ASSUME NEW x \in UserX, T(m, g, a, x) # NIL PROVE T(m, g, a, x).pp # g[b]
  <2>1. Aim(m, g, K(a, x)) = T(m, g, a, x).pp /\ T(m, g, a, x).pp # NIL
    BY <1>2, <1>4, <1>6, Types DEF PageOf
  <2>2. D(b) # K(a, x)
    BY <1>1
  <2> QED BY <2>1, <2>2, <1>1, <1>2, <1>3
<1>7. ASSUME NEW x \in UserX, NEW y \in UserX, T(m, g, a, x) # NIL, T(m, g, b, y) # NIL, T(m, g, a, x).pp = T(m, g, b, y).pp
      PROVE  a = b /\ x = y
  <2>1. Aim(m, g, K(a, x)) = T(m, g, a, x).pp /\ T(m, g, a, x).pp # NIL /\ Aim(m, g, K(b, y)) = T(m, g, b, y).pp
    BY <1>2, <1>4, <1>7, Types DEF PageOf
  <2>2. K(a, x) = K(b, y)
    BY <2>1, <1>1, <1>3, <1>7
  <2> QED BY <2>2, <1>1
<1>8. ASSUME NEW va \in UserVAs, V(m, g, a, va) # NIL PROVE V(m, g, a, va).pp # g[b]
  <2>1. Aim(m, g, W(a, va)) = V(m, g, a, va).pp /\ V(m, g, a, va).pp # NIL
    BY <1>2, <1>4, <1>8, Types DEF PageOf
  <2>2. D(b) # W(a, va)
    BY <1>1
  <2> QED BY <2>1, <2>2, <1>1, <1>2, <1>3
<1>9. ASSUME NEW va \in UserVAs, NEW y \in UserX, V(m, g, a, va) # NIL, T(m, g, b, y) # NIL
      PROVE  V(m, g, a, va).pp # T(m, g, b, y).pp
  <2>1. Aim(m, g, W(a, va)) = V(m, g, a, va).pp /\ V(m, g, a, va).pp # NIL /\ Aim(m, g, K(b, y)) = T(m, g, b, y).pp
    BY <1>2, <1>4, <1>9, Types DEF PageOf
  <2>2. K(b, y) # W(a, va)
    BY <1>1
  <2> QED BY <2>1, <2>2, <1>1, <1>3
<1> QED BY <1>5, <1>6, <1>7, <1>8, <1>9

\* Stores into a page that nobody points to.
LEMMA StoreUnused ==
  ASSUME NEW m, NEW g, Owned(m, g), SelfMaps(m, g), NEW p \in FreePages, RefsIn(m, g, p) = {},
         NEW m2, NEW e, m2.tab = [m.tab EXCEPT ![p] = e]
  PROVE  /\ \A a \in ASIDs, i \in Idx : T(m2, g, a, i) = T(m, g, a, i)
         /\ \A a \in ASIDs, va \in UserVAs : V(m2, g, a, va) = V(m, g, a, va)
         /\ SelfMaps(m2, g)
<1>r. \A x \in Pointers : Aim(m, g, x) # p
  BY DEF RefsIn
<1>1. ASSUME NEW a \in ASIDs PROVE g[a] # p
  <2>1. <<"dir", a>> \in Pointers /\ Aim(m, g, <<"dir", a>>) = g[a]
    BY AimOf
  <2> QED BY <2>1, <1>r
<1>2. ASSUME NEW a \in ASIDs, NEW x \in UserX, T(m, g, a, x) # NIL PROVE T(m, g, a, x).pp # p
  <2>1. <<"table", a, x>> \in Pointers /\ Aim(m, g, <<"table", a, x>>) = T(m, g, a, x).pp
    BY <1>2, TableAim
  <2> QED BY <2>1, <1>r
<1>3. p # BASE /\ p \in Pages /\ m.tab \in [Pages -> [Idx -> Ptes \cup {NIL}]]
  BY Consts DEF Owned, Typed, Mem
<1>0. \A r : r # p => m2.tab[r] = m.tab[r]
  BY <1>3
<1>4. \A a \in ASIDs, i \in Idx : T(m2, g, a, i) = T(m, g, a, i)
  BY <1>1, <1>3 DEF T
<1>5. ASSUME NEW a \in ASIDs, NEW va \in UserVAs PROVE V(m2, g, a, va) = V(m, g, a, va)
  <2>1. va[1] \in UserX /\ va[1] \in Idx
    BY UserVA
  <2>2. T(m, g, a, va[1]) # NIL => m2.tab[T(m, g, a, va[1]).pp] = m.tab[T(m, g, a, va[1]).pp]
    BY <1>2, <1>3, <2>1, Types DEF Owned
  <2> QED BY <1>4, <2>1, <2>2 DEF V
<1>6. SelfMaps(m2, g)
  BY <1>0, <1>1, <1>3 DEF SelfMaps
<1> QED BY <1>4, <1>5, <1>6

\* A store into entry i of page q.
Stored(m, m2, q, i, e) == m2.tab = [m.tab EXCEPT ![q][i] = e]

\* Stores into entry x of a directory.
LEMMA StoreDir ==
  ASSUME NEW m, NEW g, Owned(m, g), SelfMaps(m, g), NEW a \in ASIDs, g[a] # NIL, NEW x \in UserX,
         NEW m2, NEW e, e = NIL \/ e.pp # g[a], Stored(m, m2, g[a], x, e)
  PROVE  /\ \A b \in ASIDs, i \in Idx : T(m2, g, b, i) = IF b = a /\ i = x THEN e ELSE T(m, g, b, i)
         /\ \A b \in ASIDs, va \in UserVAs :
              V(m2, g, b, va) = IF b = a /\ va[1] = x THEN IF e = NIL THEN NIL ELSE m.tab[e.pp][va[2]]
                                ELSE V(m, g, b, va)
         /\ SelfMaps(m2, g)
<1>1. \A b \in ASIDs : g[a] = g[b] => a = b
  BY Apart
<1>2. \A b \in ASIDs, y \in UserX : T(m, g, b, y) # NIL => T(m, g, b, y).pp # g[a]
  BY Apart
<1>0. Typed(m, g) /\ g[a] \in FreePages
  BY Types DEF Owned
<1>3. g[a] \in FreePages /\ g[a] \in Pages /\ g[a] # BASE /\ m.tab \in [Pages -> [Idx -> Ptes \cup {NIL}]]
      /\ x \in Idx /\ x # UENVS /\ x # UVPT /\ Typed(m, g)
  BY <1>0, Consts DEF Typed, Mem
<1>4. ASSUME NEW b \in ASIDs, NEW i \in Idx PROVE T(m2, g, b, i) = IF b = a /\ i = x THEN e ELSE T(m, g, b, i)
  <2>1. CASE b = a
    BY <2>1, <1>3 DEF T, Stored
  <2>2. CASE b # a
    BY <2>2, <1>1, <1>3 DEF T, Stored
  <2> QED BY <2>1, <2>2
<1>5. \A q : q # g[a] => m2.tab[q] = m.tab[q]
  BY <1>3 DEF Stored
<1>6. ASSUME NEW b \in ASIDs, NEW va \in UserVAs
      PROVE  V(m2, g, b, va) = IF b = a /\ va[1] = x THEN IF e = NIL THEN NIL ELSE m.tab[e.pp][va[2]]
                               ELSE V(m, g, b, va)
  <2>1. va[1] \in UserX /\ va[1] \in Idx
    BY UserVA
  <2>2. CASE b = a /\ va[1] = x
    <3>1. T(m2, g, b, va[1]) = e
      BY <2>1, <2>2, <1>4
    <3>2. e # NIL => m2.tab[e.pp] = m.tab[e.pp]
      BY <1>5
    <3> QED BY <3>1, <3>2, <2>2 DEF V
  <2>3. CASE ~(b = a /\ va[1] = x)
    <3>1. T(m2, g, b, va[1]) = T(m, g, b, va[1])
      BY <2>1, <2>3, <1>4
    <3>2. T(m, g, b, va[1]) # NIL => m2.tab[T(m, g, b, va[1]).pp] = m.tab[T(m, g, b, va[1]).pp]
      BY <1>2, <1>5, <2>1
    <3> QED BY <3>1, <3>2, <2>3 DEF V
  <2> QED BY <2>2, <2>3
<1>7. SelfMaps(m2, g)
  <2>1. m2.tab[BASE] = BaseTab
    BY <1>3, <1>5 DEF SelfMaps
  <2>2. ASSUME NEW b \in ASIDs, g[b] # NIL
        PROVE  m2.tab[g[b]][UENVS] = m.tab[g[b]][UENVS] /\ m2.tab[g[b]][UVPT] = m.tab[g[b]][UVPT]
    BY <1>3, Types, Consts DEF Stored
  <2> QED BY <2>1, <2>2 DEF SelfMaps
<1> QED BY <1>4, <1>6, <1>7

\* Environment a is alive and has a table for va.
HasTable(m, g, a, va) == /\ a \in ASIDs /\ g[a] # NIL /\ va \in UserVAs
                         /\ T(m, g, a, va[1]) # NIL /\ T(m, g, a, va[1]).pp \in FreePages

\* From m to m2 the mapping of va in a becomes e, and no other changes.
OneMap(m, m2, g, a, va, e) ==
  /\ \A b \in ASIDs, i \in Idx : T(m2, g, b, i) = T(m, g, b, i)
  /\ \A b \in ASIDs, w \in UserVAs : V(m2, g, b, w) = IF b = a /\ w = va THEN e ELSE V(m, g, b, w)

\* Stores into the entry for va in a table of a.
LEMMA StoreTable ==
  ASSUME NEW m, NEW g, Owned(m, g), SelfMaps(m, g), NEW a, NEW va, HasTable(m, g, a, va),
         NEW m2, NEW e, Stored(m, m2, T(m, g, a, va[1]).pp, va[2], e)
  PROVE  OneMap(m, m2, g, a, va, e) /\ SelfMaps(m2, g)
<1>h. a \in ASIDs /\ va \in UserVAs /\ T(m, g, a, va[1]) # NIL
  BY DEF HasTable
<1> DEFINE q == T(m, g, a, va[1]).pp
<1>1. va[1] \in UserX /\ va[2] \in Idx
  BY <1>h, UserVA
<1>0. Typed(m, g) /\ q \in FreePages
  BY <1>h, <1>1, Types DEF Owned
<1>2. q \in FreePages /\ q \in Pages /\ q # BASE /\ m.tab \in [Pages -> [Idx -> Ptes \cup {NIL}]] /\ Typed(m, g)
  BY <1>0, Consts DEF Typed, Mem
<1>3. \A b \in ASIDs : g[b] # q
  BY <1>h, <1>1, Apart
<1>4. \A b \in ASIDs, y \in UserX : T(m, g, b, y) # NIL /\ T(m, g, b, y).pp = q => b = a /\ y = va[1]
  BY <1>h, <1>1, Apart
<1>5. \A r : r # q => m2.tab[r] = m.tab[r]
  BY <1>2 DEF Stored
<1>6. m2.tab[q] = [m.tab[q] EXCEPT ![va[2]] = e] /\ m.tab[q] \in [Idx -> Ptes \cup {NIL}]
  BY <1>2 DEF Stored
<1> HIDE DEF q
<1>7. \A b \in ASIDs, i \in Idx : T(m2, g, b, i) = T(m, g, b, i)
  BY <1>3, <1>5 DEF T
<1>8. ASSUME NEW b \in ASIDs, NEW w \in UserVAs PROVE V(m2, g, b, w) = IF b = a /\ w = va THEN e ELSE V(m, g, b, w)
  <2>1. w[1] \in UserX /\ w[1] \in Idx /\ w[2] \in Idx /\ (w[1] = va[1] /\ w[2] = va[2] => w = va)
    BY <1>h, UserVA
  <2>2. CASE b = a /\ w[1] = va[1]
    <3>1. T(m2, g, b, w[1]) # NIL /\ T(m2, g, b, w[1]).pp = q /\ T(m, g, b, w[1]) # NIL /\ T(m, g, b, w[1]).pp = q
      BY <1>h, <2>1, <2>2, <1>7 DEF q
    <3> QED BY <1>1, <3>1, <2>1, <2>2, <1>6 DEF V
  <2>3. CASE ~(b = a /\ w[1] = va[1])
    <3>1. T(m2, g, b, w[1]) = T(m, g, b, w[1]) /\ (T(m, g, b, w[1]) # NIL => T(m, g, b, w[1]).pp # q)
      BY <2>1, <2>3, <1>4, <1>7
    <3> QED BY <3>1, <2>3, <1>5 DEF V
  <2> QED BY <2>2, <2>3
<1>9. SelfMaps(m2, g)
  BY <1>2, <1>3, <1>5 DEF SelfMaps
<1> QED BY <1>7, <1>8, <1>9 DEF OneMap

-----------------------------------------------------------------------------
(***************************************************************************)
(* page_lookup, tlb_invalidate and page_alloc.                             *)
(***************************************************************************)
\* A walk of the page tables by an operator of the model.
LEMMA Lookup ==
  ASSUME NEW m, NEW g, NEW a \in ASIDs, g[a] # NIL, NEW va
  PROVE  page_lookup(m, g[a], va) = V(m, g, a, va) /\ m.tab[g[a]][va[1]] = T(m, g, a, va[1])
BY DEF page_lookup, V, T

\* The tables of all environments say the same.
SameMap(m, m2, g) == /\ \A a \in ASIDs, i \in Idx : T(m2, g, a, i) = T(m, g, a, i)
                     /\ \A a \in ASIDs, va \in UserVAs : V(m2, g, a, va) = V(m, g, a, va)

LEMMA SameTab ==
  ASSUME NEW m, NEW m2, m2.tab = m.tab, NEW g
  PROVE  SameMap(m, m2, g) /\ (SelfMaps(m, g) => SelfMaps(m2, g))
BY DEF SameMap, T, V, SelfMaps

LEMMA SameAims ==
  ASSUME NEW m, NEW m2, NEW g, SameMap(m, m2, g)
  PROVE  /\ \A x \in Pointers : Aim(m2, g, x) = Aim(m, g, x)
         /\ \A p : RefsIn(m2, g, p) = RefsIn(m, g, p)
         /\ \A a \in ASIDs, va \in VAs : Seen(m2, g, a, va) = Seen(m, g, a, va)
<1>1. ASSUME NEW x \in Pointers PROVE Aim(m2, g, x) = Aim(m, g, x)
  <2>1. x[2] \in ASIDs /\ (x[1] = "table" => x[3] \in UserX) /\ (x[1] = "page" => x[3] \in UserVAs)
    BY Ptr
  <2>2. UserX \subseteq Idx
    BY Consts
  <2> QED BY <2>1, <2>2 DEF Aim, SameMap
<1>2. ASSUME NEW a \in ASIDs, NEW va \in VAs PROVE Seen(m2, g, a, va) = Seen(m, g, a, va)
  <2>1. va[1] \in Idx /\ va[2] \in Idx /\ (va[1] \in UserX => va \in UserVAs)
    BY DEF VAs, UserVAs
  <2> QED BY <2>1 DEF Seen, SameMap
<1> QED BY <1>1, <1>2 DEF RefsIn

\* What a step that changes no pointer keeps.
LEMMA Keep ==
  ASSUME NEW m, NEW m2, NEW g, Sound(m, g), SameMap(m, m2, g), SelfMaps(m2, g), m2 \in Mem,
         m2.ref = m.ref, m2.tlb \subseteq m.tlb,
         \/ m2.free = m.free
         \/ m.free # <<>> /\ m2.free = Tail(m.free)
  PROVE  Sound(m2, g) /\ \A q : Data(m, g, q) => Data(m2, g, q)
<1>1. \A x \in Pointers : Aim(m2, g, x) = Aim(m, g, x)
  BY SameAims
<1>2. \A p : RefsIn(m2, g, p) = RefsIn(m, g, p)
  BY SameAims
<1>3. \A t \in m2.tlb : t.asid \in ASIDs /\ t.va \in VAs
  BY DEF Mem, Entries
<1>4. Coherent(m2, g)
  BY <1>3, SameAims DEF Sound, Coherent
<1>5. Typed(m2, g) /\ Private(m2, g)
  BY <1>1 DEF Sound, Owned, Typed, Private
<1>6. Counted(m2, g)
  BY <1>2 DEF Sound, Owned, Counted
<1>7. FreeOk(m2, g) /\ \A q : InFree(m2, q) => InFree(m, q)
  <2>1. CASE m2.free = m.free
    BY <2>1, <1>2 DEF Sound, Owned, FreeOk, InFree
  <2>2. CASE m.free # <<>> /\ m2.free = Tail(m.free)
    <3>1. m.free \in Seq(FreePages)
      BY DEF Sound, Owned, Typed, Mem
    <3>2. \A i \in DOMAIN m2.free : i \in Int /\ (i + 1) \in DOMAIN m.free /\ m2.free[i] = m.free[i + 1]
      BY <2>2, <3>1, Rest
    <3>3. \A i, j \in DOMAIN m2.free : i + 1 = j + 1 => i = j
      BY <3>2
    <3>4. \A i, j \in DOMAIN m.free : m.free[i] = m.free[j] => i = j
      BY DEF Sound, Owned, FreeOk
    <3>5. \A i, j \in DOMAIN m2.free : m2.free[i] = m2.free[j] => i = j
      BY <3>2, <3>3, <3>4
    <3>6. \A i \in DOMAIN m2.free : m2.ref[m2.free[i]] = 0 /\ RefsIn(m2, g, m2.free[i]) = {}
      <4>1. \A i \in DOMAIN m.free : m2.ref[m.free[i]] = 0 /\ RefsIn(m2, g, m.free[i]) = {}
        BY <1>2 DEF Sound, Owned, FreeOk
      <4> QED BY <4>1, <3>2
    <3>7. \A q : InFree(m2, q) => InFree(m, q)
      BY <3>2 DEF InFree
    <3> QED BY <3>5, <3>6, <3>7 DEF FreeOk
  <2> QED BY <2>1, <2>2
<1>8. \A q : Data(m, g, q) => Data(m2, g, q)
  BY <1>1, <1>2, <1>7 DEF Data
<1> QED BY <1>4, <1>5, <1>6, <1>7, <1>8 DEF Sound, Owned

\* tlb_invalidate changes nothing but the TLB.
LEMMA Invalidate ==
  ASSUME NEW m, NEW g, Sound(m, g), NEW a, NEW va, NEW m2, m2 = tlb_invalidate(m, a, va)
  PROVE  /\ Sound(m2, g) /\ SameMap(m, m2, g) /\ m2.ref = m.ref /\ m2.free = m.free /\ m2.tab = m.tab
         /\ m2.panic = m.panic
         /\ m2.tlb = {t \in m.tlb : ~(t.asid = a /\ t.va = va)}
         /\ \A q : Data(m, g, q) => Data(m2, g, q)
<1>0. m \in Mem
  BY DEF Sound, Owned, Typed
<1>1. /\ m2.ref = m.ref /\ m2.free = m.free /\ m2.tab = m.tab /\ m2.panic = m.panic
      /\ m2.tlb = {t \in m.tlb : ~(t.asid = a /\ t.va = va)} /\ m2 \in Mem
  BY <1>0 DEF tlb_invalidate, Mem
<1>2. SameMap(m, m2, g) /\ SelfMaps(m2, g)
  BY <1>1, SameTab DEF Sound
<1>3. m2.tlb \subseteq m.tlb
  BY <1>1
<1> QED BY <1>1, <1>2, <1>3, Keep

LEMMA AllocFields ==
  ASSUME NEW m \in Mem, m.free # <<>>, NEW m2, m2 = page_alloc(m)
  PROVE  /\ m2 \in Mem /\ m2.ref = m.ref /\ m2.free = Tail(m.free) /\ m2.tlb = m.tlb /\ m2.panic = m.panic
         /\ m2.tab = [m.tab EXCEPT ![Head(m.free)] = Blank]
<1>1. Head(m.free) \in Pages /\ Tail(m.free) \in Seq(FreePages)
  BY Rest, Consts DEF Mem
<1>2. Blank \in [Idx -> Ptes \cup {NIL}]
  BY DEF Blank
<1> QED BY <1>1, <1>2 DEF page_alloc, Mem

\* From m to m2 page p has been allocated.
Allocated(m, m2, g, p) ==
  /\ Sound(m2, g) /\ SameMap(m, m2, g) /\ m2.tlb = m.tlb /\ m2.panic = m.panic /\ m2.ref = m.ref
  /\ p \in FreePages /\ ~InFree(m2, p) /\ RefsIn(m2, g, p) = {} /\ m2.ref[p] = 0 /\ m2.tab[p] = Blank
  /\ Data(m2, g, p)
  /\ \A q : Data(m, g, q) => Data(m2, g, q) /\ q # p

\* page_alloc yields a page that nobody points to.
LEMMA Alloc ==
  ASSUME NEW m, NEW g, Sound(m, g), m.free # <<>>
  PROVE  Allocated(m, page_alloc(m), g, Head(m.free)) /\ page_alloc(m).free = Tail(m.free)
<1>m. PICK m2 : m2 = page_alloc(m)
  OBVIOUS
<1>p. PICK p : p = Head(m.free)
  OBVIOUS
<1>0. m \in Mem /\ m.free \in Seq(FreePages)
  BY DEF Sound, Owned, Typed, Mem
<1>1. p \in FreePages /\ p = m.free[1] /\ 1 \in DOMAIN m.free
  BY <1>0, <1>p, Rest
<1>2. m.ref[p] = 0 /\ RefsIn(m, g, p) = {} /\ InFree(m, p)
  BY <1>1 DEF Sound, Owned, FreeOk, InFree
<1>3. /\ m2 \in Mem /\ m2.ref = m.ref /\ m2.free = Tail(m.free) /\ m2.tlb = m.tlb /\ m2.panic = m.panic
      /\ m2.tab = [m.tab EXCEPT ![p] = Blank]
  BY <1>m, <1>p, <1>0, AllocFields
<1>4. SameMap(m, m2, g) /\ SelfMaps(m2, g)
  BY <1>1, <1>2, <1>3, StoreUnused DEF Sound, SameMap
<1>5. Sound(m2, g) /\ \A q : Data(m, g, q) => Data(m2, g, q)
  BY <1>3, <1>4, Keep
<1>6. ~InFree(m2, p)
  <2>1. \A i \in DOMAIN m2.free : (i + 1) \in DOMAIN m.free /\ m2.free[i] = m.free[i + 1] /\ i + 1 # 1
    BY <1>0, <1>3, Rest
  <2> QED BY <2>1, <1>1 DEF Sound, Owned, FreeOk, InFree
<1>7. RefsIn(m2, g, p) = {}
  BY <1>2, <1>4, SameAims
<1>8. m2.tab[p] = Blank
  BY <1>1, <1>3, <1>0, Consts DEF Mem
<1>9. Data(m2, g, p)
  BY <1>1, <1>2, <1>3, <1>6, <1>7 DEF Data, RefsIn
<1>10. \A q : Data(m, g, q) => q # p
  BY <1>2 DEF Data
<1>11. Allocated(m, m2, g, p)
  BY <1>1, <1>2, <1>3, <1>4, <1>5, <1>6, <1>7, <1>8, <1>9, <1>10 DEF Allocated
<1> QED BY <1>3, <1>11, <1>m, <1>p

-----------------------------------------------------------------------------
(***************************************************************************)
(* page_remove.                                                            *)
(***************************************************************************)
\* What Aim says after one entry has changed.
LEMMA AimsButTable ==
  ASSUME NEW m, NEW m2, NEW g, NEW a \in ASIDs, NEW x \in UserX,
         \A b \in ASIDs, i \in UserX : ~(b = a /\ i = x) => T(m2, g, b, i) = T(m, g, b, i),
         \A b \in ASIDs, va \in UserVAs : V(m2, g, b, va) = V(m, g, b, va)
  PROVE  \A p \in Pointers : p # <<"table", a, x>> => Aim(m2, g, p) = Aim(m, g, p)
<1> SUFFICES ASSUME NEW p \in Pointers, p # <<"table", a, x>> PROVE Aim(m2, g, p) = Aim(m, g, p)
  OBVIOUS
<1>1. /\ p[2] \in ASIDs
      /\ \/ p[1] = "dir"
         \/ p[1] = "table" /\ p[3] \in UserX /\ p = <<"table", p[2], p[3]>>
         \/ p[1] = "page" /\ p[3] \in UserVAs
  BY Ptr
<1>2. CASE p[1] = "dir"
  BY <1>2 DEF Aim
<1>3. CASE p[1] = "table" /\ p[3] \in UserX /\ p = <<"table", p[2], p[3]>>
  <2>1. ~(p[2] = a /\ p[3] = x)
    BY <1>3
  <2> QED BY <2>1, <1>1, <1>3 DEF Aim
<1>4. CASE p[1] = "page" /\ p[3] \in UserVAs
  BY <1>1, <1>4 DEF Aim
<1> QED BY <1>1, <1>2, <1>3, <1>4

LEMMA AimsButPage ==
  ASSUME NEW m, NEW m2, NEW g, NEW a \in ASIDs, NEW va \in UserVAs,
         \A b \in ASIDs, i \in UserX : T(m2, g, b, i) = T(m, g, b, i),
         \A b \in ASIDs, w \in UserVAs : ~(b = a /\ w = va) => V(m2, g, b, w) = V(m, g, b, w)
  PROVE  \A p \in Pointers : p # <<"page", a, va>> => Aim(m2, g, p) = Aim(m, g, p)
<1> SUFFICES ASSUME NEW p \in Pointers, p # <<"page", a, va>> PROVE Aim(m2, g, p) = Aim(m, g, p)
  OBVIOUS
<1>1. /\ p[2] \in ASIDs
      /\ \/ p[1] = "dir"
         \/ p[1] = "table" /\ p[3] \in UserX
         \/ p[1] = "page" /\ p[3] \in UserVAs /\ p = <<"page", p[2], p[3]>>
  BY Ptr
<1>2. CASE p[1] = "dir"
  BY <1>2 DEF Aim
<1>3. CASE p[1] = "table" /\ p[3] \in UserX
  BY <1>1, <1>3 DEF Aim
<1>4. CASE p[1] = "page" /\ p[3] \in UserVAs /\ p = <<"page", p[2], p[3]>>
  <2>1. ~(p[2] = a /\ p[3] = va)
    BY <1>4
  <2> QED BY <2>1, <1>1, <1>4 DEF Aim
<1> QED BY <1>1, <1>2, <1>3, <1>4

\* The TLB stays coherent if every entry whose address changed is gone.
LEMMA StaysCoherent ==
  ASSUME NEW m, NEW g, m \in Mem, Coherent(m, g), NEW m2, NEW g2, m2.tlb \subseteq m.tlb,
         \A t \in m2.tlb : Seen(m, g, t.asid, t.va) # NIL =>
                             Seen(m2, g2, t.asid, t.va) = Seen(m, g, t.asid, t.va)
  PROVE  Coherent(m2, g2)
<1>1. \A t \in m2.tlb : t.pte # NIL /\ t.pte = Seen(m, g, t.asid, t.va)
  BY Consts DEF Mem, Entries, Coherent
<1> QED BY <1>1 DEF Coherent

\* page_decref of a page with references, field by field; then set_pte and incref.
LEMMA DecrefFields ==
  ASSUME NEW m \in Mem, NEW p \in FreePages, m.ref[p] # 0, NEW m2, m2 = page_decref(m, p)
  PROVE  /\ m2 \in Mem /\ m2.tab = m.tab /\ m2.tlb = m.tlb /\ m2.panic = m.panic
         /\ m2.ref = [m.ref EXCEPT ![p] = @ - 1]
         /\ m2.free = IF m.ref[p] = 1 THEN <<p>> \o m.free ELSE m.free
<1>1. p \in Pages /\ m.ref \in [Pages -> 0 .. RefMod - 1] /\ RefMod \in Nat /\ m.free \in Seq(FreePages)
  BY Consts DEF Mem
<1>2. <<p>> \o m.free \in Seq(FreePages)
  BY <1>1, Front
<1>3. [m.ref EXCEPT ![p] = @ - 1] \in [Pages -> 0 .. RefMod - 1]
  BY <1>1
<1> QED BY <1>1, <1>2, <1>3 DEF page_decref, Mem

LEMMA SetPteFields ==
  ASSUME NEW m, m \in Mem, NEW g, NEW a, NEW va, HasTable(m, g, a, va), NEW e, e \in Ptes \cup {NIL}
  PROVE  LET m2 == set_pte(m, g[a], va, e) IN
         /\ m2 \in Mem /\ m2.ref = m.ref /\ m2.free = m.free /\ m2.tlb = m.tlb /\ m2.panic = m.panic
         /\ Stored(m, m2, T(m, g, a, va[1]).pp, va[2], e)
<1> DEFINE m2 == set_pte(m, g[a], va, e)  q == T(m, g, a, va[1]).pp
<1>1. va[1] \in UserX /\ va[2] \in Idx /\ q \in Pages /\ g[a] # NIL
  BY UserVA, Consts DEF HasTable
<1>2. m2 = [m EXCEPT !.tab[q][va[2]] = e]
  BY <1>1 DEF set_pte, T
<1>3. [m.tab EXCEPT ![q][va[2]] = e] \in [Pages -> [Idx -> Ptes \cup {NIL}]]
  BY <1>1 DEF Mem
<1> HIDE DEF m2, q
<1>4. /\ m2 \in Mem /\ m2.ref = m.ref /\ m2.free = m.free /\ m2.tlb = m.tlb /\ m2.panic = m.panic
      /\ m2.tab = [m.tab EXCEPT ![q][va[2]] = e]
  BY <1>2, <1>3 DEF Mem
<1> QED BY <1>4 DEF m2, q, Stored

LEMMA IncrefFields ==
  ASSUME NEW m \in Mem, NEW p \in FreePages, NEW m2, m2 = incref(m, p)
  PROVE  /\ m2 \in Mem /\ m2.tab = m.tab /\ m2.free = m.free /\ m2.tlb = m.tlb /\ m2.panic = m.panic
         /\ m2.ref = [m.ref EXCEPT ![p] = (@ + 1) % RefMod]
<1>1. p \in Pages /\ m.ref \in [Pages -> 0 .. RefMod - 1] /\ RefMod \in Nat /\ RefMod >= 2
  BY Consts DEF Mem
<1>2. \A n \in Nat : (n + 1) % RefMod \in 0 .. RefMod - 1
  BY <1>1
<1>3. [m.ref EXCEPT ![p] = (@ + 1) % RefMod] \in [Pages -> 0 .. RefMod - 1]
  BY <1>1, <1>2
<1> QED BY <1>1, <1>3 DEF incref, Mem

\* page_remove: the mapping is gone, from the TLB as well, and nothing else is.
LEMMA Remove ==
  ASSUME NEW m, NEW g, Sound(m, g), NEW a \in ASIDs, g[a] # NIL, NEW va \in UserVAs,
         NEW m2, m2 = page_remove(m, g[a], a, va)
  PROVE  /\ Sound(m2, g) /\ m2.panic = m.panic /\ m2.tlb \subseteq m.tlb
         /\ OneMap(m, m2, g, a, va, NIL)
         /\ \A q : Data(m, g, q) /\ (V(m, g, a, va) = NIL \/ V(m, g, a, va).pp # q) => Data(m2, g, q)
<1>0. m \in Mem /\ Owned(m, g) /\ Typed(m, g) /\ SelfMaps(m, g) /\ Coherent(m, g)
  BY DEF Sound, Owned, Typed
<1>1. page_lookup(m, g[a], va) = V(m, g, a, va)
  BY Lookup
<1>2. CASE V(m, g, a, va) = NIL
  <2>1. m2 = m
    BY <1>1, <1>2 DEF page_remove
  <2>2. OneMap(m, m, g, a, va, NIL)
    BY <1>2 DEF OneMap
  <2> QED BY <2>1, <2>2, <1>2
<1>3. CASE V(m, g, a, va) # NIL
  <2> DEFINE p  == V(m, g, a, va).pp
             x0 == <<"page", a, va>>
             m1 == page_decref(m, p)
             n  == set_pte(m1, g[a], va, NIL)
  <2>1. p \in FreePages /\ p # NIL /\ x0 \in Pointers /\ Aim(m, g, x0) = p
    BY <1>0, <1>3, Types, PageAim, Consts
  <2>2. m.ref[p] # 0
    <3>1. x0 \in RefsIn(m, g, p)
      BY <2>1 DEF RefsIn
    <3>2. m.ref[p] = Cardinality(RefsIn(m, g, p))
      BY <3>1, <2>1, <1>0 DEF Owned, Counted
    <3> QED BY <3>1, <3>2, RefsFinite, FS_EmptySet
  <2>3. m2 = tlb_invalidate(n, a, va)
    BY <1>1, <1>3 DEF page_remove
  <2> HIDE DEF p, x0
  <2>4. /\ m1 \in Mem /\ m1.tab = m.tab /\ m1.tlb = m.tlb /\ m1.panic = m.panic
        /\ m1.ref = [m.ref EXCEPT ![p] = @ - 1]
        /\ m1.free = IF m.ref[p] = 1 THEN <<p>> \o m.free ELSE m.free
    BY <1>0, <2>1, <2>2, DecrefFields
  <2> HIDE DEF m1
  <2>5. T(m1, g, a, va[1]) = T(m, g, a, va[1]) /\ HasTable(m, g, a, va) /\ HasTable(m1, g, a, va)
    <3>1. T(m1, g, a, va[1]) = T(m, g, a, va[1])
      BY <2>4 DEF T
    <3>2. T(m, g, a, va[1]) # NIL
      BY <1>3 DEF V
    <3>3. T(m, g, a, va[1]).pp \in FreePages
      BY <3>2, <1>0, Types, UserVA
    <3> QED BY <3>1, <3>2, <3>3 DEF HasTable
  <2>n. n = set_pte(m1, g[a], va, NIL) /\ NIL \in Ptes \cup {NIL}
    OBVIOUS
  <2> HIDE DEF n
  <2>6. /\ n \in Mem /\ n.ref = m1.ref /\ n.free = m1.free /\ n.tlb = m1.tlb /\ n.panic = m1.panic
        /\ Stored(m1, n, T(m1, g, a, va[1]).pp, va[2], NIL)
    BY <2>4, <2>5, <2>n, SetPteFields
  <2>7. /\ m2 \in Mem /\ m2.ref = n.ref /\ m2.free = n.free /\ m2.tab = n.tab /\ m2.panic = n.panic
        /\ m2.tlb = {t \in n.tlb : ~(t.asid = a /\ t.va = va)}
    BY <2>3, <2>6 DEF tlb_invalidate, Mem
  <2>8. Stored(m, m2, T(m, g, a, va[1]).pp, va[2], NIL)
    BY <2>4, <2>5, <2>6, <2>7 DEF Stored
  <2>9. OneMap(m, m2, g, a, va, NIL) /\ SelfMaps(m2, g)
    BY <1>0, <2>5, <2>8, StoreTable
  <2>10. \A x \in Pointers : x # x0 => Aim(m2, g, x) = Aim(m, g, x)
    BY <2>9, AimsButPage, Consts DEF x0, OneMap
  <2>11. Aim(m2, g, x0) = NIL
    <3>1. V(m2, g, a, va) = NIL
      BY <2>9 DEF OneMap
    <3> QED BY <3>1, AimOf DEF x0, PageOf
  <2>12. Owned(m2, g) /\ \A q : q # p /\ Data(m, g, q) => Data(m2, g, q)
    <3>1. g \in Dirs
      BY <1>0 DEF Typed
    <3>2. m2.ref = [m.ref EXCEPT ![p] = @ - 1] /\ m2.free = IF m.ref[p] = 1 THEN <<p>> \o m.free ELSE m.free
      BY <2>4, <2>6, <2>7
    <3> QED BY <1>0, <2>1, <2>7, <2>10, <2>11, <3>1, <3>2, DropPtr
  <2>13. m2.tlb \subseteq m.tlb
    BY <2>4, <2>6, <2>7
  <2>14. Coherent(m2, g)
    <3>1. ASSUME NEW t \in m2.tlb PROVE Seen(m2, g, t.asid, t.va) = Seen(m, g, t.asid, t.va)
      <4>1. t.asid \in ASIDs /\ t.va \in VAs /\ ~(t.asid = a /\ t.va = va)
        BY <2>7 DEF Mem, Entries
      <4>2. t.va[1] \in Idx /\ t.va[2] \in Idx /\ (t.va[1] \in UserX => t.va \in UserVAs)
        BY <4>1 DEF VAs, UserVAs
      <4> QED BY <4>1, <4>2, <2>9 DEF Seen, OneMap
    <3> QED BY <1>0, <2>13, <3>1, StaysCoherent
  <2>15. m2.panic = m.panic
    BY <2>4, <2>6, <2>7
  <2> QED BY <2>9, <2>12, <2>13, <2>14, <2>15, <1>3 DEF Sound, p
<1> QED BY <1>2, <1>3

-----------------------------------------------------------------------------
(***************************************************************************)
(* A page that becomes a table, a page that is mapped, and a permission    *)
(* that changes.                                                           *)
(***************************************************************************)
\* A page becomes table x of a.
OneTab(m, m2, g, a, x, e) ==
  /\ \A b \in ASIDs, i \in Idx : T(m2, g, b, i) = IF b = a /\ i = x THEN e ELSE T(m, g, b, i)
  /\ \A b \in ASIDs, w \in UserVAs : V(m2, g, b, w) = V(m, g, b, w)

TableAt(m, m2, g, a, x, p) ==
  /\ m2 \in Mem /\ m2.free = m.free /\ m2.ref = [m.ref EXCEPT ![p] = (@ + 1) % RefMod]
  /\ m2.tlb \subseteq m.tlb /\ Stored(m, m2, g[a], x, [pp |-> p, perm |-> "D"])

LEMMA AddTable ==
  ASSUME NEW m, NEW g, Sound(m, g), NEW a, a \in ASIDs, g[a] # NIL, NEW x, x \in UserX, T(m, g, a, x) = NIL,
         NEW p, Data(m, g, p), RefsIn(m, g, p) = {}, m.tab[p] = Blank,
         NEW m2, TableAt(m, m2, g, a, x, p)
  PROVE  /\ Sound(m2, g) /\ OneTab(m, m2, g, a, x, [pp |-> p, perm |-> "D"])
         /\ \A q : q # p /\ Data(m, g, q) => Data(m2, g, q)
<1> DEFINE e == [pp |-> p, perm |-> "D"]  x0 == <<"table", a, x>>
<1>0. m \in Mem /\ g \in Dirs /\ Owned(m, g) /\ Typed(m, g) /\ SelfMaps(m, g) /\ Coherent(m, g)
  BY DEF Sound, Owned, Typed
<1>z. a \in ASIDs /\ x \in UserX
  OBVIOUS
<1>t. /\ m2 \in Mem /\ m2.free = m.free /\ m2.ref = [m.ref EXCEPT ![p] = (@ + 1) % RefMod]
      /\ m2.tlb \subseteq m.tlb /\ Stored(m, m2, g[a], x, [pp |-> p, perm |-> "D"])
  BY DEF TableAt
<1>1. p \in FreePages /\ p \in Pages /\ p # NIL
  BY Consts DEF Data
<1>2. e \in Ptes /\ e # NIL /\ e.pp = p
  BY <1>1, Consts DEF Ptes, Perms
<1>3. p # g[a]
  <2>1. <<"dir", a>> \in Pointers /\ Aim(m, g, <<"dir", a>>) = g[a]
    BY AimOf
  <2> QED BY <2>1 DEF RefsIn
<1> HIDE DEF e
<1>s. Stored(m, m2, g[a], x, e)
  BY <1>t DEF e
<1>4. /\ \A b \in ASIDs, i \in Idx : T(m2, g, b, i) = IF b = a /\ i = x THEN e ELSE T(m, g, b, i)
      /\ \A b \in ASIDs, va \in UserVAs :
           V(m2, g, b, va) = IF b = a /\ va[1] = x THEN IF e = NIL THEN NIL ELSE m.tab[e.pp][va[2]]
                             ELSE V(m, g, b, va)
      /\ SelfMaps(m2, g)
  BY <1>0, <1>2, <1>3, <1>s, StoreDir
<1>5. ASSUME NEW b \in ASIDs, NEW va \in UserVAs PROVE V(m2, g, b, va) = V(m, g, b, va)
  <2>1. CASE b = a /\ va[1] = x
    <3>1. V(m2, g, b, va) = Blank[va[2]] /\ va[2] \in Idx
      BY <2>1, <1>2, <1>4, UserVA
    <3>2. V(m, g, b, va) = NIL
      BY <2>1 DEF V
    <3> QED BY <3>1, <3>2 DEF Blank
  <2>2. CASE ~(b = a /\ va[1] = x)
    BY <2>2, <1>4
  <2> QED BY <2>1, <2>2
<1>6. OneTab(m, m2, g, a, x, e)
  BY <1>4, <1>5 DEF OneTab
<1>7. \A y \in Pointers : y # x0 => Aim(m2, g, y) = Aim(m, g, y)
  BY <1>4, <1>5, AimsButTable, Consts
<1>8. x0 \in Pointers /\ Aim(m, g, x0) = NIL /\ Aim(m2, g, x0) = p
  <2>1. x0 \in Pointers /\ Aim(m, g, x0) = PageOf(T(m, g, a, x))
    BY ONLY <1>z, AimOf
  <2>3. Aim(m2, g, x0) = PageOf(T(m2, g, a, x))
    BY ONLY <1>z, AimOf
  <2>2. T(m2, g, a, x) = e
    BY <1>4, Consts
  <2> QED BY <2>1, <2>2, <2>3, <1>2 DEF PageOf
<1> HIDE DEF x0
<1>9. Cardinality(RefsIn(m2, g, p)) < RefMod
  <2>1. RefsIn(m2, g, p) = {x0}
    BY <1>7, <1>8 DEF RefsIn
  <2>2. Cardinality({x0}) = 1
    BY FS_Singleton
  <2> QED BY <2>1, <2>2, Consts
<1>10. Owned(m2, g) /\ \A q : q # p /\ Data(m, g, q) => Data(m2, g, q)
  BY <1>0, <1>t, <1>7, <1>8, <1>9, AddPtr
<1>11. Coherent(m2, g)
  <2>1. ASSUME NEW t \in m2.tlb, Seen(m, g, t.asid, t.va) # NIL
        PROVE  Seen(m2, g, t.asid, t.va) = Seen(m, g, t.asid, t.va)
    <3>1. t.asid \in ASIDs /\ t.va \in VAs
      BY <1>t DEF Mem, Entries
    <3>2. t.va[1] \in Idx /\ t.va[2] \in Idx /\ (t.va[1] \in UserX => t.va \in UserVAs)
      BY <3>1 DEF VAs, UserVAs
    <3>3. t.va[1] \notin UserX /\ t.va[1] # UENVS /\ t.va[2] \in UserX => ~(t.asid = a /\ t.va[2] = x)
      BY <2>1 DEF Seen
    <3> QED BY <3>1, <3>2, <3>3, <1>4, <1>5 DEF Seen
  <2> QED BY <1>0, <1>t, <2>1, StaysCoherent
<1> QED BY <1>4, <1>6, <1>10, <1>11 DEF Sound, e

\* A page is mapped at va, where nothing was.
PageAt(m, m2, g, a, va, p, perm) ==
  /\ m2 \in Mem /\ m2.free = m.free /\ m2.ref = [m.ref EXCEPT ![p] = (@ + 1) % RefMod]
  /\ m2.tlb \subseteq m.tlb /\ Stored(m, m2, T(m, g, a, va[1]).pp, va[2], [pp |-> p, perm |-> perm])
  /\ Cardinality(RefsIn(m2, g, p)) < RefMod

LEMMA AddPage ==
  ASSUME NEW m, NEW g, Sound(m, g), NEW a, NEW va, HasTable(m, g, a, va), V(m, g, a, va) = NIL,
         NEW p, Data(m, g, p), NEW perm, perm \in Perms,
         NEW m2, PageAt(m, m2, g, a, va, p, perm)
  PROVE  Sound(m2, g) /\ OneMap(m, m2, g, a, va, [pp |-> p, perm |-> perm])
<1> DEFINE e == [pp |-> p, perm |-> perm]  x0 == <<"page", a, va>>
<1>0. /\ m \in Mem /\ g \in Dirs /\ Owned(m, g) /\ Typed(m, g) /\ SelfMaps(m, g) /\ Coherent(m, g)
      /\ a \in ASIDs /\ va \in UserVAs
  BY DEF Sound, Owned, Typed, HasTable
<1>t. /\ m2 \in Mem /\ m2.free = m.free /\ m2.ref = [m.ref EXCEPT ![p] = (@ + 1) % RefMod]
      /\ m2.tlb \subseteq m.tlb /\ Stored(m, m2, T(m, g, a, va[1]).pp, va[2], [pp |-> p, perm |-> perm])
      /\ Cardinality(RefsIn(m2, g, p)) < RefMod
  BY DEF PageAt
<1>1. p \in FreePages /\ p \in Pages /\ p # NIL
  BY Consts DEF Data
<1>2. e \in Ptes /\ e # NIL /\ e.pp = p
  BY <1>1, Consts DEF Ptes
<1> HIDE DEF e
<1>s. Stored(m, m2, T(m, g, a, va[1]).pp, va[2], e)
  BY <1>t DEF e
<1>4. OneMap(m, m2, g, a, va, e) /\ SelfMaps(m2, g)
  BY <1>0, <1>s, StoreTable
<1>7. \A y \in Pointers : y # x0 => Aim(m2, g, y) = Aim(m, g, y)
  BY <1>0, <1>4, AimsButPage, Consts DEF OneMap
<1>8. x0 \in Pointers /\ x0[1] = "page" /\ Aim(m, g, x0) = NIL /\ Aim(m2, g, x0) = p
  <2>1. x0 \in Pointers /\ Aim(m, g, x0) = PageOf(V(m, g, a, va))
    BY ONLY <1>0, AimOf
  <2>3. Aim(m2, g, x0) = PageOf(V(m2, g, a, va))
    BY ONLY <1>0, AimOf
  <2>2. V(m2, g, a, va) = e
    BY <1>0, <1>4 DEF OneMap
  <2> QED BY <2>1, <2>2, <2>3, <1>2 DEF PageOf
<1> HIDE DEF x0
<1>10. Owned(m2, g)
  BY <1>0, <1>t, <1>7, <1>8, AddPtr
<1>11. Coherent(m2, g)
  <2>1. ASSUME NEW t \in m2.tlb, Seen(m, g, t.asid, t.va) # NIL
        PROVE  Seen(m2, g, t.asid, t.va) = Seen(m, g, t.asid, t.va)
    <3>1. t.asid \in ASIDs /\ t.va \in VAs
      BY <1>t DEF Mem, Entries
    <3>2. t.va[1] \in Idx /\ t.va[2] \in Idx /\ (t.va[1] \in UserX => t.va \in UserVAs)
      BY <3>1 DEF VAs, UserVAs
    <3>3. t.va[1] \in UserX => ~(t.asid = a /\ t.va = va)
      BY <2>1 DEF Seen
    <3> QED BY <3>1, <3>2, <3>3, <1>4 DEF Seen, OneMap
  <2> QED BY <1>0, <1>t, <2>1, StaysCoherent
<1> QED BY <1>4, <1>10, <1>11 DEF Sound, e

\* The permission of a mapping changes.
PermAt(m, m2, g, a, va, p, perm) ==
  /\ m2 \in Mem /\ m2.free = m.free /\ m2.ref = m.ref
  /\ m2.tlb \subseteq m.tlb /\ Stored(m, m2, T(m, g, a, va[1]).pp, va[2], [pp |-> p, perm |-> perm])
  /\ \A t \in m2.tlb : ~(t.asid = a /\ t.va = va)

LEMMA SamePage ==
  ASSUME NEW m, NEW g, Sound(m, g), NEW a, NEW va, HasTable(m, g, a, va), V(m, g, a, va) # NIL,
         NEW p, V(m, g, a, va).pp = p, NEW perm, perm \in Perms,
         NEW m2, PermAt(m, m2, g, a, va, p, perm)
  PROVE  Sound(m2, g) /\ OneMap(m, m2, g, a, va, [pp |-> p, perm |-> perm])
<1> DEFINE e == [pp |-> p, perm |-> perm]  x0 == <<"page", a, va>>
<1>0. /\ m \in Mem /\ g \in Dirs /\ Owned(m, g) /\ Typed(m, g) /\ SelfMaps(m, g) /\ Coherent(m, g)
      /\ a \in ASIDs /\ va \in UserVAs
  BY DEF Sound, Owned, Typed, HasTable
<1>t. /\ m2 \in Mem /\ m2.free = m.free /\ m2.ref = m.ref
      /\ m2.tlb \subseteq m.tlb /\ Stored(m, m2, T(m, g, a, va[1]).pp, va[2], [pp |-> p, perm |-> perm])
      /\ \A t \in m2.tlb : ~(t.asid = a /\ t.va = va)
  BY DEF PermAt
<1>1. p \in FreePages /\ p \in Pages /\ p # NIL
  BY <1>0, Types, Consts
<1>2. e \in Ptes /\ e # NIL /\ e.pp = p
  BY <1>1, Consts DEF Ptes
<1> HIDE DEF e
<1>s. Stored(m, m2, T(m, g, a, va[1]).pp, va[2], e)
  BY <1>t DEF e
<1>4. OneMap(m, m2, g, a, va, e) /\ SelfMaps(m2, g)
  BY <1>0, <1>s, StoreTable
<1>7. \A y \in Pointers : y # x0 => Aim(m2, g, y) = Aim(m, g, y)
  BY <1>0, <1>4, AimsButPage, Consts DEF OneMap
<1>8. Aim(m, g, x0) = p /\ Aim(m2, g, x0) = p
  <2>1. Aim(m, g, x0) = PageOf(V(m, g, a, va)) /\ Aim(m2, g, x0) = PageOf(V(m2, g, a, va))
    BY ONLY <1>0, AimOf
  <2>2. V(m2, g, a, va) = e
    BY <1>0, <1>4 DEF OneMap
  <2> QED BY <2>1, <2>2, <1>2 DEF PageOf
<1> HIDE DEF x0
<1>9. \A y \in Pointers : Aim(m2, g, y) = Aim(m, g, y)
  BY <1>7, <1>8
<1>10. Owned(m2, g)
  BY <1>0, <1>t, <1>9 DEF Owned, Typed, Private, Counted, FreeOk, RefsIn
<1>11. Coherent(m2, g)
  <2>1. ASSUME NEW t \in m2.tlb PROVE Seen(m2, g, t.asid, t.va) = Seen(m, g, t.asid, t.va)
    <3>1. t.asid \in ASIDs /\ t.va \in VAs
      BY <1>t DEF Mem, Entries
    <3>2. t.va[1] \in Idx /\ t.va[2] \in Idx /\ (t.va[1] \in UserX => t.va \in UserVAs)
      BY <3>1 DEF VAs, UserVAs
    <3> QED BY <1>t, <3>1, <3>2, <1>4 DEF Seen, OneMap
  <2> QED BY <1>0, <1>t, <2>1, StaysCoherent
<1> QED BY <1>4, <1>10, <1>11 DEF Sound, e

-----------------------------------------------------------------------------
(***************************************************************************)
(* pgdir_walk, and set_pte where nothing was mapped.                       *)
(***************************************************************************)
\* FewRefs, of a memory.
Few(m, g) == \A p \in FreePages : Cardinality(RefsIn(m, g, p)) < RefMod

\* A store into a directory keeps the type of the memory.
LEMMA DirFields ==
  ASSUME NEW m, m \in Mem, NEW q, q \in Pages, NEW x, x \in Idx, NEW e, e \in Ptes \cup {NIL}
  PROVE  LET m2 == [m EXCEPT !.tab[q][x] = e] IN
         /\ m2 \in Mem /\ m2.ref = m.ref /\ m2.free = m.free /\ m2.tlb = m.tlb /\ m2.panic = m.panic
         /\ Stored(m, m2, q, x, e)
<1> DEFINE m2 == [m EXCEPT !.tab[q][x] = e]
<1>1. [m.tab EXCEPT ![q][x] = e] \in [Pages -> [Idx -> Ptes \cup {NIL}]]
  BY DEF Mem
<1>2. m2 = [m EXCEPT !.tab = [m.tab EXCEPT ![q][x] = e]]
  OBVIOUS
<1> HIDE DEF m2
<1>4. /\ m2 \in Mem /\ m2.ref = m.ref /\ m2.free = m.free /\ m2.tlb = m.tlb /\ m2.panic = m.panic
      /\ m2.tab = [m.tab EXCEPT ![q][x] = e]
  BY <1>1, <1>2 DEF Mem
<1> QED BY <1>4 DEF m2, Stored

\* pgdir_walk: afterwards the table is there, and no user mapping has changed.
LEMMA Walk ==
  ASSUME NEW m, NEW g, Sound(m, g), NEW a, a \in ASIDs, g[a] # NIL, NEW va, va \in UserVAs,
         can_walk(m, g[a], va), NEW m2, m2 = pgdir_walk(m, g[a], va)
  PROVE  /\ Sound(m2, g) /\ HasTable(m2, g, a, va) /\ m2.panic = m.panic /\ m2.tlb = m.tlb
         /\ \A b \in ASIDs, w \in UserVAs : V(m2, g, b, w) = V(m, g, b, w)
         /\ \A q : Data(m, g, q) => Data(m2, g, q)
<1>x. PICK x \in UserX : x = va[1]
  BY UserVA
<1>0. m \in Mem /\ Owned(m, g) /\ Typed(m, g) /\ x \in UserX /\ x \in Idx /\ m.tab[g[a]][x] = T(m, g, a, x)
  BY <1>x, UserVA, Lookup DEF Sound, Owned, Typed
<1>1. CASE T(m, g, a, x) # NIL
  <2>1. m2 = m
    BY <1>x, <1>0, <1>1 DEF pgdir_walk
  <2>2. HasTable(m, g, a, va)
    BY <1>x, <1>0, <1>1, Types DEF HasTable
  <2> QED BY <2>1, <2>2
<1>2. CASE T(m, g, a, x) = NIL
  <2> DEFINE p  == Head(m.free)
             m1 == page_alloc(m)
             e  == [pp |-> p, perm |-> "D"]
             n  == [m1 EXCEPT !.tab[g[a]][x] = e]
  <2>1. m.free # <<>> /\ m2 = incref(n, p)
    BY <1>x, <1>0, <1>2 DEF can_walk, pgdir_walk
  <2>d. p = Head(m.free) /\ m1 = page_alloc(m)
    OBVIOUS
  <2> HIDE DEF p, m1
  <2>2. Allocated(m, m1, g, p)
    BY <2>1, <2>d, Alloc
  <2>3. g[a] \in Pages /\ m1 \in Mem /\ e \in Ptes /\ e # NIL
    BY <1>0, <2>2, Types, Consts DEF Allocated, Sound, Owned, Typed, Ptes, Perms
  <2> HIDE DEF e
  <2>4. /\ n \in Mem /\ n.ref = m1.ref /\ n.free = m1.free /\ n.tlb = m1.tlb /\ n.panic = m1.panic
        /\ Stored(m1, n, g[a], x, e)
    BY <1>0, <2>3, DirFields
  <2> HIDE DEF n
  <2>5. /\ m2 \in Mem /\ m2.tab = n.tab /\ m2.free = n.free /\ m2.tlb = n.tlb /\ m2.panic = n.panic
        /\ m2.ref = [n.ref EXCEPT ![p] = (@ + 1) % RefMod]
    BY <2>1, <2>2, <2>4, IncrefFields DEF Allocated
  <2>6. T(m1, g, a, x) = NIL
    BY <1>0, <1>2, <2>2 DEF SameMap, Allocated
  <2>7. TableAt(m1, m2, g, a, x, p)
    BY <2>4, <2>5 DEF Stored, e, TableAt
  <2>8. /\ Sound(m2, g) /\ OneTab(m1, m2, g, a, x, [pp |-> p, perm |-> "D"])
        /\ \A q : q # p /\ Data(m1, g, q) => Data(m2, g, q)
    <3>1. a \in ASIDs /\ g[a] # NIL
      OBVIOUS
    <3>2. Sound(m1, g) /\ Data(m1, g, p) /\ RefsIn(m1, g, p) = {} /\ m1.tab[p] = Blank /\ x \in UserX
      BY <2>2 DEF Allocated
    <3> QED BY ONLY <3>1, <3>2, <2>6, <2>7, AddTable
  <2>9. HasTable(m2, g, a, va)
    <3>1. T(m2, g, a, x) = [pp |-> p, perm |-> "D"]
      BY <1>0, <2>8 DEF OneTab
    <3>2. T(m2, g, a, x) # NIL
      BY <3>1, <2>3 DEF e
    <3> QED BY <1>x, <3>1, <3>2, <2>2 DEF HasTable, Allocated
  <2>10. \A b \in ASIDs, w \in UserVAs : V(m2, g, b, w) = V(m, g, b, w)
    BY <2>2, <2>8 DEF OneTab, SameMap, Allocated
  <2>11. m2.panic = m.panic /\ m2.tlb = m.tlb
    BY <2>2, <2>4, <2>5 DEF Allocated
  <2> QED BY <2>2, <2>8, <2>9, <2>10, <2>11 DEF Allocated
<1> QED BY <1>1, <1>2

\* set_pte and incref, where va was not mapped.
LEMMA SetNew ==
  ASSUME NEW m, NEW g, Sound(m, g), NEW a, NEW va, HasTable(m, g, a, va), V(m, g, a, va) = NIL,
         NEW p, Data(m, g, p), NEW perm, perm \in Perms,
         NEW m2, m2 = incref(set_pte(m, g[a], va, [pp |-> p, perm |-> perm]), p), Few(m2, g)
  PROVE  /\ Sound(m2, g) /\ OneMap(m, m2, g, a, va, [pp |-> p, perm |-> perm])
         /\ m2.panic = m.panic /\ m2.tlb = m.tlb
<1> DEFINE e == [pp |-> p, perm |-> perm]
           n == set_pte(m, g[a], va, e)
<1>1. m \in Mem /\ p \in FreePages /\ e \in Ptes \cup {NIL}
  BY Consts DEF Sound, Owned, Typed, Data, Ptes
<1> HIDE DEF e
<1>2. /\ n \in Mem /\ n.ref = m.ref /\ n.free = m.free /\ n.tlb = m.tlb /\ n.panic = m.panic
      /\ Stored(m, n, T(m, g, a, va[1]).pp, va[2], e)
  BY <1>1, SetPteFields
<1>3. m2 = incref(n, p)
  BY DEF e
<1> HIDE DEF n
<1>4. /\ m2 \in Mem /\ m2.tab = n.tab /\ m2.free = n.free /\ m2.tlb = n.tlb /\ m2.panic = n.panic
      /\ m2.ref = [n.ref EXCEPT ![p] = (@ + 1) % RefMod]
  BY <1>1, <1>2, <1>3, IncrefFields
<1>5. PageAt(m, m2, g, a, va, p, perm)
  <2>1. Cardinality(RefsIn(m2, g, p)) < RefMod
    BY <1>1 DEF Few
  <2> QED BY <2>1, <1>2, <1>4 DEF Stored, e, PageAt
<1>7. Sound(m, g) /\ HasTable(m, g, a, va) /\ V(m, g, a, va) = NIL /\ Data(m, g, p) /\ perm \in Perms
  OBVIOUS
<1>8. Sound(m2, g) /\ OneMap(m, m2, g, a, va, [pp |-> p, perm |-> perm])
  BY ONLY <1>5, <1>7, AddPage
<1> QED BY <1>2, <1>4, <1>8

-----------------------------------------------------------------------------
(***************************************************************************)
(* page_insert, and how many mappings a step changes.                      *)
(***************************************************************************)
\* From m to m2 the mapping of va in a may change, and no other does.
Only(m, m2, g, a, va) ==
  /\ m2.panic = m.panic /\ m2.tlb \subseteq m.tlb
  /\ \A b \in ASIDs, w \in UserVAs : ~(b = a /\ w = va) => V(m2, g, b, w) = V(m, g, b, w)

\* The live mappings that differ between two memories.
Touched(m, g, m2, g2) == {x \in ASIDs \X UserVAs : /\ g[x[1]] # NIL /\ g2[x[1]] # NIL
                                                   /\ V(m2, g2, x[1], x[2]) # V(m, g, x[1], x[2])}
AtMostOne(m, g, m2, g2) == \E y : Touched(m, g, m2, g2) \subseteq {y}

LEMMA OnlyOne ==
  ASSUME NEW m, NEW g, NEW m2, NEW a, NEW va, Only(m, m2, g, a, va)
  PROVE  AtMostOne(m, g, m2, g)
<1>1. Touched(m, g, m2, g) \subseteq {<<a, va>>}
  <2>1. ASSUME NEW x \in Touched(m, g, m2, g) PROVE x = <<a, va>>
    <3>1. x \in ASIDs \X UserVAs /\ V(m2, g, x[1], x[2]) # V(m, g, x[1], x[2])
      BY <2>1 DEF Touched
    <3>2. x[1] = a /\ x[2] = va
      BY <3>1 DEF Only
    <3> QED BY <3>1, <3>2
  <2> QED BY <2>1
<1> QED BY <1>1 DEF AtMostOne

LEMMA Untouched ==
  ASSUME NEW m, NEW g, NEW m2, NEW g2,
         \A b \in ASIDs, w \in UserVAs : g[b] # NIL /\ g2[b] # NIL => V(m2, g2, b, w) = V(m, g, b, w)
  PROVE  AtMostOne(m, g, m2, g2)
<1>1. Touched(m, g, m2, g2) = {}
  BY DEF Touched
<1> QED BY <1>1 DEF AtMostOne

\* What page_insert starts from.
CanInsert(m, g, a, p, va, perm) ==
  /\ Sound(m, g) /\ a \in ASIDs /\ g[a] # NIL /\ va \in UserVAs /\ Data(m, g, p) /\ perm \in Perms

\* page_insert on any page that is data: at most the mapping at va changes. This is
\* also where a page is replaced, and may be freed, before the table is looked for.
LEMMA Insert ==
  ASSUME NEW m, NEW g, NEW a, NEW p, NEW va, NEW perm, CanInsert(m, g, a, p, va, perm),
         NEW r, r = page_insert(m, g[a], a, p, va, perm), Few(r, g)
  PROVE  /\ Sound(r, g) /\ Only(m, r, g, a, va)
         /\ V(m, g, a, va) = NIL /\ can_walk(m, g[a], va) => V(r, g, a, va) = [pp |-> p, perm |-> perm]
<1>0. Sound(m, g) /\ a \in ASIDs /\ g[a] # NIL /\ va \in UserVAs /\ Data(m, g, p) /\ perm \in Perms
  BY DEF CanInsert
<1>old. page_lookup(m, g[a], va) = V(m, g, a, va)
  BY <1>0, Lookup
<1>1. CASE V(m, g, a, va) # NIL /\ V(m, g, a, va).pp = p
  <2> DEFINE m2 == tlb_invalidate(m, a, va)
             e  == [pp |-> p, perm |-> perm]
  <2>1. r = set_pte(m2, g[a], va, e)
    BY <1>1, <1>old DEF page_insert
  <2>d. m2 = tlb_invalidate(m, a, va)
    OBVIOUS
  <2> HIDE DEF m2
  <2>2. /\ Sound(m2, g) /\ SameMap(m, m2, g) /\ m2.panic = m.panic
        /\ m2.tlb = {t \in m.tlb : ~(t.asid = a /\ t.va = va)}
    BY <1>0, <2>d, Invalidate
  <2>3. m2 \in Mem /\ Typed(m2, g) /\ e \in Ptes \cup {NIL}
    BY <1>0, <2>2, Consts DEF Sound, Owned, Typed, Data, Ptes
  <2> HIDE DEF e
  <2>4. V(m2, g, a, va) # NIL /\ V(m2, g, a, va).pp = p
    BY <1>0, <1>1, <2>2 DEF SameMap
  <2>5. HasTable(m2, g, a, va)
    <3>1. T(m2, g, a, va[1]) # NIL
      BY <2>4 DEF V
    <3> QED BY <3>1, <1>0, <2>3, Types, UserVA DEF HasTable
  <2>6. /\ r \in Mem /\ r.ref = m2.ref /\ r.free = m2.free /\ r.tlb = m2.tlb /\ r.panic = m2.panic
        /\ Stored(m2, r, T(m2, g, a, va[1]).pp, va[2], e)
    BY <2>1, <2>3, <2>5, SetPteFields
  <2>7. PermAt(m2, r, g, a, va, p, perm)
    BY <2>2, <2>6 DEF PermAt, e
  <2>8. Sound(r, g) /\ OneMap(m2, r, g, a, va, [pp |-> p, perm |-> perm])
    BY <1>0, <2>2, <2>4, <2>5, <2>7, SamePage
  <2>9. Only(m, r, g, a, va)
    BY <2>2, <2>6, <2>8 DEF Only, OneMap, SameMap
  <2> QED BY <1>1, <2>8, <2>9
<1>2. CASE ~(V(m, g, a, va) # NIL /\ V(m, g, a, va).pp = p)
  <2> DEFINE m1 == IF V(m, g, a, va) # NIL /\ V(m, g, a, va).pp # p THEN page_remove(m, g[a], a, va) ELSE m
             m2 == tlb_invalidate(m1, a, va)
             e  == [pp |-> p, perm |-> perm]
  <2>1. r = IF can_walk(m2, g[a], va) THEN incref(set_pte(pgdir_walk(m2, g[a], va), g[a], va, e), p) ELSE m2
    BY <1>2, <1>old DEF page_insert
  <2>2. /\ Sound(m1, g) /\ m1.panic = m.panic /\ m1.tlb \subseteq m.tlb
        /\ OneMap(m, m1, g, a, va, NIL) /\ Data(m1, g, p)
    <3>1. CASE V(m, g, a, va) # NIL
      <4>1. m1 = page_remove(m, g[a], a, va)
        BY <3>1, <1>2
      <4> HIDE DEF m1
      <4> QED BY <4>1, <1>0, <1>2, <3>1, Remove
    <3>2. CASE V(m, g, a, va) = NIL
      BY <3>2, <1>0 DEF OneMap
    <3> QED BY <3>1, <3>2
  <2>3. V(m, g, a, va) = NIL => m1 = m
    OBVIOUS
  <2>d. m2 = tlb_invalidate(m1, a, va)
    OBVIOUS
  <2> HIDE DEF m1, m2
  <2>4. /\ Sound(m2, g) /\ SameMap(m1, m2, g) /\ m2.panic = m.panic /\ m2.tlb \subseteq m.tlb /\ Data(m2, g, p)
        /\ m2.free = m1.free /\ m2.tab = m1.tab
    BY <2>2, <2>d, Invalidate
  <2>5. V(m2, g, a, va) = NIL /\ Only(m, m2, g, a, va)
    BY <1>0, <2>2, <2>4 DEF OneMap, SameMap, Only
  <2>6. CASE can_walk(m2, g[a], va)
    <3> DEFINE w == pgdir_walk(m2, g[a], va)
    <3>1. r = incref(set_pte(w, g[a], va, e), p)
      BY <2>1, <2>6
    <3>d. w = pgdir_walk(m2, g[a], va)
      OBVIOUS
    <3> HIDE DEF w
    <3>2. /\ Sound(w, g) /\ HasTable(w, g, a, va) /\ w.panic = m2.panic /\ w.tlb = m2.tlb /\ Data(w, g, p)
          /\ \A b \in ASIDs, v \in UserVAs : V(w, g, b, v) = V(m2, g, b, v)
      BY <1>0, <2>4, <2>6, <3>d, Walk
    <3>3. V(w, g, a, va) = NIL
      BY <1>0, <2>5, <3>2
    <3>4. /\ Sound(r, g) /\ OneMap(w, r, g, a, va, [pp |-> p, perm |-> perm])
          /\ r.panic = w.panic /\ r.tlb = w.tlb
      BY <1>0, <3>1, <3>2, <3>3, SetNew
    <3>5. Only(m, r, g, a, va)
      BY <2>5, <3>2, <3>4 DEF Only, OneMap
    <3>6. V(r, g, a, va) = [pp |-> p, perm |-> perm]
      BY <1>0, <3>4 DEF OneMap
    <3> QED BY <3>4, <3>5, <3>6
  <2>7. CASE ~can_walk(m2, g[a], va)
    <3>1. r = m2
      BY <2>1, <2>7
    <3>2. ~(V(m, g, a, va) = NIL /\ can_walk(m, g[a], va))
      BY <2>3, <2>4, <2>7 DEF can_walk
    <3> QED BY <3>1, <3>2, <2>4, <2>5
  <2> QED BY <2>6, <2>7
<1> QED BY <1>1, <1>2

-----------------------------------------------------------------------------
(***************************************************************************)
(* passive_alloc and do_tlb_refill.                                        *)
(***************************************************************************)
\* An environment reads at any address what Seen says.
LEMMA LookupSeen ==
  ASSUME NEW m, NEW g, Sound(m, g), NEW a \in ASIDs, g[a] # NIL, NEW va \in VAs
  PROVE  page_lookup(m, g[a], va) = Seen(m, g, a, va)
<1>1. va[1] \in Idx /\ va[2] \in Idx
  BY DEF VAs
<1>2. /\ m.tab[BASE] = BaseTab
      /\ m.tab[g[a]][UENVS] = [pp |-> BASE, perm |-> "R"]
      /\ m.tab[g[a]][UVPT] = [pp |-> g[a], perm |-> "R"]
  BY DEF Sound, SelfMaps
<1>3. g[a] \in Pages /\ m.tab \in [Pages -> [Idx -> Ptes \cup {NIL}]]
  BY Types, Consts DEF Sound, Owned, Typed, Mem
<1>4. [pp |-> BASE, perm |-> "R"] # NIL /\ [pp |-> g[a], perm |-> "R"] # NIL
  BY <1>3, Consts DEF Ptes, Perms
<1>5. CASE va[1] \in UserX
  BY <1>5, Lookup DEF Seen
<1>6. CASE va[1] = UENVS
  BY <1>2, <1>4, <1>6, Consts DEF Seen, page_lookup
<1>7. CASE va[1] = UVPT
  <2>1. page_lookup(m, g[a], va) = m.tab[g[a]][va[2]]
    BY <1>2, <1>4, <1>7 DEF page_lookup
  <2>2. m.tab[g[a]][va[2]] = T(m, g, a, va[2])
    BY DEF T
  <2> QED BY <1>1, <1>2, <1>7, <2>1, <2>2, Consts DEF Seen
<1> QED BY <1>1, <1>5, <1>6, <1>7, Consts

\* What a handler keeps when it is done: it has panicked at most for want of
\* memory or at an address that is not to be used.
Good(m, m2, g2) ==
  Sound(m2, g2) /\ m2.tlb \subseteq m.tlb /\ m2.panic \in {m.panic, "bad access", "out of memory"}

\* A page becomes a table by an access to the address at which the table is seen.
LEMMA InsertTable ==
  ASSUME NEW m, NEW g, Sound(m, g), NEW a, a \in ASIDs, g[a] # NIL, NEW x, x \in UserX, T(m, g, a, x) = NIL,
         NEW p, Data(m, g, p), RefsIn(m, g, p) = {}, m.tab[p] = Blank,
         NEW r, r = page_insert(m, g[a], a, p, <<UVPT, x>>, "D")
  PROVE  /\ Sound(r, g) /\ r.panic = m.panic /\ r.tlb \subseteq m.tlb
         /\ OneTab(m, r, g, a, x, [pp |-> p, perm |-> "D"])
<1> DEFINE va == <<UVPT, x>>
           m2 == tlb_invalidate(m, a, va)
           e  == [pp |-> p, perm |-> "D"]
           n  == set_pte(m2, g[a], va, e)
<1>1. va \in VAs /\ va[1] = UVPT /\ va[2] = x /\ x \in Idx
  BY Consts DEF VAs
<1>2. page_lookup(m, g[a], va) = NIL
  <2>1. page_lookup(m, g[a], va) = Seen(m, g, a, va)
    BY <1>1, LookupSeen
  <2>2. Seen(m, g, a, va) = T(m, g, a, x)
    BY <1>1, Consts DEF Seen
  <2> QED BY <2>1, <2>2
<1>d. m2 = tlb_invalidate(m, a, va) /\ n = set_pte(m2, g[a], va, e)
  OBVIOUS
<1>r. r = IF can_walk(m2, g[a], va) THEN incref(set_pte(pgdir_walk(m2, g[a], va), g[a], va, e), p) ELSE m2
  BY <1>2 DEF page_insert
<1> HIDE DEF m2, n
<1>3. /\ Sound(m2, g) /\ SameMap(m, m2, g) /\ m2.ref = m.ref /\ m2.free = m.free /\ m2.tab = m.tab
      /\ m2.panic = m.panic /\ m2.tlb \subseteq m.tlb /\ Data(m2, g, p)
  BY <1>d, Invalidate
<1>4. m2.tab[g[a]][UVPT] = [pp |-> g[a], perm |-> "R"] /\ g[a] \in Pages /\ m2 \in Mem /\ e \in Ptes \cup {NIL}
      /\ p \in FreePages /\ [pp |-> g[a], perm |-> "R"] # NIL
  BY <1>3, Types, Consts DEF Sound, Owned, Typed, SelfMaps, Data, Ptes, Perms
<1>5. r = incref(n, p) /\ n = [m2 EXCEPT !.tab[g[a]][x] = e]
  <2>1. m2.tab[g[a]][va[1]] = [pp |-> g[a], perm |-> "R"]
    BY <1>1, <1>4
  <2>2. can_walk(m2, g[a], va) /\ pgdir_walk(m2, g[a], va) = m2
    BY <2>1, <1>4 DEF can_walk, pgdir_walk
  <2>3. n = [m2 EXCEPT !.tab[g[a]][x] = e]
    <3>1. m2.tab[g[a]][va[1]].pp = g[a]
      BY <2>1
    <3>2. n = [m2 EXCEPT !.tab[m2.tab[g[a]][va[1]].pp][va[2]] = e]
      BY ONLY <1>d DEF set_pte
    <3> QED BY ONLY <3>1, <3>2, <1>1
  <2> QED BY <2>2, <2>3, <1>d, <1>r
<1> HIDE DEF e, va
<1>6. /\ n \in Mem /\ n.ref = m2.ref /\ n.free = m2.free /\ n.tlb = m2.tlb /\ n.panic = m2.panic
      /\ Stored(m2, n, g[a], x, e)
  BY <1>1, <1>4, <1>5, DirFields
<1>7. /\ r \in Mem /\ r.tab = n.tab /\ r.free = n.free /\ r.tlb = n.tlb /\ r.panic = n.panic
      /\ r.ref = [n.ref EXCEPT ![p] = (@ + 1) % RefMod]
  <2>1. n \in Mem /\ p \in FreePages /\ r = incref(n, p)
    BY <1>4, <1>5, <1>6
  <2> QED BY ONLY <2>1, IncrefFields
<1>8. TableAt(m, r, g, a, x, p)
  BY <1>3, <1>6, <1>7 DEF Stored, e, TableAt
<1>9. Sound(r, g) /\ OneTab(m, r, g, a, x, [pp |-> p, perm |-> "D"])
  BY <1>8, AddTable
<1> QED BY <1>3, <1>6, <1>7, <1>9

\* passive_alloc: either the kernel panics or there is an entry for va then.
LEMMA PassiveAlloc ==
  ASSUME NEW m, NEW g, Sound(m, g), NEW a, a \in ASIDs, g[a] # NIL, NEW va, va \in VAs,
         page_lookup(m, g[a], va) = NIL, NEW r, r = passive_alloc(m, g[a], a, va), Few(r, g)
  PROVE  /\ Good(m, r, g)
         /\ r.panic \in {"bad access", "out of memory"} \/ page_lookup(r, g[a], va) \in Ptes
         /\ AtMostOne(m, g, r, g)
<1>p. PICK p : p = Head(m.free)
  OBVIOUS
<1>m. PICK m1 : m1 = page_alloc(m)
  OBVIOUS
<1>0. m \in Mem
  BY DEF Sound, Owned, Typed
<1>r. r = IF va \in Rejected THEN [m EXCEPT !.panic = "bad access"]
          ELSE IF m.free = <<>> THEN [m EXCEPT !.panic = "out of memory"]
          ELSE IF ~can_walk(m1, g[a], va) THEN [m1 EXCEPT !.panic = "out of memory"]
          ELSE page_insert(m1, g[a], a, p, va, "D")
  BY <1>p, <1>m DEF passive_alloc
<1>s. ASSUME NEW n, Sound(n, g), NEW c \in {"bad access", "out of memory"}, r = [n EXCEPT !.panic = c]
      PROVE  Sound(r, g) /\ SameMap(n, r, g) /\ r.tlb = n.tlb /\ r.panic = c
  <2>1. n \in Mem
    BY <1>s DEF Sound, Owned, Typed
  <2>2. r \in Mem /\ r.ref = n.ref /\ r.free = n.free /\ r.tab = n.tab /\ r.tlb = n.tlb /\ r.panic = c
    BY <1>s, <2>1 DEF Mem, Panics
  <2>3. SameMap(n, r, g) /\ SelfMaps(r, g)
    BY <1>s, <2>2, SameTab DEF Sound
  <2> QED BY <1>s, <2>2, <2>3, Keep
<1>1. CASE va \in Rejected
  <2>1. r = [m EXCEPT !.panic = "bad access"]
    BY <1>1, <1>r
  <2>2. Sound(r, g) /\ SameMap(m, r, g) /\ r.tlb = m.tlb /\ r.panic = "bad access"
    BY <2>1, <1>s
  <2>3. AtMostOne(m, g, r, g)
    BY <2>2, Untouched DEF SameMap
  <2> QED BY <2>2, <2>3 DEF Good
<1>2. CASE va \notin Rejected /\ m.free = <<>>
  <2>1. r = [m EXCEPT !.panic = "out of memory"]
    BY <1>2, <1>r
  <2>2. Sound(r, g) /\ SameMap(m, r, g) /\ r.tlb = m.tlb /\ r.panic = "out of memory"
    BY <2>1, <1>s
  <2>3. AtMostOne(m, g, r, g)
    BY <2>2, Untouched DEF SameMap
  <2> QED BY <2>2, <2>3 DEF Good
<1>3. CASE va \notin Rejected /\ m.free # <<>>
  <2>1. Allocated(m, m1, g, p)
    BY <1>3, <1>p, <1>m, Alloc
  <2>2. /\ Sound(m1, g) /\ SameMap(m, m1, g) /\ m1.tlb = m.tlb /\ m1.panic = m.panic
        /\ RefsIn(m1, g, p) = {} /\ m1.tab[p] = Blank /\ Data(m1, g, p)
    BY <2>1 DEF Allocated
  <2>3. CASE ~can_walk(m1, g[a], va)
    <3>1. r = [m1 EXCEPT !.panic = "out of memory"]
      BY <1>3, <2>3, <1>r
    <3>2. Sound(r, g) /\ SameMap(m1, r, g) /\ r.tlb = m1.tlb /\ r.panic = "out of memory"
      BY <2>2, <3>1, <1>s
    <3>3. AtMostOne(m, g, r, g)
      BY <2>2, <3>2, Untouched DEF SameMap
    <3> QED BY <2>2, <3>2, <3>3 DEF Good
  <2>4. CASE can_walk(m1, g[a], va)
    <3>1. r = page_insert(m1, g[a], a, p, va, "D")
      BY <1>3, <2>4, <1>r
    <3>2. va[1] \in Idx /\ va[2] \in Idx /\ va = <<va[1], va[2]>>
      BY DEF VAs
    <3>3. page_lookup(m, g[a], va) = Seen(m, g, a, va)
      BY LookupSeen
    <3>4. CASE va[1] \in UserX
      <4>1. va \in UserVAs /\ "D" \in Perms
        BY <3>2, <3>4 DEF UserVAs, Perms
      <4>2. V(m1, g, a, va) = NIL
        BY <2>2, <3>3, <3>4, <4>1 DEF Seen, SameMap
      <4>3. CanInsert(m1, g, a, p, va, "D")
        BY <2>2, <4>1 DEF CanInsert
      <4>4. Sound(r, g) /\ Only(m1, r, g, a, va) /\ V(r, g, a, va) = [pp |-> p, perm |-> "D"]
        BY <2>4, <3>1, <4>2, <4>3, Insert
      <4>5. page_lookup(r, g[a], va) \in Ptes
        <5>1. p \in Pages
          BY <2>2, Consts DEF Data
        <5>2. page_lookup(r, g[a], va) = V(r, g, a, va)
          BY Lookup
        <5> QED BY <4>1, <4>4, <5>1, <5>2 DEF Ptes
      <4>6. Only(m, r, g, a, va)
        BY <2>2, <4>4 DEF Only, SameMap
      <4>7. AtMostOne(m, g, r, g)
        BY <4>6, OnlyOne
      <4> QED BY <2>2, <4>4, <4>5, <4>6, <4>7 DEF Good, Only
    <3>5. CASE va[1] = UENVS
      BY <1>3, <3>2, <3>5 DEF Rejected
    <3>6. CASE va[1] = UVPT
      <4>1. PICK x : x = va[2]
        OBVIOUS
      <4>2. x \in UserX /\ T(m, g, a, x) = NIL
        <5>1. [pp |-> BASE, perm |-> "R"] # NIL /\ [pp |-> g[a], perm |-> "R"] # NIL
          BY Types, Consts DEF Sound, Owned, Ptes, Perms
        <5>2. va[1] \notin UserX /\ va[1] # UENVS
          BY <3>6, Consts
        <5> QED BY <3>2, <3>3, <4>1, <5>1, <5>2, Consts DEF Seen
      <4>3. r = page_insert(m1, g[a], a, p, <<UVPT, x>>, "D")
        BY <3>1, <3>2, <3>6, <4>1
      <4>4. T(m1, g, a, x) = NIL
        BY <2>2, <4>2, Consts DEF SameMap
      <4>5. /\ Sound(r, g) /\ r.panic = m1.panic /\ r.tlb \subseteq m1.tlb
            /\ OneTab(m1, r, g, a, x, [pp |-> p, perm |-> "D"])
        BY <2>2, <4>2, <4>3, <4>4, InsertTable
      <4>6. page_lookup(r, g[a], va) \in Ptes
        <5>1. p \in Pages /\ x \in Idx
          BY <2>2, <4>2, Consts DEF Data
        <5>2. page_lookup(r, g[a], va) = Seen(r, g, a, va)
          BY <4>5, LookupSeen
        <5>3. Seen(r, g, a, va) = T(r, g, a, x)
          BY <3>6, <4>1, <4>2, Consts DEF Seen
        <5>4. T(r, g, a, x) = [pp |-> p, perm |-> "D"]
          BY <4>5, <5>1 DEF OneTab
        <5> QED BY <5>1, <5>2, <5>3, <5>4 DEF Ptes, Perms
      <4>7. AtMostOne(m, g, r, g)
        BY <2>2, <4>5, Untouched DEF OneTab, SameMap
      <4> QED BY <2>2, <4>5, <4>6, <4>7 DEF Good
    <3> QED BY <3>2, <3>4, <3>5, <3>6, Consts
  <2> QED BY <2>3, <2>4
<1> QED BY <1>1, <1>2, <1>3

TlbOk(m) == IsFiniteSet(m.tlb) /\ Cardinality(m.tlb) <= TLBSize

\* tlbwr of what the page tables say.
LEMMA Tlbwr ==
  ASSUME NEW m, NEW g, Sound(m, g), TlbOk(m), NEW a \in ASIDs, g[a] # NIL, NEW va \in VAs,
         page_lookup(m, g[a], va) \in Ptes,
         NEW n \in tlbwr(m, [asid |-> a, va |-> va, pte |-> page_lookup(m, g[a], va)])
  PROVE  Sound(n, g) /\ TlbOk(n) /\ n.panic = m.panic /\ SameMap(m, n, g)
<1>h. PICK hit : hit = [asid |-> a, va |-> va, pte |-> page_lookup(m, g[a], va)]
  OBVIOUS
<1>1. PICK t \in SUBSET m.tlb : Cardinality(t) < TLBSize /\ n = [m EXCEPT !.tlb = t \cup {hit}]
  BY <1>h DEF tlbwr
<1>2. hit \in Entries /\ hit.pte = Seen(m, g, hit.asid, hit.va)
  <2>1. page_lookup(m, g[a], va) = Seen(m, g, a, va)
    BY LookupSeen
  <2> QED BY <2>1, <1>h DEF Entries
<1>3. m \in Mem
  BY DEF Sound, Owned, Typed
<1>4. /\ n \in Mem /\ n.ref = m.ref /\ n.free = m.free /\ n.tab = m.tab /\ n.panic = m.panic
      /\ n.tlb = t \cup {hit}
  BY <1>1, <1>2, <1>3 DEF Mem
<1>5. SameMap(m, n, g) /\ SelfMaps(n, g)
  BY <1>4, SameTab DEF Sound
<1>6. PICK k : k = [n EXCEPT !.tlb = {}]
  OBVIOUS
<1>7. k \in Mem /\ k.ref = m.ref /\ k.free = m.free /\ k.tab = m.tab /\ k.tlb = {}
  BY <1>4, <1>6 DEF Mem
<1>8. Sound(k, g)
  <2>1. SameMap(m, k, g) /\ SelfMaps(k, g)
    BY <1>7, SameTab DEF Sound
  <2>2. k.tlb \subseteq m.tlb
    BY <1>7
  <2> QED BY <1>7, <2>1, <2>2, Keep
<1>9. Owned(n, g)
  <2>1. SameMap(k, n, g)
    BY <1>4, <1>7, SameTab
  <2>2. (\A x \in Pointers : Aim(n, g, x) = Aim(k, g, x)) /\ \A p : RefsIn(n, g, p) = RefsIn(k, g, p)
    BY <2>1, SameAims
  <2> QED BY <1>4, <1>7, <1>8, <2>2 DEF Sound, Owned, Typed, Private, Counted, FreeOk
<1>10. Coherent(n, g)
  <2>1. ASSUME NEW u \in n.tlb PROVE u.pte = Seen(n, g, u.asid, u.va)
    <3>1. u.pte = Seen(m, g, u.asid, u.va)
      BY <1>2, <1>4 DEF Sound, Coherent
    <3>2. u.asid \in ASIDs /\ u.va \in VAs
      BY <1>4 DEF Mem, Entries
    <3> QED BY <3>1, <3>2, <1>5, SameAims
  <2> QED BY <2>1 DEF Coherent
<1>11. TlbOk(n)
  <2>1. IsFiniteSet(t) /\ Cardinality(t) \in Nat
    BY FS_Subset, FS_CardinalityType DEF TlbOk
  <2>2. IsFiniteSet(t \cup {hit}) /\ Cardinality(t \cup {hit}) \in {Cardinality(t), Cardinality(t) + 1}
    BY <2>1, FS_AddElement
  <2> QED BY <1>1, <1>4, <2>1, <2>2, Consts DEF TlbOk
<1> QED BY <1>4, <1>5, <1>9, <1>10, <1>11 DEF Sound

-----------------------------------------------------------------------------
(***************************************************************************)
(* The memory system calls.                                                *)
(***************************************************************************)
\* A page that is mapped at a user address is data.
LEMMA MappedIsData ==
  ASSUME NEW m, NEW g, Sound(m, g), NEW a \in ASIDs, NEW va \in UserVAs, V(m, g, a, va) # NIL
  PROVE  Data(m, g, V(m, g, a, va).pp)
<1>p. PICK p : p = V(m, g, a, va).pp
  OBVIOUS
<1>x. PICK x0 : x0 = <<"page", a, va>>
  OBVIOUS
<1>1. x0 \in Pointers /\ Aim(m, g, x0) = p /\ x0[1] = "page"
  BY <1>p, <1>x, PageAim
<1>2. p \in FreePages /\ p # NIL
  BY <1>p, Types, Consts DEF Sound, Owned
<1>3. RefsIn(m, g, p) # {}
  BY <1>1 DEF RefsIn
<1>4. ~InFree(m, p)
  BY <1>3 DEF Sound, Owned, FreeOk, InFree
<1>5. \A x \in Pointers : Aim(m, g, x) = p => x[1] = "page"
  BY <1>1, <1>2 DEF Sound, Owned, Private
<1> QED BY <1>2, <1>3, <1>4, <1>5, <1>p DEF Data

\* sys_mem_alloc.
LEMMA MemAlloc ==
  ASSUME NEW m, NEW g, Sound(m, g), NEW a, a \in ASIDs, g[a] # NIL, NEW va, va \in UserVAs,
         NEW perm, perm \in Perms, m.free # <<>>,
         NEW r, r = page_insert(page_alloc(m), g[a], a, Head(m.free), va, perm), Few(r, g)
  PROVE  Good(m, r, g) /\ Only(m, r, g, a, va)
<1>p. PICK p : p = Head(m.free)
  OBVIOUS
<1>m. PICK m1 : m1 = page_alloc(m)
  OBVIOUS
<1>1. Allocated(m, m1, g, p)
  BY <1>p, <1>m, Alloc
<1>2. CanInsert(m1, g, a, p, va, perm)
  BY <1>1 DEF Allocated, CanInsert
<1>3. r = page_insert(m1, g[a], a, p, va, perm)
  BY <1>p, <1>m
<1>4. Sound(r, g) /\ Only(m1, r, g, a, va)
  BY <1>2, <1>3, Insert
<1> QED BY <1>1, <1>4 DEF Good, Only, Allocated, SameMap

\* sys_mem_map and the page of sys_ipc_try_send.
LEMMA MapPage ==
  ASSUME NEW m, NEW g, Sound(m, g), NEW s, s \in ASIDs, g[s] # NIL, NEW v, v \in UserVAs,
         NEW a, a \in ASIDs, g[a] # NIL, NEW va, va \in UserVAs, NEW perm, perm \in Perms,
         page_lookup(m, g[s], v) # NIL,
         NEW r, r = page_insert(m, g[a], a, page_lookup(m, g[s], v).pp, va, perm), Few(r, g)
  PROVE  Good(m, r, g) /\ Only(m, r, g, a, va)
<1>p. PICK p : p = V(m, g, s, v).pp
  OBVIOUS
<1>1. page_lookup(m, g[s], v) = V(m, g, s, v)
  BY Lookup
<1>2. Data(m, g, p)
  BY <1>p, <1>1, MappedIsData
<1>3. CanInsert(m, g, a, p, va, perm)
  BY <1>2 DEF CanInsert
<1>4. r = page_insert(m, g[a], a, p, va, perm)
  BY <1>p, <1>1
<1>5. Sound(r, g) /\ Only(m, r, g, a, va)
  BY <1>3, <1>4, Insert
<1> QED BY <1>5 DEF Good, Only

\* sys_mem_unmap.
LEMMA Unmap ==
  ASSUME NEW m, NEW g, Sound(m, g), NEW a, a \in ASIDs, g[a] # NIL, NEW va, va \in UserVAs,
         NEW r, r = page_remove(m, g[a], a, va)
  PROVE  Good(m, r, g) /\ Only(m, r, g, a, va)
<1>1. /\ Sound(r, g) /\ r.panic = m.panic /\ r.tlb \subseteq m.tlb
      /\ OneMap(m, r, g, a, va, NIL)
  BY Remove
<1>2. Only(m, r, g, a, va)
  BY <1>1 DEF Only, OneMap
<1> QED BY <1>1, <1>2 DEF Good

-----------------------------------------------------------------------------
(***************************************************************************)
(* env_alloc.                                                              *)
(***************************************************************************)
\* The entries of a new directory p.
NewDir(p) == [i \in Idx |-> IF i = UENVS THEN [pp |-> BASE, perm |-> "R"]
                            ELSE IF i = UVPT THEN [pp |-> p, perm |-> "R"] ELSE NIL]

\* From m to m2 page p has been set up as a directory, which nobody points to yet.
SetUp(m, m2, g, p) ==
  /\ m2 \in Mem /\ m2.tlb = m.tlb /\ m2.panic = m.panic /\ SameMap(m, m2, g) /\ SelfMaps(m2, g)
  /\ p \in FreePages /\ p # NIL /\ m2.tab[p] = NewDir(p) /\ RefsIn(m, g, p) = {}
  /\ m2.free = m.free /\ m2.ref = [m.ref EXCEPT ![p] = (@ + 1) % RefMod]

LEMMA Setup ==
  ASSUME NEW m, NEW g, Sound(m, g), m.free # <<>>, NEW r, r = env_setup_vm(m)
  PROVE  Allocated(m, page_alloc(m), g, Head(m.free)) /\ SetUp(page_alloc(m), r, g, Head(m.free))
<1>p. PICK p : p = Head(m.free)
  OBVIOUS
<1>m. PICK m1 : m1 = page_alloc(m)
  OBVIOUS
<1>1. Allocated(m, m1, g, p)
  BY <1>p, <1>m, Alloc
<1>2. /\ p \in FreePages /\ p \in Pages /\ p # NIL /\ m1 \in Mem /\ m1.tab[p] = Blank
      /\ m1.tab \in [Pages -> [Idx -> Ptes \cup {NIL}]]
      /\ RefsIn(m1, g, p) = {}
      /\ Sound(m1, g) /\ Owned(m1, g) /\ SelfMaps(m1, g)
  BY <1>1, Consts DEF Allocated, Sound, Owned, Typed, Mem
<1> DEFINE b == [pp |-> BASE, perm |-> "R"]
           d == [pp |-> p, perm |-> "R"]
<1>3. b \in Ptes \cup {NIL} /\ d \in Ptes \cup {NIL} /\ UENVS \in Idx /\ UVPT \in Idx
  BY <1>2, Consts DEF Ptes, Perms
<1> HIDE DEF b, d
<1>4. PICK k : k = [m1 EXCEPT !.tab[p][UENVS] = b]
  OBVIOUS
<1>5. PICK n : n = [k EXCEPT !.tab[p][UVPT] = d]
  OBVIOUS
<1>6. r = incref(n, p)
  <2>1. n = [page_alloc(m) EXCEPT !.tab[p][UENVS] = b, !.tab[p][UVPT] = d]
    BY <1>4, <1>5, <1>m
  <2> QED BY <2>1, <1>p DEF env_setup_vm, b, d
<1>7. /\ k \in Mem /\ k.ref = m1.ref /\ k.free = m1.free /\ k.tlb = m1.tlb /\ k.panic = m1.panic
      /\ Stored(m1, k, p, UENVS, b)
  <2>1. m1 \in Mem /\ p \in Pages /\ UENVS \in Idx /\ b \in Ptes \cup {NIL}
    BY <1>2, <1>3
  <2> QED BY ONLY <2>1, <1>4, DirFields
<1>8. /\ n \in Mem /\ n.ref = k.ref /\ n.free = k.free /\ n.tlb = k.tlb /\ n.panic = k.panic
      /\ Stored(k, n, p, UVPT, d)
  <2>1. k \in Mem /\ p \in Pages /\ UVPT \in Idx /\ d \in Ptes \cup {NIL}
    BY <1>2, <1>3, <1>7
  <2> QED BY ONLY <2>1, <1>5, DirFields
<1>9. /\ r \in Mem /\ r.tab = n.tab /\ r.free = n.free /\ r.tlb = n.tlb /\ r.panic = n.panic
      /\ r.ref = [n.ref EXCEPT ![p] = (@ + 1) % RefMod]
  <2>1. n \in Mem /\ p \in FreePages
    BY <1>2, <1>8
  <2> QED BY ONLY <2>1, <1>6, IncrefFields
<1>10. r.tab = [m1.tab EXCEPT ![p] = NewDir(p)]
  <2>1. k.tab = [m1.tab EXCEPT ![p] = [Blank EXCEPT ![UENVS] = b]]
    BY <1>2, <1>7 DEF Stored
  <2>2. n.tab = [k.tab EXCEPT ![p] = [k.tab[p] EXCEPT ![UVPT] = d]]
    BY <1>8 DEF Stored
  <2>3. n.tab = [m1.tab EXCEPT ![p] = [[Blank EXCEPT ![UENVS] = b] EXCEPT ![UVPT] = d]]
    BY <1>2, <2>1, <2>2
  <2>4. [[Blank EXCEPT ![UENVS] = b] EXCEPT ![UVPT] = d] = NewDir(p)
    BY Consts DEF Blank, NewDir, b, d
  <2> QED BY <1>9, <2>3, <2>4
<1>11. SameMap(m1, r, g) /\ SelfMaps(r, g)
  <2>1. Owned(m1, g) /\ SelfMaps(m1, g) /\ p \in FreePages /\ RefsIn(m1, g, p) = {}
    BY <1>2
  <2> QED BY ONLY <2>1, <1>10, StoreUnused DEF SameMap
<1>12. SetUp(m1, r, g, p)
  BY <1>2, <1>7, <1>8, <1>9, <1>10, <1>11 DEF SetUp
<1> QED BY <1>1, <1>12, <1>p, <1>m

\* env_alloc without a free ASID: the page counts as used, nobody points to it.
LEMMA AllocFails ==
  ASSUME NEW m, NEW g, Sound(m, g), m.free # <<>>, NEW r, r = env_setup_vm(m)
  PROVE  Good(m, r, g) /\ SameMap(m, r, g)
<1>p. PICK p : p = Head(m.free)
  OBVIOUS
<1>m. PICK m1 : m1 = page_alloc(m)
  OBVIOUS
<1>1. Allocated(m, m1, g, p) /\ SetUp(m1, r, g, p)
  BY <1>p, <1>m, Setup
<1>2. (\A x \in Pointers : Aim(r, g, x) = Aim(m1, g, x)) /\ \A q : RefsIn(r, g, q) = RefsIn(m1, g, q)
  BY <1>1, SameAims DEF SetUp
<1>3. Sound(m1, g) /\ ~InFree(m1, p) /\ m1 \in Mem /\ m1.ref \in [Pages -> 0 .. RefMod - 1]
  BY <1>1 DEF Allocated, Sound, Owned, Typed, Mem
<1>4. \A q \in FreePages : q # p => r.ref[q] = m1.ref[q]
  BY <1>1, <1>3, Consts DEF SetUp
<1>5. Typed(r, g) /\ Private(r, g)
  BY <1>1, <1>2, <1>3 DEF SetUp, Sound, Owned, Typed, Private
<1>6. Counted(r, g)
  BY <1>1, <1>2, <1>3, <1>4 DEF SetUp, Sound, Owned, Counted
<1>7. FreeOk(r, g)
  <2>1. \A i \in DOMAIN m1.free : m1.free[i] \in FreePages /\ m1.free[i] # p
    BY <1>3 DEF InFree, Mem
  <2>2. FreeOk(m1, g) /\ r.free = m1.free
    BY <1>1, <1>3 DEF Sound, Owned, SetUp
  <2> QED BY ONLY <1>2, <1>4, <2>1, <2>2 DEF FreeOk
<1>8. Coherent(r, g)
  <2>1. ASSUME NEW t \in r.tlb PROVE t.pte = Seen(r, g, t.asid, t.va)
    <3>1. t.asid \in ASIDs /\ t.va \in VAs /\ t.pte = Seen(m1, g, t.asid, t.va)
      BY <1>1, <1>3 DEF SetUp, Mem, Entries, Sound, Coherent
    <3>2. Seen(r, g, t.asid, t.va) = Seen(m1, g, t.asid, t.va)
      BY <1>1, <3>1, SameAims DEF SetUp
    <3> QED BY <3>1, <3>2
  <2> QED BY <2>1 DEF Coherent
<1>9. Sound(r, g)
  BY <1>1, <1>5, <1>6, <1>7, <1>8 DEF Sound, Owned, SetUp
<1> QED BY <1>1, <1>9 DEF Good, SetUp, Allocated, SameMap

\* env_alloc: a directory without tables, and nobody else's mapping changes.
LEMMA AllocEnv ==
  ASSUME NEW m, NEW g, Sound(m, g), m.free # <<>>, NEW a \in ASIDs, g[a] = NIL,
         NEW r, r = env_setup_vm(m), NEW g2, g2 = [g EXCEPT ![a] = Head(m.free)]
  PROVE  Good(m, r, g2) /\ AtMostOne(m, g, r, g2)
<1>p. PICK p : p = Head(m.free)
  OBVIOUS
<1>m. PICK m1 : m1 = page_alloc(m)
  OBVIOUS
<1>1. Allocated(m, m1, g, p) /\ SetUp(m1, r, g, p)
  BY <1>p, <1>m, Setup
<1>2. /\ Sound(m1, g) /\ Owned(m1, g) /\ m1 \in Mem /\ Coherent(m1, g) /\ g \in Dirs /\ p \in FreePages
      /\ p # NIL /\ Data(m1, g, p) /\ RefsIn(m1, g, p) = {} /\ SameMap(m, m1, g) /\ SameMap(m1, r, g)
      /\ r \in Mem /\ SelfMaps(r, g) /\ r.tab[p] = NewDir(p) /\ r.tlb = m1.tlb
      /\ r.free = m1.free /\ r.ref = [m1.ref EXCEPT ![p] = (@ + 1) % RefMod]
  BY <1>1 DEF Allocated, SetUp, Sound, Owned, Typed
<1>3. g2 \in Dirs /\ g2[a] = p /\ \A b \in ASIDs : b # a => g2[b] = g[b]
  BY <1>2, <1>p DEF Dirs
<1>4. \A b \in ASIDs : b # a => /\ \A i \in Idx : T(r, g2, b, i) = T(m1, g, b, i)
                                /\ \A w \in UserVAs : V(r, g2, b, w) = V(m1, g, b, w)
  <2>1. \A b \in ASIDs : b # a => /\ \A i \in Idx : T(r, g2, b, i) = T(r, g, b, i)
                                  /\ \A w \in UserVAs : V(r, g2, b, w) = V(r, g, b, w)
    BY <1>3, UserVA DEF T, V
  <2> QED BY <1>2, <2>1 DEF SameMap
<1>5. \A x \in UserX : T(r, g2, a, x) = NIL /\ T(m1, g, a, x) = NIL
  <2>1. \A x \in UserX : NewDir(p)[x] = NIL
    BY Consts DEF NewDir
  <2> QED BY <1>2, <1>3, <2>1 DEF T
<1>6. \A w \in UserVAs : V(r, g2, a, w) = NIL /\ V(m1, g, a, w) = NIL
  BY <1>5, UserVA DEF V
<1>x. PICK x0 : x0 = <<"dir", a>>
  OBVIOUS
<1>7. x0 \in Pointers /\ Aim(m1, g, x0) = NIL /\ Aim(r, g2, x0) = p
  <2>1. a \in ASIDs /\ g[a] = NIL /\ g2[a] = p
    BY <1>3
  <2> QED BY ONLY <2>1, <1>x, AimOf
<1>8. ASSUME NEW x \in Pointers, x # x0 PROVE Aim(r, g2, x) = Aim(m1, g, x)
  <2>1. /\ x[2] \in ASIDs
        /\ \/ x[1] = "dir" /\ x[2] # a
           \/ x[1] = "table" /\ x[3] \in UserX
           \/ x[1] = "page" /\ x[3] \in UserVAs
    BY <1>8, <1>x, Ptr
  <2>2. UserX \subseteq Idx
    BY Consts
  <2>3. CASE x[1] = "dir" /\ x[2] # a
    BY <2>1, <2>3, <1>3 DEF Aim
  <2>4. CASE x[1] = "table" /\ x[3] \in UserX
    <3>1. T(r, g2, x[2], x[3]) = T(m1, g, x[2], x[3])
      BY <2>1, <2>2, <2>4, <1>4, <1>5
    <3> QED BY <3>1, <2>4 DEF Aim
  <2>5. CASE x[1] = "page" /\ x[3] \in UserVAs
    <3>1. V(r, g2, x[2], x[3]) = V(m1, g, x[2], x[3])
      BY <2>1, <2>5, <1>4, <1>6
    <3> QED BY <3>1, <2>5 DEF Aim
  <2> QED BY <2>1, <2>3, <2>4, <2>5
<1>9. Cardinality(RefsIn(r, g2, p)) < RefMod
  <2>1. RefsIn(r, g2, p) = {x0}
    <3>1. RefsIn(m1, g, p) = {}
      BY <1>2
    <3> QED BY ONLY <3>1, <1>7, <1>8 DEF RefsIn
  <2>2. Cardinality({x0}) = 1
    BY FS_Singleton
  <2> QED BY ONLY <2>1, <2>2, Consts
<1>10. Owned(r, g2)
  <2>1. /\ Owned(m1, g) /\ r \in Mem /\ g2 \in Dirs /\ Data(m1, g, p) /\ RefsIn(m1, g, p) = {}
        /\ r.free = m1.free /\ r.ref = [m1.ref EXCEPT ![p] = (@ + 1) % RefMod]
    BY <1>2, <1>3
  <2> QED BY ONLY <1>7, <1>8, <1>9, <2>1, AddPtr
<1>11. SelfMaps(r, g2)
  <2>1. NewDir(p)[UENVS] = [pp |-> BASE, perm |-> "R"] /\ NewDir(p)[UVPT] = [pp |-> p, perm |-> "R"]
    BY Consts DEF NewDir
  <2> QED BY <1>2, <1>3, <2>1 DEF SelfMaps
<1>12. Coherent(r, g2)
  <2>1. ASSUME NEW t \in r.tlb, Seen(m1, g, t.asid, t.va) # NIL
        PROVE  Seen(r, g2, t.asid, t.va) = Seen(m1, g, t.asid, t.va)
    <3>1. t.asid \in ASIDs /\ t.va \in VAs
      BY <1>2 DEF Mem, Entries
    <3>2. t.va[1] \in Idx /\ t.va[2] \in Idx /\ (t.va[1] \in UserX => t.va \in UserVAs)
      BY <3>1 DEF VAs, UserVAs
    <3>3. CASE t.asid = a
      BY <2>1, <3>2, <3>3, <1>5, <1>6 DEF Seen
    <3>4. CASE t.asid # a
      BY <3>1, <3>2, <3>4, <1>3, <1>4 DEF Seen
    <3> QED BY <3>3, <3>4
  <2>2. m1 \in Mem /\ Coherent(m1, g) /\ r.tlb \subseteq m1.tlb
    BY <1>2
  <2> QED BY ONLY <2>1, <2>2, StaysCoherent
<1>13. \A b \in ASIDs, w \in UserVAs : V(r, g2, b, w) = V(m, g, b, w)
  BY <1>2, <1>4, <1>6 DEF SameMap
<1>14. Good(m, r, g2)
  BY <1>1, <1>10, <1>11, <1>12 DEF Good, Sound, SetUp, Allocated
<1>15. AtMostOne(m, g, r, g2)
  BY ONLY <1>13, Untouched
<1> QED BY <1>14, <1>15

-----------------------------------------------------------------------------
(***************************************************************************)
(* Folds over finite sets: env_free walks the tables and their entries in  *)
(* any order.                                                              *)
(***************************************************************************)
\* Induction over numbers, on sets: from the least counterexample.
LEMMA LeastNat ==
  ASSUME NEW P \in SUBSET Nat, 0 \in P, \A n \in Nat : n \in P => n + 1 \in P
  PROVE  P = Nat
<1> SUFFICES ASSUME Nat \ P # {} PROVE FALSE
  OBVIOUS
<1>1. PICK n \in Nat \ P : \A y \in Nat \ P : ~(<<y, n>> \in OpToRel(<, Nat))
  BY NatLessThanWellFounded, WFMin
<1>2. n # 0 /\ n - 1 \in Nat
  OBVIOUS
<1>3. <<n - 1, n>> \in OpToRel(<, Nat)
  BY <1>2 DEF OpToRel
<1>4. n - 1 \in P
  BY <1>1, <1>2, <1>3
<1>5. (n - 1) + 1 = n
  OBVIOUS
<1> QED BY <1>2, <1>4, <1>5

\* The element that FoldSet takes first.
Some(s) == CHOOSE x \in s : TRUE

\* The fold of op over the subsets of S, op applied to an element and a value.
FoldOf(f, S, base, op) == f = [s \in SUBSET S |-> IF s = {} THEN base ELSE op[<<Some(s), f[s \ {Some(s)}]>>]]

\* FoldSet is a CHOOSE of a function on subsets; that there is one is proved by
\* taking the union of those on the subsets of up to n elements.
LEMMA FoldExists ==
  ASSUME NEW S, IsFiniteSet(S), NEW base, NEW op
  PROVE  \E f : FoldOf(f, S, base, op)
<1> DEFINE Is(f, s) == f[s] = IF s = {} THEN base ELSE op[<<Some(s), f[s \ {Some(s)}]>>]
           Upto(n)  == {s \in SUBSET S : Cardinality(s) <= n}
           P        == {n \in Nat : \E f : \A s \in Upto(n) : Is(f, s)}
<1>1. \A s \in SUBSET S : IsFiniteSet(s) /\ Cardinality(s) \in Nat
  BY FS_Subset, FS_CardinalityType
<1>2. \A s \in SUBSET S : s # {} => Some(s) \in s
  BY DEF Some
<1>3. \A s \in SUBSET S : s # {} => s \ {Some(s)} \in SUBSET S /\ Cardinality(s \ {Some(s)}) = Cardinality(s) - 1
  BY <1>1, <1>2, FS_RemoveElement
<1>4. \A s \in SUBSET S : Cardinality(s) = 0 <=> s = {}
  BY <1>1, FS_EmptySet
<1> HIDE DEF Some
<1>5. 0 \in P
  <2> DEFINE f == [s \in SUBSET S |-> base]
  <2>1. \A s \in Upto(0) : s = {}
    BY <1>1, <1>4
  <2>2. \A s \in Upto(0) : Is(f, s)
    BY <2>1
  <2> QED BY <2>2
<1>6. ASSUME NEW n \in Nat, n \in P PROVE n + 1 \in P
  <2>1. PICK f : \A s \in Upto(n) : Is(f, s)
    BY <1>6
  <2> DEFINE g == [s \in SUBSET S |-> IF Cardinality(s) <= n THEN f[s]
                                      ELSE op[<<Some(s), f[s \ {Some(s)}]>>]]
  <2>2. \A s \in Upto(n) : g[s] = f[s]
    OBVIOUS
  <2>3. ASSUME NEW s \in Upto(n + 1) PROVE Is(g, s)
    <3>1. CASE s = {}
      <4>1. s \in Upto(n)
        BY <3>1, <1>4
      <4> QED BY <4>1, <2>1, <2>2, <3>1
    <3>2. CASE s # {}
      <4> DEFINE t == s \ {Some(s)}
      <4>1. t \in Upto(n)
        BY <3>2, <1>1, <1>3
      <4>2. g[t] = f[t]
        BY <4>1, <2>2
      <4>3. CASE Cardinality(s) <= n
        <5>1. f[s] = op[<<Some(s), f[t]>>]
          BY <4>3, <2>1, <3>2
        <5> QED BY <4>2, <5>1, <4>3, <3>2
      <4>4. CASE ~(Cardinality(s) <= n)
        <5>1. g[s] = op[<<Some(s), f[t]>>]
          BY <4>4
        <5> QED BY <4>2, <5>1, <3>2
      <4> QED BY <4>3, <4>4
    <3> QED BY <3>1, <3>2
  <2> HIDE DEF g, Is, Upto
  <2>4. \E f1 : \A s \in Upto(n + 1) : Is(f1, s)
    BY <2>3
  <2> QED BY <2>4
<1>7. P = Nat
  <2> HIDE DEF P
  <2>1. P \in SUBSET Nat
    BY DEF P
  <2> QED BY <2>1, <1>5, <1>6, LeastNat
<1>8. PICK f : \A s \in Upto(Cardinality(S)) : Is(f, s)
  BY <1>7, <1>1
<1>9. \A s \in SUBSET S : s \in Upto(Cardinality(S))
  BY FS_Subset
<1> DEFINE g == [s \in SUBSET S |-> f[s]]
<1>10. \A s \in SUBSET S : Is(g, s)
  BY <1>8, <1>9, <1>3
<1>11. g = [s \in SUBSET S |-> IF s = {} THEN base ELSE op[<<Some(s), g[s \ {Some(s)}]>>]]
  BY <1>10
<1> QED BY <1>11 DEF FoldOf

\* Induction over the subsets of a finite set.
LEMMA Subsets ==
  ASSUME NEW S, IsFiniteSet(S), NEW P \in SUBSET (SUBSET S), {} \in P,
         \A s \in SUBSET S : s # {} /\ s \ {Some(s)} \in P => s \in P
  PROVE  P = SUBSET S
<1> DEFINE Q == {n \in Nat : \A s \in SUBSET S : Cardinality(s) = n => s \in P}
<1>1. \A s \in SUBSET S : IsFiniteSet(s) /\ Cardinality(s) \in Nat
  BY FS_Subset, FS_CardinalityType
<1>2. \A s \in SUBSET S : s # {} => Some(s) \in s
  BY DEF Some
<1>3. \A s \in SUBSET S : s # {} => s \ {Some(s)} \in SUBSET S /\ Cardinality(s \ {Some(s)}) = Cardinality(s) - 1
  BY <1>1, <1>2, FS_RemoveElement
<1>4. \A s \in SUBSET S : Cardinality(s) = 0 <=> s = {}
  BY <1>1, FS_EmptySet
<1> HIDE DEF Some
<1>5. 0 \in Q
  BY <1>4
<1>6. ASSUME NEW n \in Nat, n \in Q PROVE n + 1 \in Q
  <2>1. ASSUME NEW s \in SUBSET S, Cardinality(s) = n + 1 PROVE s \in P
    <3>1. s # {}
      BY <2>1, <1>4
    <3>2. Cardinality(s \ {Some(s)}) = n /\ s \ {Some(s)} \in SUBSET S
      BY <2>1, <3>1, <1>3
    <3>3. s \ {Some(s)} \in P
      BY <1>6, <3>2
    <3> QED BY <3>1, <3>3
  <2> QED BY <2>1
<1>7. Q = Nat
  <2>1. Q \in SUBSET Nat
    OBVIOUS
  <2> HIDE DEF Q
  <2> QED BY <2>1, <1>5, <1>6, LeastNat
<1> QED BY <1>1, <1>7

\* What a fold that starts from m and yields f keeps: f[s] is in G(s) for every s.
LEMMA FoldKeeps ==
  ASSUME NEW S, IsFiniteSet(S), NEW G, NEW m, m \in G[{}], NEW op,
         \A s \in SUBSET S : s # {} => \A n \in G[s \ {Some(s)}] : op[<<Some(s), n>>] \in G[s]
  PROVE  \E f : /\ FoldOf(f, S, m, op)
                /\ \A s \in SUBSET S : f[s] \in G[s]
<1>1. PICK f : FoldOf(f, S, m, op)
  BY FoldExists
<1> DEFINE P == {s \in SUBSET S : f[s] \in G[s]}
<1>0. \A s \in SUBSET S : f[s] = IF s = {} THEN m ELSE op[<<Some(s), f[s \ {Some(s)}]>>]
  <2> DEFINE F(s) == IF s = {} THEN m ELSE op[<<Some(s), f[s \ {Some(s)}]>>]
  <2>1. f = [s \in SUBSET S |-> F(s)]
    BY <1>1 DEF FoldOf
  <2> HIDE DEF F
  <2>2. \A s \in SUBSET S : f[s] = F(s)
    BY <2>1
  <2> QED BY <2>2 DEF F
<1>2. {} \in P
  BY <1>0
<1>3. ASSUME NEW s \in SUBSET S, s # {}, s \ {Some(s)} \in P PROVE s \in P
  <2>1. f[s] = op[<<Some(s), f[s \ {Some(s)}]>>]
    BY <1>0, <1>3
  <2>2. f[s \ {Some(s)}] \in G[s \ {Some(s)}]
    BY <1>3
  <2>3. f[s] \in G[s]
    BY <1>3, <2>1, <2>2
  <2> QED BY <2>3
<1>4. P = SUBSET S
  <2>1. P \in SUBSET (SUBSET S)
    OBVIOUS
  <2> HIDE DEF P
  <2> QED BY <2>1, <1>2, <1>3, Subsets
<1> QED BY <1>1, <1>4

-----------------------------------------------------------------------------
(***************************************************************************)
(* The pages of a table.                                                   *)
(***************************************************************************)
LEMMA IdxFinite == IsFiniteSet(Idx) /\ \A i : IsFiniteSet({i} \X Idx)
<1>1. IsFiniteSet({UENVS}) /\ IsFiniteSet({UVPT})
  BY FS_Singleton
<1>2. IsFiniteSet({UENVS} \cup {UVPT})
  BY <1>1, FS_Union
<1>3. IsFiniteSet(UserX \cup ({UENVS} \cup {UVPT}))
  BY <1>2, FS_Union, PmapAssumption
<1>4. Idx = UserX \cup ({UENVS} \cup {UVPT})
  BY DEF Idx
<1>5. IsFiniteSet(Idx)
  BY <1>3, <1>4
<1>6. ASSUME NEW i PROVE IsFiniteSet({i} \X Idx)
  BY <1>5, FS_Singleton, FS_Product
<1> QED BY <1>5, <1>6

\* remove_pages as the function that FoldSet chooses.
LEMMA UnfoldPages ==
  ASSUME NEW m, NEW dir, NEW a, NEW S
  PROVE  remove_pages(m, dir, a, S) =
           (CHOOSE f : f = [s \in SUBSET S |-> IF s = {} THEN m
                                               ELSE page_remove(f[s \ {Some(s)}], dir, a, Some(s))])[S]
BY DEF remove_pages, FoldSet, MapThenFoldSet, Some

\* From m to n the addresses in s have been unmapped in a.
Cleared(m, n, g, a, s) ==
  /\ Sound(n, g) /\ n.panic = m.panic /\ n.tlb \subseteq m.tlb
  /\ \A b \in ASIDs, i \in Idx : T(n, g, b, i) = T(m, g, b, i)
  /\ \A b \in ASIDs, w \in UserVAs : V(n, g, b, w) = IF b = a /\ w \in s THEN NIL ELSE V(m, g, b, w)

LEMMA ClearOne ==
  ASSUME NEW m, NEW n, NEW g, NEW a \in ASIDs, g[a] # NIL, NEW s \in SUBSET UserVAs, NEW va \in s,
         Cleared(m, n, g, a, s \ {va})
  PROVE  Cleared(m, page_remove(n, g[a], a, va), g, a, s)
<1>1. PICK n2 : n2 = page_remove(n, g[a], a, va)
  OBVIOUS
<1>2. Sound(n, g) /\ va \in UserVAs
  BY DEF Cleared
<1>3. Sound(n2, g) /\ n2.panic = n.panic /\ n2.tlb \subseteq n.tlb /\ OneMap(n, n2, g, a, va, NIL)
  BY <1>1, <1>2, Remove
<1>4. Cleared(m, n2, g, a, s)
  BY <1>3 DEF Cleared, OneMap
<1> QED BY <1>1, <1>4

\* page_remove of every address in S, in whatever order.
LEMMA RemovePages ==
  ASSUME NEW m, NEW g, Sound(m, g), NEW a \in ASIDs, g[a] # NIL, NEW S \in SUBSET UserVAs, IsFiniteSet(S)
  PROVE  Cleared(m, remove_pages(m, g[a], a, S), g, a, S)
<1> DEFINE G  == [s \in SUBSET S |-> {n \in Mem : Cleared(m, n, g, a, s)}]
           op == [y \in S \X Mem |-> page_remove(y[2], g[a], a, y[1])]
           Is(f) == f = [s \in SUBSET S |-> IF s = {} THEN m
                                            ELSE page_remove(f[s \ {Some(s)}], g[a], a, Some(s))]
<1>1. \A s \in SUBSET S : s # {} => Some(s) \in s /\ s \ {Some(s)} \in SUBSET S
  BY DEF Some
<1> HIDE DEF Some
<1>2. m \in G[{}]
  BY DEF Sound, Owned, Typed, Cleared
<1>3. ASSUME NEW s \in SUBSET S, s # {}, NEW n \in G[s \ {Some(s)}]
      PROVE  /\ op[<<Some(s), n>>] = page_remove(n, g[a], a, Some(s))
             /\ page_remove(n, g[a], a, Some(s)) \in G[s]
  <2>1. Some(s) \in s /\ Some(s) \in S /\ s \ {Some(s)} \in SUBSET S /\ s \in SUBSET UserVAs
    BY <1>1, <1>3
  <2>2. n \in Mem /\ Cleared(m, n, g, a, s \ {Some(s)})
    BY <1>3, <2>1
  <2>3. Cleared(m, page_remove(n, g[a], a, Some(s)), g, a, s)
    BY <2>1, <2>2, ClearOne
  <2>4. page_remove(n, g[a], a, Some(s)) \in Mem
    BY <2>3 DEF Cleared, Sound, Owned, Typed
  <2>5. op[<<Some(s), n>>] = page_remove(n, g[a], a, Some(s))
    BY <2>1, <2>2
  <2> QED BY <2>3, <2>4, <2>5
<1> HIDE DEF G, op
<1>4. PICK f : /\ FoldOf(f, S, m, op)
               /\ \A s \in SUBSET S : f[s] \in G[s]
  <2>1. \A s \in SUBSET S : s # {} => \A n \in G[s \ {Some(s)}] : op[<<Some(s), n>>] \in G[s]
    BY <1>3
  <2>2. IsFiniteSet(S)
    OBVIOUS
  <2> QED BY ONLY <1>2, <2>1, <2>2, FoldKeeps
<1>5. Is(f)
  <2>1. \A s \in SUBSET S : s # {} =>
          op[<<Some(s), f[s \ {Some(s)}]>>] = page_remove(f[s \ {Some(s)}], g[a], a, Some(s))
    BY <1>1, <1>3, <1>4
  <2> QED BY <1>4, <2>1 DEF FoldOf
<1> DEFINE h == CHOOSE f1 : Is(f1)
<1>6. Is(h)
  BY <1>5
<1>7. remove_pages(m, g[a], a, S) = h[S]
  BY UnfoldPages
<1> HIDE DEF h
<1> DEFINE P == {s \in SUBSET S : h[s] \in G[s]}
<1>8. {} \in P
  BY <1>2, <1>6
<1>9. ASSUME NEW s \in SUBSET S, s # {}, s \ {Some(s)} \in P PROVE s \in P
  <2>1. h[s] = page_remove(h[s \ {Some(s)}], g[a], a, Some(s))
    BY <1>6, <1>9
  <2>2. h[s \ {Some(s)}] \in G[s \ {Some(s)}]
    BY <1>9
  <2>3. h[s] \in G[s]
    BY <1>3, <1>9, <2>1, <2>2
  <2> QED BY <2>3
<1>10. P = SUBSET S
  <2>1. P \in SUBSET (SUBSET S)
    OBVIOUS
  <2> HIDE DEF P
  <2> QED BY <2>1, <1>8, <1>9, Subsets
<1>11. h[S] \in G[S]
  BY <1>10
<1> QED BY <1>7, <1>11 DEF G

-----------------------------------------------------------------------------
(***************************************************************************)
(* The tables of a directory.                                              *)
(***************************************************************************)
\* From m to n the tables in s are gone from a, with what they mapped.
Freed(m, n, g, a, s) ==
  /\ Sound(n, g) /\ n.panic = m.panic /\ n.tlb \subseteq m.tlb
  /\ \A b \in ASIDs, i \in Idx : T(n, g, b, i) = IF b = a /\ i \in s THEN NIL ELSE T(m, g, b, i)
  /\ \A b \in ASIDs, w \in UserVAs : V(n, g, b, w) = IF b = a /\ w[1] \in s THEN NIL ELSE V(m, g, b, w)

\* A directory entry is cleared, and its table, which maps nothing, released.
DropTable(n, r, g, a, i, p) ==
  /\ r \in Mem /\ Stored(n, r, g[a], i, NIL)
  /\ r.ref = [n.ref EXCEPT ![p] = @ - 1]
  /\ r.free = IF n.ref[p] = 1 THEN <<p>> \o n.free ELSE n.free
  /\ r.tlb \subseteq n.tlb /\ \A t \in r.tlb : ~(t.asid = a /\ t.va = <<UVPT, i>>)

\* Clearing a directory entry keeps what is left in order.
LEMMA DroppedTable ==
  ASSUME NEW n, NEW g, Sound(n, g), NEW a, a \in ASIDs, g[a] # NIL, NEW i, i \in UserX, T(n, g, a, i) # NIL,
         \A w \in UserVAs : w[1] = i => V(n, g, a, w) = NIL,
         NEW r, DropTable(n, r, g, a, i, T(n, g, a, i).pp)
  PROVE  /\ Sound(r, g) /\ OneTab(n, r, g, a, i, NIL)
<1>p. PICK p : p = T(n, g, a, i).pp
  OBVIOUS
<1>x. PICK x0 : x0 = <<"table", a, i>>
  OBVIOUS
<1>0. /\ n \in Mem /\ Owned(n, g) /\ Typed(n, g) /\ SelfMaps(n, g) /\ Coherent(n, g) /\ g \in Dirs
  BY DEF Sound, Owned, Typed
<1>1. /\ r \in Mem /\ Stored(n, r, g[a], i, NIL)
      /\ r.ref = [n.ref EXCEPT ![p] = @ - 1]
      /\ r.free = IF n.ref[p] = 1 THEN <<p>> \o n.free ELSE n.free
      /\ r.tlb \subseteq n.tlb /\ \A t \in r.tlb : ~(t.asid = a /\ t.va = <<UVPT, i>>)
  BY <1>p DEF DropTable
<1>2. x0 \in Pointers /\ Aim(n, g, x0) = p /\ p # NIL
  BY <1>0, <1>p, <1>x, TableAim, Types, Consts
<1>3. /\ \A b \in ASIDs, j \in Idx : T(r, g, b, j) = IF b = a /\ j = i THEN NIL ELSE T(n, g, b, j)
      /\ \A b \in ASIDs, w \in UserVAs :
           V(r, g, b, w) = IF b = a /\ w[1] = i THEN NIL ELSE V(n, g, b, w)
      /\ SelfMaps(r, g)
  <2>1. /\ Owned(n, g) /\ SelfMaps(n, g) /\ Stored(n, r, g[a], i, NIL)
        /\ a \in ASIDs /\ g[a] # NIL /\ i \in UserX
    BY <1>0, <1>1
  <2>2. PICK e : e = NIL
    OBVIOUS
  <2>3. Stored(n, r, g[a], i, e) /\ (e = NIL \/ e.pp # g[a])
    BY <2>1, <2>2
  <2>4. /\ \A b \in ASIDs, j \in Idx : T(r, g, b, j) = IF b = a /\ j = i THEN e ELSE T(n, g, b, j)
        /\ \A b \in ASIDs, w \in UserVAs :
             V(r, g, b, w) = IF b = a /\ w[1] = i THEN IF e = NIL THEN NIL ELSE n.tab[e.pp][w[2]]
                             ELSE V(n, g, b, w)
        /\ SelfMaps(r, g)
    BY ONLY <2>1, <2>3, StoreDir
  <2> QED BY ONLY <2>2, <2>4
<1>4. \A b \in ASIDs, w \in UserVAs : V(r, g, b, w) = V(n, g, b, w)
  BY <1>3
<1>5. OneTab(n, r, g, a, i, NIL)
  BY <1>3, <1>4 DEF OneTab
<1>6. \A y \in Pointers : y # x0 => Aim(r, g, y) = Aim(n, g, y)
  BY <1>3, <1>4, <1>x, AimsButTable, Consts
<1>7. Aim(r, g, x0) = NIL
  <2>1. T(r, g, a, i) = NIL
    BY <1>3, Consts
  <2> QED BY <2>1, <1>x, AimOf DEF PageOf
<1>8. Owned(r, g)
  BY ONLY <1>0, <1>1, <1>2, <1>6, <1>7, DropPtr
<1>9. Coherent(r, g)
  <2>1. ASSUME NEW t \in r.tlb PROVE Seen(r, g, t.asid, t.va) = Seen(n, g, t.asid, t.va)
    <3>1. t.asid \in ASIDs /\ t.va \in VAs
      BY <1>1 DEF Mem, Entries
    <3>2. t.va[1] \in Idx /\ t.va[2] \in Idx /\ t.va = <<t.va[1], t.va[2]>> /\ (t.va[1] \in UserX => t.va \in UserVAs)
      BY <3>1 DEF VAs, UserVAs
    <3>3. t.va[1] \notin UserX /\ t.va[1] # UENVS => t.va[1] = UVPT
      BY <3>2, Consts
    <3>4. t.va[1] = UVPT => ~(t.asid = a /\ t.va[2] = i)
      BY <1>1, <3>2
    <3> QED BY <3>1, <3>2, <3>3, <3>4, <1>3, <1>4 DEF Seen
  <2>2. r.tlb \subseteq n.tlb /\ n \in Mem /\ Coherent(n, g)
    BY <1>0, <1>1
  <2> QED BY ONLY <2>1, <2>2, StaysCoherent
<1> QED BY <1>3, <1>5, <1>8, <1>9 DEF Sound

\* free_table: the table and all that it maps.
LEMMA FreeTable ==
  ASSUME NEW m, NEW g, Sound(m, g), NEW a, a \in ASIDs, g[a] # NIL, NEW i, i \in UserX, T(m, g, a, i) # NIL
  PROVE  Freed(m, free_table(m, g[a], a, i), g, a, {i})
<1>p. PICK p : p = T(m, g, a, i).pp
  OBVIOUS
<1>n. PICK n : n = remove_pages(m, g[a], a, {i} \X Idx)
  OBVIOUS
<1>k. PICK k : k = [n EXCEPT !.tab[g[a]][i] = NIL]
  OBVIOUS
<1>d. PICK d : d = page_decref(k, p)
  OBVIOUS
<1>r. PICK r : r = tlb_invalidate(d, a, <<UVPT, i>>)
  OBVIOUS
<1>0. free_table(m, g[a], a, i) = r
  <2>1. m.tab[g[a]][i] = T(m, g, a, i)
    BY DEF T
  <2> QED BY <2>1, <1>p, <1>n, <1>k, <1>d, <1>r DEF free_table
<1>1. Cleared(m, n, g, a, {i} \X Idx)
  <2>1. {i} \X Idx \in SUBSET UserVAs /\ IsFiniteSet({i} \X Idx)
    BY IdxFinite DEF UserVAs
  <2> QED BY <2>1, <1>n, RemovePages
<1>2. /\ Sound(n, g) /\ n.panic = m.panic /\ n.tlb \subseteq m.tlb
      /\ \A b \in ASIDs, j \in Idx : T(n, g, b, j) = T(m, g, b, j)
      /\ \A b \in ASIDs, w \in UserVAs : V(n, g, b, w) = IF b = a /\ w[1] = i THEN NIL ELSE V(m, g, b, w)
  <2>1. \A w \in UserVAs : w \in {i} \X Idx <=> w[1] = i
    BY UserVA
  <2> QED BY <1>1, <2>1 DEF Cleared
<1>3. T(n, g, a, i) # NIL /\ T(n, g, a, i).pp = p /\ i \in Idx
  BY <1>2, <1>p, Consts
<1>4. /\ n \in Mem /\ g[a] \in Pages /\ p \in FreePages /\ n.ref[p] # 0
  <2>1. n \in Mem /\ Owned(n, g) /\ Typed(n, g)
    BY <1>2 DEF Sound, Owned, Typed
  <2>2. g[a] \in Pages /\ p \in FreePages
    BY <2>1, <1>3, Types, Consts
  <2>3. <<"table", a, i>> \in RefsIn(n, g, p)
    BY <1>3, TableAim DEF RefsIn
  <2>4. n.ref[p] = Cardinality(RefsIn(n, g, p))
    BY <2>1, <2>2, <2>3 DEF Owned, Counted
  <2>5. n.ref[p] # 0
    BY <2>3, <2>4, RefsFinite, FS_EmptySet
  <2> QED BY <2>1, <2>2, <2>5
<1>5. /\ k \in Mem /\ k.ref = n.ref /\ k.free = n.free /\ k.tlb = n.tlb /\ k.panic = n.panic
      /\ Stored(n, k, g[a], i, NIL)
  <2>1. n \in Mem /\ g[a] \in Pages /\ i \in Idx /\ NIL \in Ptes \cup {NIL}
    BY <1>3, <1>4
  <2> QED BY ONLY <2>1, <1>k, DirFields
<1>6. /\ d \in Mem /\ d.tab = k.tab /\ d.tlb = k.tlb /\ d.panic = k.panic
      /\ d.ref = [k.ref EXCEPT ![p] = @ - 1]
      /\ d.free = IF k.ref[p] = 1 THEN <<p>> \o k.free ELSE k.free
  <2>1. k \in Mem /\ p \in FreePages /\ k.ref[p] # 0
    BY <1>4, <1>5
  <2> QED BY ONLY <2>1, <1>d, DecrefFields
<1>7. /\ r \in Mem /\ r.ref = d.ref /\ r.free = d.free /\ r.tab = d.tab /\ r.panic = d.panic
      /\ r.tlb = {t \in d.tlb : ~(t.asid = a /\ t.va = <<UVPT, i>>)}
  BY <1>6, <1>r DEF tlb_invalidate, Mem
<1>8. DropTable(n, r, g, a, i, p)
  BY <1>5, <1>6, <1>7 DEF DropTable, Stored
<1>9. Sound(r, g) /\ OneTab(n, r, g, a, i, NIL)
  <2>1. \A w \in UserVAs : w[1] = i => V(n, g, a, w) = NIL
    BY <1>2
  <2> QED BY <1>2, <1>3, <1>8, <2>1, DroppedTable
<1>10. r.panic = m.panic /\ r.tlb \subseteq m.tlb
  BY <1>2, <1>5, <1>6, <1>7
<1>11. Freed(m, r, g, a, {i})
  BY <1>2, <1>9, <1>10 DEF Freed, OneTab
<1> QED BY <1>0, <1>11

\* free_tables as the function that FoldSet chooses.
LEMMA UnfoldTables ==
  ASSUME NEW m, NEW dir, NEW a, NEW S
  PROVE  free_tables(m, dir, a, S) =
           (CHOOSE f : f = [s \in SUBSET S |-> IF s = {} THEN m
                                               ELSE free_table(f[s \ {Some(s)}], dir, a, Some(s))])[S]
BY DEF free_tables, FoldSet, MapThenFoldSet, Some

LEMMA FreeOne ==
  ASSUME NEW m, NEW n, NEW g, NEW a \in ASIDs, g[a] # NIL, NEW s \in SUBSET UserX, NEW i \in s,
         T(m, g, a, i) # NIL, Freed(m, n, g, a, s \ {i})
  PROVE  Freed(m, free_table(n, g[a], a, i), g, a, s)
<1>1. PICK n2 : n2 = free_table(n, g[a], a, i)
  OBVIOUS
<1>2. Sound(n, g) /\ i \in UserX /\ i \in Idx /\ T(n, g, a, i) # NIL
  BY Consts DEF Freed
<1>3. Freed(n, n2, g, a, {i})
  BY <1>1, <1>2, FreeTable
<1>4. Freed(m, n2, g, a, s)
  BY <1>3 DEF Freed
<1> QED BY <1>1, <1>4

\* free_table of every table in S, in whatever order.
LEMMA FreeTables ==
  ASSUME NEW m, NEW g, Sound(m, g), NEW a \in ASIDs, g[a] # NIL, NEW S \in SUBSET UserX,
         \A i \in S : T(m, g, a, i) # NIL
  PROVE  Freed(m, free_tables(m, g[a], a, S), g, a, S)
<1> DEFINE G  == [s \in SUBSET S |-> {n \in Mem : Freed(m, n, g, a, s)}]
           op == [y \in S \X Mem |-> free_table(y[2], g[a], a, y[1])]
           Is(f) == f = [s \in SUBSET S |-> IF s = {} THEN m
                                            ELSE free_table(f[s \ {Some(s)}], g[a], a, Some(s))]
<1>0. IsFiniteSet(S)
  BY PmapAssumption, FS_Subset
<1>1. \A s \in SUBSET S : s # {} => Some(s) \in s /\ s \ {Some(s)} \in SUBSET S
  BY DEF Some
<1> HIDE DEF Some
<1>2. m \in G[{}]
  BY DEF Sound, Owned, Typed, Freed
<1>3. ASSUME NEW s \in SUBSET S, s # {}, NEW n \in G[s \ {Some(s)}]
      PROVE  /\ op[<<Some(s), n>>] = free_table(n, g[a], a, Some(s))
             /\ free_table(n, g[a], a, Some(s)) \in G[s]
  <2>1. Some(s) \in s /\ Some(s) \in S /\ s \ {Some(s)} \in SUBSET S /\ s \in SUBSET UserX
    BY <1>1, <1>3
  <2>2. n \in Mem /\ Freed(m, n, g, a, s \ {Some(s)})
    BY <1>3, <2>1
  <2>3. Freed(m, free_table(n, g[a], a, Some(s)), g, a, s)
    BY <2>1, <2>2, FreeOne
  <2>4. free_table(n, g[a], a, Some(s)) \in Mem
    BY <2>3 DEF Freed, Sound, Owned, Typed
  <2>5. op[<<Some(s), n>>] = free_table(n, g[a], a, Some(s))
    BY <2>1, <2>2
  <2> QED BY <2>3, <2>4, <2>5
<1> HIDE DEF G, op
<1>4. PICK f : /\ FoldOf(f, S, m, op)
               /\ \A s \in SUBSET S : f[s] \in G[s]
  <2>1. \A s \in SUBSET S : s # {} => \A n \in G[s \ {Some(s)}] : op[<<Some(s), n>>] \in G[s]
    BY <1>3
  <2> QED BY ONLY <1>0, <1>2, <2>1, FoldKeeps
<1>5. Is(f)
  <2>1. \A s \in SUBSET S : s # {} =>
          op[<<Some(s), f[s \ {Some(s)}]>>] = free_table(f[s \ {Some(s)}], g[a], a, Some(s))
    BY <1>1, <1>3, <1>4
  <2> QED BY <1>4, <2>1 DEF FoldOf
<1> DEFINE h == CHOOSE f1 : Is(f1)
<1>6. Is(h)
  BY <1>5
<1>7. free_tables(m, g[a], a, S) = h[S]
  BY UnfoldTables
<1> HIDE DEF h
<1> DEFINE P == {s \in SUBSET S : h[s] \in G[s]}
<1>8. {} \in P
  BY <1>2, <1>6
<1>9. ASSUME NEW s \in SUBSET S, s # {}, s \ {Some(s)} \in P PROVE s \in P
  <2>1. h[s] = free_table(h[s \ {Some(s)}], g[a], a, Some(s))
    BY <1>6, <1>9
  <2>2. h[s \ {Some(s)}] \in G[s \ {Some(s)}]
    BY <1>9
  <2>3. h[s] \in G[s]
    BY <1>3, <1>9, <2>1, <2>2
  <2> QED BY <2>3
<1>10. P = SUBSET S
  <2>1. P \in SUBSET (SUBSET S)
    OBVIOUS
  <2> HIDE DEF P
  <2> QED BY <2>1, <1>0, <1>8, <1>9, Subsets
<1>11. h[S] \in G[S]
  BY <1>10
<1> QED BY <1>7, <1>11 DEF G

-----------------------------------------------------------------------------
(***************************************************************************)
(* env_free.                                                               *)
(***************************************************************************)
\* env_free: everything that a mapped is gone, and nobody else's mapping changes.
LEMMA FreeEnv ==
  ASSUME NEW m, NEW g, Sound(m, g), NEW a \in ASIDs, g[a] # NIL,
         NEW n, n = free_tables(m, g[a], a, {i \in UserX : m.tab[g[a]][i] # NIL}),
         NEW r, r = tlb_invalidate(page_decref(n, g[a]), a, <<UVPT, UVPT>>),
         NEW g2, g2 = [g EXCEPT ![a] = NIL]
  PROVE  Good(m, r, g2) /\ AtMostOne(m, g, r, g2)
<1>p. PICK p : p = g[a]
  OBVIOUS
<1>s. PICK S : S = {i \in UserX : m.tab[g[a]][i] # NIL}
  OBVIOUS
<1>d. PICK d : d = page_decref(n, p)
  OBVIOUS
<1>x. PICK x0 : x0 = <<"dir", a>>
  OBVIOUS
<1>1. S \in SUBSET UserX /\ \A i \in UserX : i \in S <=> T(m, g, a, i) # NIL
  BY <1>s DEF T
<1>2. Freed(m, n, g, a, S)
  <2>1. n = free_tables(m, g[a], a, S)
    BY <1>s
  <2> QED BY <1>1, <2>1, FreeTables
<1>3. /\ Sound(n, g) /\ n.panic = m.panic /\ n.tlb \subseteq m.tlb
      /\ \A i \in UserX : T(n, g, a, i) = NIL
      /\ \A b \in ASIDs, w \in UserVAs : b # a => V(n, g, b, w) = V(m, g, b, w)
  <2>1. UserX \subseteq Idx
    BY Consts
  <2> QED BY <1>1, <1>2, <2>1 DEF Freed
<1>4. \A w \in UserVAs : V(n, g, a, w) = NIL
  BY <1>3, UserVA DEF V
<1>5. /\ n \in Mem /\ Owned(n, g) /\ Typed(n, g) /\ SelfMaps(n, g) /\ Coherent(n, g) /\ g \in Dirs
  BY <1>3 DEF Sound, Owned, Typed
<1>6. p \in FreePages /\ p # NIL /\ x0 \in Pointers /\ Aim(n, g, x0) = p
  BY <1>5, <1>p, <1>x, Types, AimOf
<1>7. n.ref[p] # 0
  <2>1. x0 \in RefsIn(n, g, p)
    BY <1>6 DEF RefsIn
  <2>2. n.ref[p] = Cardinality(RefsIn(n, g, p))
    BY <1>5, <1>6, <2>1 DEF Owned, Counted
  <2> QED BY <2>1, <2>2, RefsFinite, FS_EmptySet
<1>8. /\ d \in Mem /\ d.tab = n.tab /\ d.tlb = n.tlb /\ d.panic = n.panic
      /\ d.ref = [n.ref EXCEPT ![p] = @ - 1]
      /\ d.free = IF n.ref[p] = 1 THEN <<p>> \o n.free ELSE n.free
  <2>1. n \in Mem /\ p \in FreePages /\ n.ref[p] # 0
    BY <1>5, <1>6, <1>7
  <2> QED BY ONLY <2>1, <1>d, DecrefFields
<1>9. /\ r \in Mem /\ r.ref = d.ref /\ r.free = d.free /\ r.tab = d.tab /\ r.panic = d.panic
      /\ r.tlb = {t \in d.tlb : ~(t.asid = a /\ t.va = <<UVPT, UVPT>>)}
  BY <1>8, <1>d, <1>p DEF tlb_invalidate, Mem
<1>10. /\ g2 \in Dirs /\ g2[a] = NIL /\ \A b \in ASIDs : b # a => g2[b] = g[b]
  BY <1>5 DEF Dirs
<1>11. r.tab = n.tab
  BY <1>8, <1>9
<1>12. \A b \in ASIDs : b # a => /\ \A i \in Idx : T(r, g2, b, i) = T(n, g, b, i)
                                 /\ \A w \in UserVAs : V(r, g2, b, w) = V(n, g, b, w)
  <2>1. \A b \in ASIDs : b # a => g2[b] = g[b]
    BY <1>10
  <2> QED BY ONLY <2>1, <1>11 DEF T, V
<1>13. \A i \in Idx : T(r, g2, a, i) = NIL
  BY <1>10 DEF T
<1>14. \A w \in UserVAs : V(r, g2, a, w) = NIL
  BY <1>13, UserVA DEF V
<1>15. ASSUME NEW x \in Pointers, x # x0 PROVE Aim(r, g2, x) = Aim(n, g, x)
  <2>1. /\ x[2] \in ASIDs
        /\ \/ x[1] = "dir" /\ x[2] # a
           \/ x[1] = "table" /\ x[3] \in UserX
           \/ x[1] = "page" /\ x[3] \in UserVAs
    BY <1>15, <1>x, Ptr
  <2>2. UserX \subseteq Idx
    BY Consts
  <2>3. CASE x[1] = "dir" /\ x[2] # a
    BY <2>1, <2>3, <1>10 DEF Aim
  <2>4. CASE x[1] = "table" /\ x[3] \in UserX
    <3>1. T(r, g2, x[2], x[3]) = T(n, g, x[2], x[3])
      BY <2>1, <2>2, <2>4, <1>3, <1>12, <1>13
    <3> QED BY <3>1, <2>4 DEF Aim
  <2>5. CASE x[1] = "page" /\ x[3] \in UserVAs
    <3>1. V(r, g2, x[2], x[3]) = V(n, g, x[2], x[3])
      BY <2>1, <2>5, <1>4, <1>12, <1>14
    <3> QED BY <3>1, <2>5 DEF Aim
  <2> QED BY <2>1, <2>3, <2>4, <2>5
<1>16. Aim(r, g2, x0) = NIL
  <2>1. a \in ASIDs /\ g2[a] = NIL
    BY <1>10
  <2> QED BY ONLY <2>1, <1>x, AimOf
<1>17. Owned(r, g2)
  <2>1. /\ Owned(n, g) /\ r \in Mem /\ g2 \in Dirs
        /\ r.ref = [n.ref EXCEPT ![p] = @ - 1]
        /\ r.free = IF n.ref[p] = 1 THEN <<p>> \o n.free ELSE n.free
    BY <1>5, <1>8, <1>9, <1>10
  <2> QED BY ONLY <2>1, <1>6, <1>15, <1>16, DropPtr
<1>18. SelfMaps(r, g2)
  BY <1>5, <1>10, <1>11 DEF SelfMaps
<1>19. Coherent(r, g2)
  <2>1. ASSUME NEW t \in r.tlb, Seen(n, g, t.asid, t.va) # NIL
        PROVE  Seen(r, g2, t.asid, t.va) = Seen(n, g, t.asid, t.va)
    <3>1. t.asid \in ASIDs /\ t.va \in VAs /\ ~(t.asid = a /\ t.va = <<UVPT, UVPT>>)
      BY <1>9 DEF Mem, Entries
    <3>2. t.va[1] \in Idx /\ t.va[2] \in Idx /\ t.va = <<t.va[1], t.va[2]>> /\ (t.va[1] \in UserX => t.va \in UserVAs)
      BY <3>1 DEF VAs, UserVAs
    <3>3. CASE t.asid = a
      <4>1. t.va[1] \in UserX => Seen(n, g, t.asid, t.va) = NIL
        BY <3>2, <3>3, <1>4 DEF Seen
      <4>2. t.va[1] \notin UserX
        BY <2>1, <4>1
      <4>3. CASE t.va[1] = UENVS
        BY <4>2, <4>3 DEF Seen
      <4>4. CASE t.va[1] # UENVS
        <5>1. t.va[1] = UVPT /\ t.va[2] # UVPT
          BY <3>1, <3>2, <3>3, <4>2, <4>4, Consts
        <5>2. t.va[2] \notin UserX
          BY <2>1, <3>3, <4>2, <4>4, <1>3 DEF Seen
        <5>3. t.va[2] = UENVS
          BY <3>2, <5>1, <5>2, Consts
        <5> QED BY <4>2, <4>4, <5>2, <5>3 DEF Seen
      <4> QED BY <4>3, <4>4
    <3>4. CASE t.asid # a
      BY <3>1, <3>2, <3>4, <1>10, <1>12 DEF Seen
    <3> QED BY <3>3, <3>4
  <2>2. n \in Mem /\ Coherent(n, g) /\ r.tlb \subseteq n.tlb
    BY <1>5, <1>8, <1>9
  <2> QED BY ONLY <2>1, <2>2, StaysCoherent
<1>20. \A b \in ASIDs, w \in UserVAs : b # a => V(r, g2, b, w) = V(m, g, b, w)
  BY <1>3, <1>12
<1>21. Good(m, r, g2)
  BY <1>3, <1>8, <1>9, <1>17, <1>18, <1>19 DEF Good, Sound
<1>22. AtMostOne(m, g, r, g2)
  <2>1. \A b \in ASIDs, w \in UserVAs : g[b] # NIL /\ g2[b] # NIL => V(r, g2, b, w) = V(m, g, b, w)
    BY <1>10, <1>20
  <2> QED BY ONLY <2>1, Untouched
<1> QED BY <1>21, <1>22

-----------------------------------------------------------------------------
(***************************************************************************)
(* The inductive invariant, and every step of Next.                        *)
(***************************************************************************)
\* No page has as many pointers to it as pp_ref can count: it is a u_short, and
\* page_insert increments it without a look (pmap.c:252). One environment has more
\* user addresses than that, so no bound on the number of environments or pages
\* rules it out.
FewRefs == \A p \in FreePages : Cardinality(Refs(p)) < RefMod

\* The inductive invariant. That page_decref's assertion has not failed is part of
\* it: a page is released only where there was a pointer to it.
PmapInv == /\ Sound(Memory, pgdir)
           /\ IsFiniteSet(tlb) /\ Cardinality(tlb) <= TLBSize
           /\ panic # "pp_ref > 0"

\* With so few addresses that their pointers can all be counted, FewRefs holds.
LEMMA FewPointers == Cardinality(Pointers) < RefMod => FewRefs
<1>1. \A p : IsFiniteSet(Refs(p)) /\ Cardinality(Refs(p)) <= Cardinality(Pointers)
  BY PointersFinite, FS_Subset DEF Refs
<1>2. RefMod \in Nat /\ Cardinality(Pointers) \in Nat /\ \A p : Cardinality(Refs(p)) \in Nat
  BY <1>1, Consts, PointersFinite, FS_CardinalityType
<1> QED BY <1>1, <1>2 DEF FewRefs

\* Refs of the model is RefsIn of the current memory.
LEMMA RefsAre == (\A p : Refs(p) = RefsIn(Memory, pgdir, p)) /\ \A p : Refs(p)' = RefsIn(Memory', pgdir', p)
<1>1. \A x \in Pointers : Target(x) = Aim(Memory, pgdir, x)
  <2>1. ASSUME NEW x \in Pointers PROVE Target(x) = Aim(Memory, pgdir, x)
    <3>1. x[2] \in ASIDs /\ x[1] \in {"dir", "table", "page"}
      BY Ptr
    <3> QED BY <3>1 DEF Target, Aim, T, V, Live, Maps, Memory, page_lookup, PageOf
  <2> QED BY <2>1
<1>2. \A x \in Pointers : Target(x)' = Aim(Memory', pgdir', x)
  <2>1. ASSUME NEW x \in Pointers PROVE Target(x)' = Aim(Memory', pgdir', x)
    <3>1. x[2] \in ASIDs /\ x[1] \in {"dir", "table", "page"}
      BY Ptr
    <3> QED BY <3>1 DEF Target, Aim, T, V, Live, Maps, Memory, page_lookup, PageOf
  <2> QED BY <2>1
<1> QED BY <1>1, <1>2 DEF Refs, RefsIn

LEMMA FewNext ==
  ASSUME FewRefs', NEW r, Become(r)
  PROVE  Few(r, pgdir')
<1>1. Memory'.tab = r.tab
  BY DEF Become, Memory
<1>2. \A p : RefsIn(r, pgdir', p) = RefsIn(Memory', pgdir', p)
  BY <1>1, SameTab, SameAims
<1> QED BY <1>2, RefsAre DEF FewRefs, Few

LEMMA BecomeMem ==
  ASSUME NEW r, r \in Mem, Become(r)
  PROVE  Memory' = r
BY DEF Become, Memory, Mem

LEMMA GoodStep ==
  ASSUME PmapInv, panic = "no", NEW r, Become(r), Good(Memory, r, pgdir')
  PROVE  PmapInv' /\ Memory' = r
<1>1. Sound(r, pgdir') /\ r.tlb \subseteq Memory.tlb /\ r.panic \in {Memory.panic, "bad access", "out of memory"}
  BY DEF Good
<1>2. Memory' = r
  BY <1>1, BecomeMem DEF Sound, Owned, Typed
<1>3. tlb' \subseteq tlb /\ panic' \in {panic, "bad access", "out of memory"}
  BY <1>1, <1>2 DEF Memory
<1>4. IsFiniteSet(tlb') /\ Cardinality(tlb') <= TLBSize
  <2>1. IsFiniteSet(tlb') /\ Cardinality(tlb') <= Cardinality(tlb) /\ Cardinality(tlb') \in Nat /\ Cardinality(tlb) \in Nat
    BY <1>3, FS_Subset, FS_CardinalityType DEF PmapInv
  <2> QED BY <2>1, Consts DEF PmapInv
<1>5. panic' # "pp_ref > 0"
  BY <1>3
<1> QED BY <1>1, <1>2, <1>4, <1>5 DEF PmapInv

\* What is to be shown of each step: the invariant, and one mapping at most.
StepOk == PmapInv' /\ AtMostOne(Memory, pgdir, Memory', pgdir')

LEMMA MemoryFields ==
  /\ Memory.ref = ref /\ Memory.free = freeList /\ Memory.tab = tab /\ Memory.tlb = tlb /\ Memory.panic = panic
BY DEF Memory

LEMMA SysMemAllocOk ==
  ASSUME PmapInv, FewRefs', NEW a \in ASIDs, NEW va \in UserVAs, NEW perm \in Perms, sys_mem_alloc(a, va, perm)
  PROVE  StepOk
<1>m. PICK m : m = Memory
  OBVIOUS
<1>r. PICK r : r = page_insert(page_alloc(m), pgdir[a], a, Head(m.free), va, perm)
  OBVIOUS
<1>1. panic = "no" /\ pgdir[a] # NIL /\ m.free # <<>> /\ Become(r) /\ pgdir' = pgdir /\ Sound(m, pgdir)
  BY <1>m, <1>r, MemoryFields DEF sys_mem_alloc, Live, PmapInv
<1>2. Few(r, pgdir)
  BY <1>1, FewNext
<1>3. Good(m, r, pgdir) /\ Only(m, r, pgdir, a, va)
  BY <1>1, <1>2, <1>r, MemAlloc
<1>4. PmapInv' /\ Memory' = r
  BY <1>1, <1>3, <1>m, GoodStep
<1> QED BY <1>1, <1>3, <1>4, <1>m, OnlyOne DEF StepOk

LEMMA MapPageOk ==
  ASSUME PmapInv, FewRefs', NEW s \in ASIDs, NEW v \in UserVAs, NEW d \in ASIDs, NEW w \in UserVAs,
         NEW perm \in Perms, map_page(s, v, d, w, perm)
  PROVE  StepOk
<1>m. PICK m : m = Memory
  OBVIOUS
<1>r. PICK r : r = page_insert(m, pgdir[d], d, page_lookup(m, pgdir[s], v).pp, w, perm)
  OBVIOUS
<1>1. /\ panic = "no" /\ pgdir[s] # NIL /\ pgdir[d] # NIL /\ page_lookup(m, pgdir[s], v) # NIL
      /\ Become(r) /\ pgdir' = pgdir /\ Sound(m, pgdir)
  BY <1>m, <1>r DEF map_page, Live, PmapInv
<1>2. Few(r, pgdir)
  BY <1>1, FewNext
<1>3. Good(m, r, pgdir) /\ Only(m, r, pgdir, d, w)
  BY <1>1, <1>2, <1>r, MapPage
<1>4. PmapInv' /\ Memory' = r
  BY <1>1, <1>3, <1>m, GoodStep
<1> QED BY <1>1, <1>3, <1>4, <1>m, OnlyOne DEF StepOk

LEMMA SysMemUnmapOk ==
  ASSUME PmapInv, NEW a \in ASIDs, NEW va \in UserVAs, sys_mem_unmap(a, va)
  PROVE  StepOk
<1>m. PICK m : m = Memory
  OBVIOUS
<1>r. PICK r : r = page_remove(m, pgdir[a], a, va)
  OBVIOUS
<1>1. panic = "no" /\ pgdir[a] # NIL /\ Become(r) /\ pgdir' = pgdir /\ Sound(m, pgdir)
  BY <1>m, <1>r DEF sys_mem_unmap, Live, PmapInv
<1>3. Good(m, r, pgdir) /\ Only(m, r, pgdir, a, va)
  BY <1>1, <1>r, Unmap
<1>4. PmapInv' /\ Memory' = r
  BY <1>1, <1>3, <1>m, GoodStep
<1> QED BY <1>1, <1>3, <1>4, <1>m, OnlyOne DEF StepOk

LEMMA EnvAllocOk ==
  ASSUME PmapInv, NEW a \in ASIDs, env_alloc(a)
  PROVE  StepOk
<1>m. PICK m : m = Memory
  OBVIOUS
<1>r. PICK r : r = env_setup_vm(m)
  OBVIOUS
<1>1. /\ panic = "no" /\ pgdir[a] = NIL /\ m.free # <<>> /\ Become(r) /\ Sound(m, pgdir)
      /\ pgdir' = [pgdir EXCEPT ![a] = Head(m.free)]
  BY <1>m, <1>r, MemoryFields DEF env_alloc, Live, PmapInv
<1>2. Good(m, r, pgdir') /\ AtMostOne(m, pgdir, r, pgdir')
  <2>1. PICK g2 : g2 = [pgdir EXCEPT ![a] = Head(m.free)]
    OBVIOUS
  <2>2. Good(m, r, g2) /\ AtMostOne(m, pgdir, r, g2)
    <3>1. Sound(m, pgdir) /\ m.free # <<>> /\ a \in ASIDs /\ pgdir[a] = NIL
      BY <1>1
    <3> QED BY ONLY <3>1, <1>r, <2>1, AllocEnv
  <2>3. pgdir' = g2
    BY <1>1, <2>1
  <2> QED BY <2>2, <2>3
<1>3. PmapInv' /\ Memory' = r
  BY <1>1, <1>2, <1>m, GoodStep
<1> QED BY <1>2, <1>3, <1>m DEF StepOk

LEMMA EnvAllocFailsOk ==
  ASSUME PmapInv, env_alloc_fails
  PROVE  StepOk
<1>m. PICK m : m = Memory
  OBVIOUS
<1>r. PICK r : r = env_setup_vm(m)
  OBVIOUS
<1>1. panic = "no" /\ m.free # <<>> /\ Become(r) /\ Sound(m, pgdir) /\ pgdir' = pgdir
  BY <1>m, <1>r, MemoryFields DEF env_alloc_fails, PmapInv
<1>2. Good(m, r, pgdir) /\ SameMap(m, r, pgdir)
  BY <1>1, <1>r, AllocFails
<1>3. PmapInv' /\ Memory' = r
  BY <1>1, <1>2, <1>m, GoodStep
<1>4. AtMostOne(m, pgdir, r, pgdir)
  BY <1>2, Untouched DEF SameMap
<1> QED BY <1>1, <1>3, <1>4, <1>m DEF StepOk

LEMMA EnvFreeOk ==
  ASSUME PmapInv, NEW a \in ASIDs, env_free(a)
  PROVE  StepOk
<1>m. PICK m : m = Memory
  OBVIOUS
<1>n. PICK n : n = free_tables(m, pgdir[a], a, {i \in UserX : m.tab[pgdir[a]][i] # NIL})
  OBVIOUS
<1>r. PICK r : r = tlb_invalidate(page_decref(n, pgdir[a]), a, <<UVPT, UVPT>>)
  OBVIOUS
<1>1. /\ panic = "no" /\ pgdir[a] # NIL /\ Become(r) /\ Sound(m, pgdir)
      /\ pgdir' = [pgdir EXCEPT ![a] = NIL]
  BY <1>m, <1>n, <1>r, MemoryFields DEF env_free, Live, PmapInv
<1>2. Good(m, r, pgdir') /\ AtMostOne(m, pgdir, r, pgdir')
  <2>1. PICK g2 : g2 = [pgdir EXCEPT ![a] = NIL]
    OBVIOUS
  <2>2. Good(m, r, g2) /\ AtMostOne(m, pgdir, r, g2)
    <3>1. Sound(m, pgdir) /\ a \in ASIDs /\ pgdir[a] # NIL
      BY <1>1
    <3> QED BY ONLY <3>1, <1>n, <1>r, <2>1, FreeEnv
  <2>3. pgdir' = g2
    BY <1>1, <2>1
  <2> QED BY <2>2, <2>3
<1>3. PmapInv' /\ Memory' = r
  BY <1>1, <1>2, <1>m, GoodStep
<1> QED BY <1>2, <1>3, <1>m DEF StepOk

\* No call changes the shape of the memory record.
LEMMA Domains ==
  ASSUME NEW m, NEW dir, NEW a, NEW va
  PROVE  DOMAIN passive_alloc(m, dir, a, va) = DOMAIN m
<1>1. \A n, p : DOMAIN page_decref(n, p) = DOMAIN n
  BY DEF page_decref
<1>2. \A n, p : DOMAIN incref(n, p) = DOMAIN n
  BY DEF incref
<1>3. \A n, v : DOMAIN tlb_invalidate(n, a, v) = DOMAIN n
  BY DEF tlb_invalidate
<1>4. \A n, v, e : DOMAIN set_pte(n, dir, v, e) = DOMAIN n
  BY DEF set_pte
<1>5. \A n : DOMAIN page_alloc(n) = DOMAIN n
  BY DEF page_alloc
<1>6. \A n, v : DOMAIN page_remove(n, dir, a, v) = DOMAIN n
  BY <1>1, <1>3, <1>4 DEF page_remove
<1>7. \A n, v : DOMAIN pgdir_walk(n, dir, v) = DOMAIN n
  BY <1>2, <1>5 DEF pgdir_walk
<1>8. \A n, p, v, perm : DOMAIN page_insert(n, dir, a, p, v, perm) = DOMAIN n
  BY <1>2, <1>3, <1>4, <1>6, <1>7 DEF page_insert
<1> QED BY <1>5, <1>8 DEF passive_alloc

LEMMA RefillOk ==
  ASSUME PmapInv, FewRefs', NEW a \in ASIDs, NEW va \in VAs, do_tlb_refill(a, va)
  PROVE  StepOk
<1>m. PICK m : m = Memory
  OBVIOUS
<1>r. PICK r : r = IF page_lookup(m, pgdir[a], va) = NIL THEN passive_alloc(m, pgdir[a], a, va) ELSE m
  OBVIOUS
<1>1. /\ panic = "no" /\ pgdir[a] # NIL /\ Sound(m, pgdir) /\ pgdir' = pgdir
      /\ TlbOk(m) /\ m.panic = "no"
  BY <1>m, <1>r, MemoryFields DEF do_tlb_refill, Live, PmapInv, TlbOk
<1>2. IF r.panic # "no" THEN Become(r)
      ELSE \E n \in tlbwr(r, [asid |-> a, va |-> va, pte |-> page_lookup(r, pgdir[a], va)]) : Become(n)
  BY <1>m, <1>r DEF do_tlb_refill
<1>d. "tab" \in DOMAIN r
  <2>1. m \in Mem
    BY <1>1 DEF Sound, Owned, Typed
  <2>2. "tab" \in DOMAIN m
    BY <2>1 DEF Mem
  <2>3. DOMAIN r = DOMAIN m
    BY <1>r, Domains
  <2> QED BY <2>2, <2>3
<1>3. Few(r, pgdir)
  <2>1. CASE r.panic # "no"
    BY <1>1, <1>2, <2>1, FewNext
  <2>2. CASE r.panic = "no"
    <3>1. PICK n \in tlbwr(r, [asid |-> a, va |-> va, pte |-> page_lookup(r, pgdir[a], va)]) : Become(n)
      BY <1>2, <2>2
    <3>2. Few(n, pgdir)
      BY <1>1, <3>1, FewNext
    <3>3. n.tab = r.tab
      <4>1. PICK t : n = [r EXCEPT !.tlb = t]
        BY <3>1 DEF tlbwr
      <4> QED BY <1>d, <4>1
    <3>4. \A q : RefsIn(n, pgdir, q) = RefsIn(r, pgdir, q)
      BY <3>3, SameTab, SameAims
    <3> QED BY <3>2, <3>4 DEF Few
  <2> QED BY <2>1, <2>2
<1>4. /\ Good(m, r, pgdir) /\ (r.panic = "no" => page_lookup(r, pgdir[a], va) \in Ptes)
      /\ AtMostOne(m, pgdir, r, pgdir)
  <2>1. CASE page_lookup(m, pgdir[a], va) = NIL
    <3>1. r = passive_alloc(m, pgdir[a], a, va)
      BY <1>r, <2>1
    <3>2. /\ Good(m, r, pgdir)
          /\ r.panic \in {"bad access", "out of memory"} \/ page_lookup(r, pgdir[a], va) \in Ptes
          /\ AtMostOne(m, pgdir, r, pgdir)
      <4>1. Sound(m, pgdir) /\ a \in ASIDs /\ pgdir[a] # NIL /\ va \in VAs
        BY <1>1
      <4> QED BY ONLY <4>1, <1>3, <2>1, <3>1, PassiveAlloc
    <3> QED BY <3>2
  <2>2. CASE page_lookup(m, pgdir[a], va) # NIL
    <3>1. r = m
      BY <1>r, <2>2
    <3>2. page_lookup(m, pgdir[a], va) \in Ptes
      <4>1. va[1] \in Idx /\ va[2] \in Idx
        BY DEF VAs
      <4>2. pgdir[a] \in Pages /\ m.tab \in [Pages -> [Idx -> Ptes \cup {NIL}]]
        BY <1>1, Types, Consts DEF Sound, Owned, Typed, Mem
      <4>3. m.tab[pgdir[a]][va[1]] # NIL => m.tab[pgdir[a]][va[1]].pp \in Pages
        BY <4>1, <4>2 DEF Ptes
      <4> QED BY <2>2, <4>1, <4>2, <4>3 DEF page_lookup
    <3>3. AtMostOne(m, pgdir, m, pgdir)
      BY Untouched
    <3> QED BY <1>1, <3>1, <3>2, <3>3 DEF Good
  <2> QED BY <2>1, <2>2
<1>7. CASE r.panic # "no"
  <2>1. Become(r)
    BY <1>2, <1>7
  <2>2. PmapInv' /\ Memory' = r
    BY <1>1, <1>4, <1>m, <2>1, GoodStep
  <2> QED BY <1>1, <1>4, <1>m, <2>2 DEF StepOk
<1>8. CASE r.panic = "no"
  <2>1. PICK n \in tlbwr(r, [asid |-> a, va |-> va, pte |-> page_lookup(r, pgdir[a], va)]) : Become(n)
    BY <1>2, <1>8
  <2>2. Sound(r, pgdir) /\ TlbOk(r) /\ page_lookup(r, pgdir[a], va) \in Ptes
    <3>1. r.tlb \subseteq m.tlb
      BY <1>4 DEF Good
    <3>2. IsFiniteSet(r.tlb) /\ Cardinality(r.tlb) <= Cardinality(m.tlb) /\ Cardinality(r.tlb) \in Nat /\ Cardinality(m.tlb) \in Nat
      BY <1>1, <3>1, FS_Subset, FS_CardinalityType DEF TlbOk
    <3> QED BY <1>1, <1>4, <1>8, <3>2, Consts DEF TlbOk, Good
  <2>3. Sound(n, pgdir) /\ TlbOk(n) /\ n.panic = r.panic /\ SameMap(r, n, pgdir)
    BY <1>1, <2>1, <2>2, Tlbwr
  <2>4. Memory' = n
    BY <2>1, <2>3, BecomeMem DEF Sound, Owned, Typed
  <2>5. PmapInv'
    <3>1. tlb' = n.tlb /\ panic' = n.panic
      BY <2>1 DEF Become
    <3> QED BY <1>1, <1>8, <2>3, <2>4, <3>1 DEF PmapInv, TlbOk
  <2>6. Touched(m, pgdir, n, pgdir) = Touched(m, pgdir, r, pgdir)
    BY <2>3 DEF Touched, SameMap
  <2>7. AtMostOne(m, pgdir, n, pgdir)
    BY <1>4, <2>6 DEF AtMostOne
  <2> QED BY <1>1, <1>m, <2>4, <2>5, <2>7 DEF StepOk
<1> QED BY <1>7, <1>8

-----------------------------------------------------------------------------
(***************************************************************************)
(* The initial state, and the theorems.                                    *)
(***************************************************************************)
\* page_init puts every page on the list once.
LEMMA InitFree ==
  ASSUME Init
  PROVE  freeList \in Seq(FreePages) /\ \A i, j \in DOMAIN freeList : freeList[i] = freeList[j] => i = j
<1>s. PICK s : s = freeList
  OBVIOUS
<1>n. PICK n : n = Cardinality(FreePages)
  OBVIOUS
<1>1. IsFiniteSet(FreePages) /\ n \in Nat
  BY <1>n, PmapAssumption, FS_CardinalityType
<1>2. PICK f : f \in Bijection(1 .. n, FreePages)
  BY <1>n, <1>1, FS_CardinalityType DEF ExistsBijection
<1>3. f \in [1 .. n -> FreePages] /\ \A p \in FreePages : \E i \in DOMAIN f : f[i] = p
  BY <1>2 DEF Bijection, Surjection
<1>4. s \in [1 .. n -> FreePages] /\ \A p \in FreePages : \E i \in DOMAIN s : s[i] = p
  BY <1>3, <1>n, <1>s DEF Init
<1>5. s \in Surjection(1 .. n, FreePages)
  BY <1>4 DEF Surjection
<1>6. IsFiniteSet(1 .. n) /\ Cardinality(1 .. n) = n
  BY <1>1, FS_Interval
<1>7. s \in Injection(1 .. n, FreePages)
  BY <1>1, <1>5, <1>6, <1>n, FS_SurjSameCardinalityImpliesInj
<1>8. s \in Seq(FreePages)
  BY <1>1, <1>4
<1> QED BY <1>7, <1>8, <1>s DEF Injection, IsInjective

LEMMA InitInv == Init => PmapInv
<1> SUFFICES ASSUME Init PROVE PmapInv
  OBVIOUS
<1>1. freeList \in Seq(FreePages) /\ \A i, j \in DOMAIN freeList : freeList[i] = freeList[j] => i = j
  BY InitFree
<1>2. /\ pgdir = [a \in ASIDs |-> NIL] /\ pgdir \in Dirs /\ tlb = {} /\ panic = "no"
  BY DEF Init, Dirs
<1>3. ref \in [Pages -> 0 .. RefMod - 1] /\ \A p \in FreePages : ref[p] = 0
  BY Consts DEF Init
<1>4. [pp |-> KPAGE, perm |-> "R"] \in Ptes
  BY Consts DEF Ptes, Perms
<1>5. tab \in [Pages -> [Idx -> Ptes \cup {NIL}]]
  BY <1>4 DEF Init
<1>6. tab[BASE] = BaseTab
  BY Consts DEF Init, BaseTab
<1>m. PICK m : m = Memory
  OBVIOUS
<1>7. m.ref = ref /\ m.free = freeList /\ m.tab = tab /\ m.tlb = tlb /\ m.panic = panic
  BY <1>m, MemoryFields
<1>8. m \in Mem
  BY <1>m, <1>1, <1>2, <1>3, <1>5 DEF Memory, Mem, Panics
<1>9. ASSUME NEW x \in Pointers PROVE Aim(m, pgdir, x) = NIL
  <2>1. x[2] \in ASIDs /\ x[1] \in {"dir", "table", "page"}
    BY Ptr
  <2>2. pgdir[x[2]] = NIL
    BY <2>1, <1>2
  <2> QED BY <2>1, <2>2 DEF Aim, T, V, PageOf
<1>10. \A p \in FreePages : RefsIn(m, pgdir, p) = {}
  BY <1>9, Consts DEF RefsIn
<1>11. Typed(m, pgdir)
  BY <1>2, <1>8, <1>9 DEF Typed
<1>12. Private(m, pgdir) /\ Counted(m, pgdir)
  BY <1>9, <1>10 DEF Private, Counted
<1>13. FreeOk(m, pgdir)
  BY <1>1, <1>3, <1>7, <1>10 DEF FreeOk
<1>14. SelfMaps(m, pgdir) /\ Coherent(m, pgdir)
  BY <1>2, <1>6, <1>7 DEF SelfMaps, Coherent
<1>15. IsFiniteSet(tlb) /\ Cardinality(tlb) <= TLBSize
  BY <1>2, FS_EmptySet, Consts
<1> QED BY <1>2, <1>11, <1>12, <1>13, <1>14, <1>15, <1>m DEF PmapInv, Sound, Owned

LEMMA NextInv == PmapInv /\ FewRefs' /\ Next => StepOk
<1> SUFFICES ASSUME PmapInv, FewRefs', Next PROVE StepOk
  OBVIOUS
<1>1. ASSUME NEW a \in ASIDs, env_alloc(a) PROVE StepOk
  BY <1>1, EnvAllocOk
<1>2. ASSUME env_alloc_fails PROVE StepOk
  BY <1>2, EnvAllocFailsOk
<1>3. ASSUME NEW a \in ASIDs, env_free(a) PROVE StepOk
  BY <1>3, EnvFreeOk
<1>4. ASSUME NEW a \in ASIDs, NEW va \in VAs, do_tlb_refill(a, va) PROVE StepOk
  BY <1>4, RefillOk
<1>5. ASSUME NEW a \in ASIDs, NEW va \in UserVAs, NEW perm \in Perms, sys_mem_alloc(a, va, perm) PROVE StepOk
  BY <1>5, SysMemAllocOk
<1>6. ASSUME NEW s \in ASIDs, NEW d \in ASIDs, NEW v \in UserVAs, NEW w \in UserVAs, NEW perm \in Perms,
             sys_mem_map(s, v, d, w, perm) PROVE StepOk
  BY <1>6, MapPageOk DEF sys_mem_map
<1>7. ASSUME NEW s \in ASIDs, NEW d \in ASIDs, NEW v \in UserVAs, NEW w \in UserVAs, NEW perm \in Perms,
             sys_ipc_try_send(s, v, d, w, perm) PROVE StepOk
  BY <1>7, MapPageOk DEF sys_ipc_try_send
<1>8. ASSUME NEW a \in ASIDs, NEW va \in UserVAs, sys_mem_unmap(a, va) PROVE StepOk
  BY <1>8, SysMemUnmapOk
<1> QED BY <1>1, <1>2, <1>3, <1>4, <1>5, <1>6, <1>7, <1>8 DEF Next

LEMMA StepInv == PmapInv /\ FewRefs' /\ [Next]_vars => PmapInv'
<1>1. PmapInv /\ UNCHANGED vars => PmapInv'
  BY DEF PmapInv, vars, Memory
<1>2. PmapInv /\ FewRefs' /\ Next => PmapInv'
  BY NextInv DEF StepOk
<1> QED BY <1>1, <1>2

LEMMA Invariance == Spec /\ []FewRefs => []PmapInv
BY InitInv, StepInv, PTL DEF Spec

-----------------------------------------------------------------------------
\* Every variable stays in its type: no walk reaches a page that is not a table, no
\* count leaves its width, and the TLB never holds more entries than it has.
THEOREM TypeSafe == Spec /\ []FewRefs => []TypeOK
<1>1. PmapInv => TypeOK
  <2> SUFFICES ASSUME PmapInv PROVE TypeOK
    OBVIOUS
  <2>1. Memory \in Mem /\ pgdir \in Dirs
    BY DEF PmapInv, Sound, Owned, Typed
  <2>2. /\ ref \in [Pages -> 0 .. RefMod - 1] /\ freeList \in Seq(FreePages)
        /\ tab \in [Pages -> [Idx -> Ptes \cup {NIL}]] /\ tlb \in SUBSET Entries /\ panic \in Panics
    BY <2>1, MemoryFields DEF Mem
  <2>3. freeList \in Seq(Pages)
    BY <2>2, Consts
  <2>4. pgdir \in [ASIDs -> Pages \cup {NIL}]
    BY <2>1, Consts DEF Dirs
  <2>5. Cardinality(tlb) <= TLBSize
    BY DEF PmapInv
  <2> QED BY <2>2, <2>3, <2>4, <2>5 DEF TypeOK, Entries, Panics
<1> QED BY <1>1, Invariance, PTL

\* pp_ref of a page in use is the number of pointers to it, after page_insert,
\* page_remove, pgdir_walk, passive_alloc and env_free in any order.
THEOREM RefCountsSafe == Spec /\ []FewRefs => []RefCounts
<1>1. PmapInv => RefCounts
  <2> SUFFICES ASSUME PmapInv PROVE RefCounts
    OBVIOUS
  <2>1. Counted(Memory, pgdir)
    BY DEF PmapInv, Sound, Owned
  <2> QED BY <2>1, RefsAre, MemoryFields DEF Counted, RefCounts
<1> QED BY <1>1, Invariance, PTL

\* page_free_list has each page once, and only pages nobody points to, so page_alloc
\* never hands out a page that is in use.
THEOREM FreeListSafe == Spec /\ []FewRefs => []FreeListInv
<1>1. PmapInv => FreeListInv
  <2> SUFFICES ASSUME PmapInv PROVE FreeListInv
    OBVIOUS
  <2>1. FreeOk(Memory, pgdir) /\ Memory \in Mem
    BY DEF PmapInv, Sound, Owned, Typed
  <2>2. freeList \in Seq(FreePages)
    BY <2>1, MemoryFields DEF Mem
  <2>3. \A i \in DOMAIN freeList : freeList[i] \in FreePages
    BY <2>2
  <2> QED BY <2>1, <2>3, RefsAre, MemoryFields DEF FreeOk, FreeListInv
<1> QED BY <1>1, Invariance, PTL

\* A directory or table is referenced once: neither passive_alloc through UVPT nor
\* page_insert makes a table out of a page that somebody has mapped, or the reverse.
THEOREM TablesPrivateSafe == Spec /\ []FewRefs => []TablesPrivate
<1>1. PmapInv => TablesPrivate
  <2> SUFFICES ASSUME PmapInv PROVE TablesPrivate
    OBVIOUS
  <2>1. Private(Memory, pgdir) /\ Typed(Memory, pgdir)
    BY DEF PmapInv, Sound, Owned
  <2>2. ASSUME NEW x \in Pointers, x[1] # "page", NEW p, Aim(Memory, pgdir, x) = p, p # NIL
        PROVE  Cardinality(Refs(p)) = 1
    <3>1. RefsIn(Memory, pgdir, p) = {x}
      BY <2>1, <2>2 DEF Private, RefsIn
    <3> QED BY <3>1, RefsAre, FS_Singleton
  <2>3. ASSUME NEW a \in Live PROVE Cardinality(Refs(pgdir[a])) = 1
    <3>1. a \in ASIDs /\ pgdir[a] # NIL
      BY DEF Live
    <3>2. <<"dir", a>> \in Pointers /\ Aim(Memory, pgdir, <<"dir", a>>) = pgdir[a]
      BY <3>1, AimOf
    <3> QED BY <2>2, <3>1, <3>2
  <2>4. ASSUME NEW a \in Live, NEW i \in Tables(a) PROVE Cardinality(Refs(tab[pgdir[a]][i].pp)) = 1
    <3>1. a \in ASIDs /\ pgdir[a] # NIL /\ i \in UserX /\ tab[pgdir[a]][i] # NIL
      BY <2>4 DEF Live, Tables
    <3>2. T(Memory, pgdir, a, i) = tab[pgdir[a]][i]
      BY <3>1, MemoryFields DEF T
    <3>3. <<"table", a, i>> \in Pointers /\ Aim(Memory, pgdir, <<"table", a, i>>) = tab[pgdir[a]][i].pp
      BY <3>1, <3>2, TableAim
    <3>4. tab[pgdir[a]][i].pp # NIL
      BY <2>1, <3>1, <3>2, Types, Consts
    <3> QED BY <2>2, <3>3, <3>4
  <2> QED BY <2>3, <2>4 DEF TablesPrivate
<1> QED BY <1>1, Invariance, PTL

\* Whatever the TLB holds under the ASID of a live environment is what page_lookup
\* would find: every change is followed by the tlb_invalidate it needs, and an ASID
\* that is given to another environment takes no entry with it.
THEOREM CoherentSafe == Spec /\ []FewRefs => []TLBCoherent
<1>1. PmapInv => TLBCoherent
  <2> SUFFICES ASSUME PmapInv, NEW t \in tlb, t.asid \in Live PROVE Maps(t.asid, t.va) = t.pte
    BY DEF TLBCoherent
  <2>1. Sound(Memory, pgdir) /\ Coherent(Memory, pgdir) /\ Memory \in Mem
    BY DEF PmapInv, Sound, Owned, Typed
  <2>2. t.asid \in ASIDs /\ t.va \in VAs /\ pgdir[t.asid] # NIL
    BY <2>1, MemoryFields DEF Mem, Entries, Live
  <2>3. page_lookup(Memory, pgdir[t.asid], t.va) = Seen(Memory, pgdir, t.asid, t.va)
    BY <2>1, <2>2, LookupSeen
  <2>4. t.pte = Seen(Memory, pgdir, t.asid, t.va)
    BY <2>1, MemoryFields DEF Coherent
  <2> QED BY <2>3, <2>4 DEF Maps
<1> QED BY <1>1, Invariance, PTL

\* page_decref's assertion (pmap.c:288) never fails: page_remove, env_free and
\* page_insert release a page only where a pointer to it was found.
THEOREM DecrefSafe == Spec /\ []FewRefs => [](panic # "pp_ref > 0")
<1>1. PmapInv => panic # "pp_ref > 0"
  BY DEF PmapInv
<1> QED BY <1>1, Invariance, PTL

\* A step changes the mapping of at most one user address of the environments that
\* live through it, although page_insert may free one page and passive_alloc or
\* pgdir_walk make a table of another.
THEOREM OneMappingSafe == Spec /\ []FewRefs => OneMappingPerStep
<1> DEFINE Changed == {x \in (Live \cap Live') \X UserVAs : Maps(x[1], x[2])' # Maps(x[1], x[2])}
<1>1. PmapInv /\ FewRefs' /\ [Next]_vars => [Cardinality(Changed) <= 1]_vars
  <2> SUFFICES ASSUME PmapInv, FewRefs', Next PROVE Cardinality(Changed) <= 1
    OBVIOUS
  <2>1. PICK y : Touched(Memory, pgdir, Memory', pgdir') \subseteq {y}
    BY NextInv DEF StepOk, AtMostOne
  <2>2. ASSUME NEW x \in Changed PROVE x \in Touched(Memory, pgdir, Memory', pgdir')
    <3>1. x \in ASIDs \X UserVAs /\ pgdir[x[1]] # NIL /\ pgdir'[x[1]] # NIL
          /\ page_lookup(Memory', pgdir'[x[1]], x[2]) # page_lookup(Memory, pgdir[x[1]], x[2])
      BY <2>2 DEF Live, Maps
    <3> QED BY <3>1 DEF Touched, V, T, page_lookup
  <2> HIDE DEF Changed
  <2>3. Changed \subseteq {y} /\ IsFiniteSet({y}) /\ Cardinality({y}) = 1
    BY <2>1, <2>2, FS_Singleton
  <2> QED BY <2>3, FS_Subset
<1> HIDE DEF Changed
<1>2. Spec /\ []FewRefs => [][Cardinality(Changed) <= 1]_vars
  BY <1>1, Invariance, PTL DEF Spec
<1> QED BY <1>2, PTL DEF OneMappingPerStep, Changed

=============================================================================
