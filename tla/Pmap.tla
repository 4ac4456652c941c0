-------------------------------- MODULE Pmap --------------------------------
(***************************************************************************)
(* Physical pages, page tables and the TLB: kern/pmap.c, kern/tlbex.c,     *)
(* kern/tlb_asm.S, the memory system calls of kern/syscall_all.c, and what *)
(* env_setup_vm and env_free of kern/env.c do to them.                     *)
(*                                                                         *)
(* A directory, a table and a data page are all pages: `tab' gives every   *)
(* page its entries, and an address is the pair of its directory and table *)
(* index.  Index UVPT of a directory points back to the directory, so that *)
(* <<UVPT, i>> is the address at which an environment sees table i.  Index *)
(* UENVS stands for the part that every directory copies from base_pgdir.  *)
(*                                                                         *)
(* A handler is a sequence of calls that ends before anybody else runs: it *)
(* is one step, built from operators that take the memory m before a call  *)
(* to the memory after it.  Which environment runs, and whom it may name   *)
(* in a call, is Env's matter: here any live environment does either.  It  *)
(* is called by its ASID, which no two live environments share (TableInv   *)
(* of Env).                                                                *)
(***************************************************************************)
EXTENDS Integers, Sequences, FiniteSets, FiniteSetsExt

CONSTANTS ASIDs,     \* address space identifiers
          FreePages, \* the pages page_init puts on the free list
          BASE,      \* the table base_pgdir holds at UENVS
          KPAGE,     \* the page of envs[] that BASE maps
          UserX,     \* directory indexes below UTOP
          UENVS, UVPT,
          Low,       \* user addresses below UTEMP, 0 among them
          Guard,     \* the page at USTACKTOP
          RefMod,    \* 2^16: pp_ref is a u_short
          TLBSize,
          NIL

Pages   == FreePages \cup {BASE, KPAGE}
Idx     == UserX \cup {UENVS, UVPT}
UserVAs == UserX \X Idx
VAs     == Idx \X Idx

Perms == {"R", "D"}                       \* PTE_D clear or set
Ptes  == [pp : Pages, perm : Perms]
Blank == [i \in Idx |-> NIL]

ASSUME PmapAssumption ==
  /\ UENVS \notin UserX /\ UVPT \notin UserX /\ UENVS # UVPT
  /\ BASE \notin FreePages /\ KPAGE \notin FreePages /\ BASE # KPAGE
  /\ Low \subseteq UserVAs /\ Guard \subseteq UserVAs
  /\ RefMod \in Nat \ {0, 1} /\ TLBSize \in Nat \ {0}
  /\ NIL \notin Pages \cup ASIDs \cup Ptes
  /\ IsFiniteSet(ASIDs) /\ IsFiniteSet(FreePages) /\ IsFiniteSet(UserX)

VARIABLES
  ref,       \* pp_ref
  freeList,  \* page_free_list, as a sequence
  tab,       \* the entries in every page, NIL where PTE_V is clear
  tlb,       \* the valid entries of the TLB
  pgdir,     \* env_pgdir of the environment with each ASID, NIL if there is none
  panic      \* why the kernel stopped, or "no"

vars == <<ref, freeList, tab, tlb, pgdir, panic>>

Live  == {a \in ASIDs : pgdir[a] # NIL}

\* The memory as a value, for the operators below, and the step to such a value.
Memory == [ref |-> ref, free |-> freeList, tab |-> tab, tlb |-> tlb, panic |-> panic]

Become(m) ==
  /\ ref' = m.ref
  /\ freeList' = m.free
  /\ tab' = m.tab
  /\ tlb' = m.tlb
  /\ panic' = m.panic

-----------------------------------------------------------------------------
(***************************************************************************)
(* pmap.c                                                                  *)
(***************************************************************************)
\* Mutants: the page is not taken off the list; the page is not zeroed.
page_alloc_peek(m) == [m EXCEPT !.tab[Head(m.free)] = Blank]
page_alloc_dirty(m) == [m EXCEPT !.free = Tail(m.free)]

\* page_alloc where the list is not empty: takes its first page and zeroes it.
page_alloc(m) == [m EXCEPT !.free = Tail(m.free), !.tab[Head(m.free)] = Blank]

\* Mutant: the page is freed although others still map it.
page_decref_frees(m, p) ==
  IF m.ref[p] = 0
  THEN [m EXCEPT !.panic = "pp_ref > 0"]
  ELSE [m EXCEPT !.ref[p] = @ - 1, !.free = <<p>> \o @]

\* page_decref, with page_free and the assertions of both.
page_decref(m, p) ==
  IF m.ref[p] = 0
  THEN [m EXCEPT !.panic = "pp_ref > 0"]
  ELSE [m EXCEPT !.ref[p] = @ - 1,
                 !.free = IF m.ref[p] = 1 THEN <<p>> \o @ ELSE @]

incref(m, p) == [m EXCEPT !.ref[p] = (@ + 1) % RefMod]

\* Mutant: nothing is flushed.
tlb_keep(m, a, va) == m

tlb_invalidate(m, a, va) == [m EXCEPT !.tlb = {t \in @ : ~(t.asid = a /\ t.va = va)}]

\* page_lookup: the entry for va in the directory dir, or NIL.
page_lookup(m, dir, va) ==
  LET pde == m.tab[dir][va[1]] IN
  IF pde = NIL THEN NIL ELSE m.tab[pde.pp][va[2]]

\* pgdir_walk with `create' succeeds if the table is there or can be allocated.
can_walk(m, dir, va) == m.tab[dir][va[1]] # NIL \/ m.free # <<>>

pgdir_walk(m, dir, va) ==
  IF m.tab[dir][va[1]] # NIL
  THEN m
  ELSE LET p == Head(m.free) IN
       incref([page_alloc(m) EXCEPT !.tab[dir][va[1]] = [pp |-> p, perm |-> "D"]], p)

set_pte(m, dir, va, pte) == [m EXCEPT !.tab[m.tab[dir][va[1]].pp][va[2]] = pte]

page_remove(m, dir, a, va) ==
  LET pte == page_lookup(m, dir, va) IN
  IF pte = NIL
  THEN m
  ELSE tlb_invalidate(set_pte(page_decref(m, pte.pp), dir, va, NIL), a, va)

\* Mutant: a page that is mapped at va already is counted again.
page_insert_again(m, dir, a, p, va, perm) ==
  LET old == page_lookup(m, dir, va)
      m1  == IF old # NIL /\ old.pp # p THEN page_remove(m, dir, a, va) ELSE m
      m2  == tlb_invalidate(m1, a, va)
      pte == [pp |-> p, perm |-> perm]
  IN  IF can_walk(m2, dir, va)
      THEN incref(set_pte(pgdir_walk(m2, dir, va), dir, va, pte), p)
      ELSE m2

\* page_insert: where it returns -E_NO_MEM, m is left as it was.
page_insert(m, dir, a, p, va, perm) ==
  LET old == page_lookup(m, dir, va)
      m1  == IF old # NIL /\ old.pp # p THEN page_remove(m, dir, a, va) ELSE m
      m2  == tlb_invalidate(m1, a, va)
      pte == [pp |-> p, perm |-> perm]
  IN  IF old # NIL /\ old.pp = p
      THEN set_pte(m2, dir, va, pte)
      ELSE IF can_walk(m2, dir, va)
      THEN incref(set_pte(pgdir_walk(m2, dir, va), dir, va, pte), p)
      ELSE m2

-----------------------------------------------------------------------------
(***************************************************************************)
(* tlbex.c: an access of a to va that misses in the TLB.                   *)
(***************************************************************************)
\* The addresses at which passive_alloc panics.
Rejected == Low \cup Guard \cup ({UENVS} \X Idx)

passive_alloc(m, dir, a, va) ==
  LET p  == Head(m.free)
      m1 == page_alloc(m)
  IN  IF va \in Rejected THEN [m EXCEPT !.panic = "bad access"]
      ELSE IF m.free = <<>> THEN [m EXCEPT !.panic = "out of memory"]
      ELSE IF ~can_walk(m1, dir, va) THEN [m1 EXCEPT !.panic = "out of memory"]
      ELSE page_insert(m1, dir, a, p, va, "D")

\* tlbwr overwrites a random entry, which may be a valid one.
tlbwr(m, entry) ==
  {[m EXCEPT !.tlb = t \cup {entry}] :
     t \in {s \in SUBSET m.tlb : Cardinality(s) >= Cardinality(m.tlb) - 1 /\ Cardinality(s) < TLBSize}}

\* Mutant: the entry is not looked up again after passive_alloc.
do_tlb_refill_once(a, va) ==
  LET dir == pgdir[a]
      m   == IF page_lookup(Memory, dir, va) = NIL
               THEN passive_alloc(Memory, dir, a, va) ELSE Memory
      hit == [asid |-> a, va |-> va, pte |-> page_lookup(Memory, dir, va)]
  IN  /\ panic = "no" /\ a \in Live
      /\ ~\E t \in tlb : t.asid = a /\ t.va = va
      /\ IF m.panic # "no" THEN Become(m) ELSE \E n \in tlbwr(m, hit) : Become(n)
      /\ UNCHANGED pgdir

do_tlb_refill(a, va) ==
  LET dir == pgdir[a]
      m   == IF page_lookup(Memory, dir, va) = NIL
               THEN passive_alloc(Memory, dir, a, va) ELSE Memory
      hit == [asid |-> a, va |-> va, pte |-> page_lookup(m, dir, va)]
  IN  /\ panic = "no" /\ a \in Live
      /\ ~\E t \in tlb : t.asid = a /\ t.va = va
      /\ IF m.panic # "no" THEN Become(m) ELSE \E n \in tlbwr(m, hit) : Become(n)
      /\ UNCHANGED pgdir

-----------------------------------------------------------------------------
(***************************************************************************)
(* syscall_all.c.  Calls that return an error before they change anything  *)
(* (an illegal address, an unknown environment, no page, nothing mapped at *)
(* srcva) are stuttering steps.                                            *)
(***************************************************************************)
Legal == UserVAs \ Low     \* is_illegal_va

\* The page is taken before page_insert is tried, and not given back if that
\* fails for want of a page table.
sys_mem_alloc(a, va, perm) ==
  /\ panic = "no" /\ a \in Live /\ va \in Legal
  /\ freeList # <<>>
  /\ Become(page_insert(page_alloc(Memory), pgdir[a], a, Head(freeList), va, perm))
  /\ UNCHANGED pgdir

map_page(s, srcva, d, dstva, perm) ==
  LET pte == page_lookup(Memory, pgdir[s], srcva) IN
  /\ panic = "no" /\ s \in Live /\ d \in Live
  /\ pte # NIL
  /\ Become(page_insert(Memory, pgdir[d], d, pte.pp, dstva, perm))
  /\ UNCHANGED pgdir

sys_mem_map(s, srcva, d, dstva, perm) ==
  srcva \in Legal /\ dstva \in Legal /\ map_page(s, srcva, d, dstva, perm)

\* The page that goes with a message: a receiver that asked for none has
\* env_ipc_dstva 0, and gets it there.
sys_ipc_try_send(s, srcva, d, dstva, perm) ==
  srcva \in Legal /\ dstva \in Legal \cup Low /\ map_page(s, srcva, d, dstva, perm)

sys_mem_unmap(a, va) ==
  /\ panic = "no" /\ a \in Live /\ va \in Legal
  /\ page_lookup(Memory, pgdir[a], va) # NIL
  /\ Become(page_remove(Memory, pgdir[a], a, va))
  /\ UNCHANGED pgdir

-----------------------------------------------------------------------------
(***************************************************************************)
(* env.c                                                                   *)
(***************************************************************************)
\* env_setup_vm: a directory with the shared part and the map of itself.
env_setup_vm(m) ==
  LET p == Head(m.free) IN
  incref([page_alloc(m) EXCEPT
            !.tab[p][UENVS] = [pp |-> BASE, perm |-> "R"],
            !.tab[p][UVPT]  = [pp |-> p, perm |-> "R"]], p)

\* env_alloc from env_setup_vm on, where there is a free slot: asid_alloc yields
\* an ASID that is not in use (the code's choice is the lowest).
env_alloc(a) ==
  /\ panic = "no" /\ a \notin Live /\ freeList # <<>>
  /\ Become(env_setup_vm(Memory))
  /\ pgdir' = [pgdir EXCEPT ![a] = Head(freeList)]

\* env_alloc that finds all ASIDs in use: the slot stays free, but its directory
\* has been taken.
env_alloc_fails ==
  /\ panic = "no" /\ Live = ASIDs /\ freeList # <<>>
  /\ Become(env_setup_vm(Memory))
  /\ UNCHANGED pgdir

\* env_free of one directory entry: the pages of its table, then the table.
remove_pages(m, dir, a, S) == FoldSet(LAMBDA va, n : page_remove(n, dir, a, va), m, S)

free_table(m, dir, a, i) ==
  LET table == m.tab[dir][i].pp
      m1 == remove_pages(m, dir, a, {i} \X Idx)
      m2 == page_decref([m1 EXCEPT !.tab[dir][i] = NIL], table)
  IN  tlb_invalidate(m2, a, <<UVPT, i>>)

free_tables(m, dir, a, X) == FoldSet(LAMBDA i, n : free_table(n, dir, a, i), m, X)

env_free(a) ==
  LET dir == pgdir[a]
      m   == free_tables(Memory, dir, a, {i \in UserX : tab[dir][i] # NIL})
  IN  /\ panic = "no" /\ a \in Live
      /\ Become(tlb_invalidate(page_decref(m, dir), a, <<UVPT, UVPT>>))
      /\ pgdir' = [pgdir EXCEPT ![a] = NIL]

-----------------------------------------------------------------------------
\* page_init and the part of env_init that sets up base_pgdir.
Init ==
  /\ ref = [p \in Pages |-> IF p \in FreePages THEN 0 ELSE 1]
  /\ freeList = CHOOSE s \in [1 .. Cardinality(FreePages) -> FreePages] :
                  \A p \in FreePages : \E i \in DOMAIN s : s[i] = p
  /\ tab = [p \in Pages |->
              [i \in Idx |-> IF p = BASE /\ i = UENVS THEN [pp |-> KPAGE, perm |-> "R"] ELSE NIL]]
  /\ tlb = {}
  /\ pgdir = [a \in ASIDs |-> NIL]
  /\ panic = "no"

Next ==
  \/ \E a \in ASIDs : env_alloc(a)
  \/ env_alloc_fails
  \/ \E a \in ASIDs : env_free(a)
  \/ \E a \in ASIDs, va \in VAs : do_tlb_refill(a, va)
  \/ \E a \in ASIDs, va \in UserVAs, perm \in Perms : sys_mem_alloc(a, va, perm)
  \/ \E s, d \in ASIDs, v, w \in UserVAs, perm \in Perms : sys_mem_map(s, v, d, w, perm)
  \/ \E s, d \in ASIDs, v, w \in UserVAs, perm \in Perms : sys_ipc_try_send(s, v, d, w, perm)
  \/ \E a \in ASIDs, va \in UserVAs : sys_mem_unmap(a, va)

Spec == Init /\ [][Next]_vars

-----------------------------------------------------------------------------
(***************************************************************************)
(* Properties.                                                             *)
(***************************************************************************)
\* Every variable ranges over what its C type and use allow.
TypeOK ==
  /\ ref \in [Pages -> 0 .. RefMod - 1]
  /\ freeList \in Seq(Pages)
  /\ tab \in [Pages -> [Idx -> Ptes \cup {NIL}]]
  /\ tlb \subseteq [asid : ASIDs, va : VAs, pte : Ptes] /\ Cardinality(tlb) <= TLBSize
  /\ pgdir \in [ASIDs -> Pages \cup {NIL}]
  /\ panic \in {"no", "bad access", "out of memory", "pp_ref > 0"}

\* What address va of the environment a maps to, and the tables it has.
Maps(a, va) == page_lookup(Memory, pgdir[a], va)
Tables(a) == {i \in UserX : tab[pgdir[a]][i] # NIL}

\* The pointers that pp_ref is to count (pmap.h:17): env_pgdir, the entries of
\* directories below UTOP, and the entries of their tables.  The page each points to.
Pointers == ({"dir"} \X ASIDs) \cup ({"table"} \X ASIDs \X UserX) \cup ({"page"} \X ASIDs \X UserVAs)

PageOf(pte) == IF pte = NIL THEN NIL ELSE pte.pp

Target(x) ==
  IF x[2] \notin Live THEN NIL
  ELSE CASE x[1] = "dir"   -> pgdir[x[2]]
         [] x[1] = "table" -> PageOf(tab[pgdir[x[2]]][x[3]])
         [] x[1] = "page"  -> PageOf(Maps(x[2], x[3]))

Refs(p) == {x \in Pointers : Target(x) = p}

\* pp_ref of a page in use is exactly the number of pointers to it: however
\* pages are shared, remapped over one another, demand-allocated and unmapped,
\* no page is freed early and none is held back by a stale count.
RefCounts ==
  \A p \in FreePages : Refs(p) # {} => ref[p] = Cardinality(Refs(p))

\* A page on the free list is there once, has no references and no pointer to
\* it: it is never handed out twice.
FreeListInv ==
  /\ \A i, j \in DOMAIN freeList : freeList[i] = freeList[j] => i = j
  /\ \A i \in DOMAIN freeList : freeList[i] \in FreePages /\ ref[freeList[i]] = 0
                                  /\ Refs(freeList[i]) = {}

\* Directories and tables are private: each is referenced once, and no call
\* maps one of them at a user address, so tables always form a tree.
TablesPrivate ==
  \A a \in Live :
    /\ Cardinality(Refs(pgdir[a])) = 1
    /\ \A i \in Tables(a) : Cardinality(Refs(tab[pgdir[a]][i].pp)) = 1

\* What the TLB holds for the ASID of a live environment is what its page
\* tables say, permission included: also the addresses at which it sees its
\* own tables, and after its ASID has belonged to somebody else.
TLBCoherent ==
  \A t \in tlb : t.asid \in Live => Maps(t.asid, t.va) = t.pte

\* A step changes the mapping of at most one user address among the
\* environments that live through it: replacing a page, allocating a table or
\* freeing a whole address space disturbs nobody else's memory.
OneMappingPerStep ==
  [][Cardinality({x \in (Live \cap Live') \X UserVAs :
                    Maps(x[1], x[2])' # Maps(x[1], x[2])}) <= 1]_vars

\* pmap.c:85: pages are reference counted and free pages are kept on the list,
\* so a page that nobody points to is on it.
NoLeak ==
  panic = "no" =>
    \A p \in FreePages : Refs(p) = {} => \E i \in DOMAIN freeList : freeList[i] = p
=============================================================================
