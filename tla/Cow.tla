-------------------------------- MODULE Cow ---------------------------------
(***************************************************************************)
(* Copy-on-write: fork, duppage and cow_entry of user/lib/fork.c, the      *)
(* exception do_tlb_mod of kern/tlbex.c that leads to cow_entry, and the   *)
(* system calls they make.                                                 *)
(*                                                                         *)
(* Nobody keeps a list of who shares a page.  A parent hands its pages to  *)
(* the child one by one, and takes its own right to write them away after  *)
(* the child has got them; in between, the parent goes on using its stack. *)
(* The first store to a page marked copy-on-write runs cow_entry in user   *)
(* mode, which makes a copy at the address UCOW and moves it into place.   *)
(*                                                                         *)
(* A step is one system call or one access to memory of one environment;   *)
(* the timer may switch between any two.                                   *)
(***************************************************************************)
EXTENDS Integers, FiniteSets

CONSTANTS Envs, Root,
          PrivateVPNs,   \* pages below USTACKTOP without PTE_LIBRARY
          SharedVPNs,    \* pages below USTACKTOP with PTE_LIBRARY
          StackVPN,      \* the page of the user stack, one of PrivateVPNs
          TouchedVPNs,   \* the pages that Root has mapped when it starts
          Pages,         \* physical pages for data, page tables not counted
          Words, Zero,
          MaxForks,      \* bound: calls of fork altogether
          MaxStores,     \* bound: stores altogether
          NIL

VPNs == PrivateVPNs \cup SharedVPNs
UCOW == 0    \* below all of them

ASSUME CowAssumption ==
  /\ Root \in Envs /\ NIL \notin Envs
  /\ PrivateVPNs \cap SharedVPNs = {} /\ VPNs \subseteq Nat \ {UCOW}
  /\ StackVPN \in PrivateVPNs /\ StackVPN \in TouchedVPNs /\ \A v \in VPNs : v <= StackVPN
  /\ SharedVPNs \subseteq TouchedVPNs /\ TouchedVPNs \subseteq VPNs
  /\ Pages \subseteq Int /\ IsFiniteSet(Pages) /\ Cardinality(TouchedVPNs) <= Cardinality(Pages)
  /\ Zero \in Words /\ MaxForks \in Nat /\ MaxStores \in Nat

VARIABLES
  pt,       \* pt[e][va]: the page table entry, NIL if not valid
  word,     \* the contents of each physical page
  status,   \* env_status
  entry,    \* env_user_tlb_mod_entry is cow_entry
  fork,     \* where in fork an environment is, NIL if it is not
  store,    \* the store an environment executes, NIL if none
  cow,      \* where in cow_entry it is
  panic,    \* why the kernel, or cow_entry, gave up
  forks, stores   \* how many there were so far

vars == <<pt, word, status, entry, fork, store, cow, panic, forks, stores>>

PTE(p, d, c, l) == [page |-> p, D |-> d, COW |-> c, LIBRARY |-> l]
PTEs == [page : Pages, D : BOOLEAN, COW : BOOLEAN, LIBRARY : BOOLEAN]
InFork  == [child : Envs \cup {NIL}, done : SUBSET VPNs, half : BOOLEAN]
InStore == [va : VPNs, w : Words]

ASSUME NilAssumption == NIL \notin Words /\ NIL \notin PTEs /\ NIL \notin InFork /\ NIL \notin InStore

NoMap == [va \in VPNs \cup {UCOW} |-> NIL]

Entries    == Envs \X (VPNs \cup {UCOW})
UsedBy(table) == {table[x[1]][x[2]].page : x \in {y \in Entries : table[y[1]][y[2]] # NIL}}
FreePages  == Pages \ UsedBy(pt)

\* page_alloc.  Nothing tells one free page from another: take the first.
First(S) == CHOOSE p \in S : \A q \in S : p <= q
page_alloc == {First(S) : S \in {FreePages} \ {{}}}

\* page_alloc blanks the page it gives out, so that what a free page holds makes
\* no difference: it is blanked here when its last mapping goes.
Blank(table) == \E used \in {UsedBy(table)} :
                  word' = [p \in Pages |-> IF p \in used THEN word[p] ELSE Zero]

Halt(why) == panic' = why /\ UNCHANGED <<pt, word, status, entry, fork, store, cow, forks, stores>>

Running(e) == status[e] = "RUNNABLE" /\ panic = "no"
InUser(e)  == Running(e) /\ store[e] = NIL /\ cow[e] = "no"

-----------------------------------------------------------------------------
(***************************************************************************)
(* Stores.                                                                 *)
(***************************************************************************)
\* The program stores a new word: anywhere, or, while it is in fork, to its stack.
Begin(e, v, w) ==
  /\ InUser(e)
  /\ stores < MaxStores /\ stores' = stores + 1
  /\ fork[e] # NIL => v = StackVPN
  /\ w # IF pt[e][v] = NIL THEN Zero ELSE word[pt[e][v].page]
  /\ store' = [store EXCEPT ![e] = [va |-> v, w |-> w]]
  /\ UNCHANGED <<pt, word, status, entry, fork, cow, panic, forks>>

\* Mutant: an access gets page NIL when there is none.
Demand_unchecked(e, va) ==
  \E p \in IF page_alloc = {} THEN {NIL} ELSE page_alloc :
    /\ pt' = [pt EXCEPT ![e][va] = PTE(p, TRUE, FALSE, FALSE)]
    /\ UNCHANGED <<word, status, entry, fork, store, cow, panic, forks, stores>>

\* passive_alloc: an access to a page that is not mapped gets it a blank one.
Demand(e, va) ==
  \/ /\ page_alloc = {}
     /\ Halt("no memory")
  \/ \E p \in page_alloc :
       /\ pt' = [pt EXCEPT ![e][va] = PTE(p, TRUE, FALSE, FALSE)]
       /\ UNCHANGED <<word, status, entry, fork, store, cow, panic, forks, stores>>

\* do_tlb_mod: the trap frame goes to the exception stack, and the environment
\* goes on in its handler, if it has one.
do_tlb_mod(e) ==
  IF entry[e]
  THEN cow' = [cow EXCEPT ![e] = "alloc"] /\ UNCHANGED <<pt, word, status, entry, fork, store, panic, forks, stores>>
  ELSE Halt("no handler")

\* The store itself, again and again until it goes through.
Access(e) ==
  /\ Running(e) /\ store[e] # NIL /\ cow[e] = "no"
  /\ \E s \in {store[e]}, pte \in {pt[e][store[e].va]} :
       \/ /\ pte = NIL
          /\ Demand(e, s.va)
       \/ /\ pte # NIL /\ pte.D
          /\ word' = [word EXCEPT ![pte.page] = s.w]
          /\ store' = [store EXCEPT ![e] = NIL]
          /\ UNCHANGED <<pt, status, entry, fork, cow, panic, forks, stores>>
       \/ /\ pte # NIL /\ ~pte.D
          /\ do_tlb_mod(e)

-----------------------------------------------------------------------------
(***************************************************************************)
(* cow_entry, at most one system call at a time.                           *)
(***************************************************************************)
At(e, here, next) ==
  /\ Running(e) /\ cow[e] = here
  /\ cow' = [cow EXCEPT ![e] = next]
  /\ UNCHANGED <<status, entry, fork, store, panic, forks, stores>>

\* The page must be marked copy-on-write.  The result of sys_mem_alloc is not
\* looked at.
cow_alloc(e) ==
  /\ Running(e) /\ cow[e] = "alloc"
  /\ IF ~pt[e][store[e].va].COW THEN Halt("not copy-on-write")
     ELSE /\ At(e, "alloc", "copy") /\ UNCHANGED word
          /\ \/ page_alloc = {} /\ UNCHANGED pt
             \/ \E p \in page_alloc :
                  pt' = [pt EXCEPT ![e][UCOW] = PTE(p, TRUE, FALSE, FALSE)]

\* memcpy.  Without a page at UCOW its first store asks for one.
cow_copy(e) ==
  \/ /\ Running(e) /\ cow[e] = "copy" /\ pt[e][UCOW] = NIL
     /\ Demand(e, UCOW)
  \/ /\ At(e, "copy", "map") /\ pt[e][UCOW] # NIL
     /\ word' = [word EXCEPT ![pt[e][UCOW].page] = word[pt[e][store[e].va].page]]
     /\ UNCHANGED pt

\* perm & !PTE_COW is 0: PTE_D is all that the new mapping has.
CowPTE(old, new) == PTE(new, TRUE, FALSE, FALSE)

cow_map(e) ==
  /\ At(e, "map", "unmap")
  /\ pt' = [pt EXCEPT ![e][store[e].va] = CowPTE(@, pt[e][UCOW].page)]
  /\ Blank(pt')

\* UCOW is unmapped, and back to the store with syscall_set_trapframe.
cow_unmap(e) ==
  /\ At(e, "unmap", "no")
  /\ pt' = [pt EXCEPT ![e][UCOW] = NIL]
  /\ Blank(pt')

-----------------------------------------------------------------------------
(***************************************************************************)
(* fork.                                                                   *)
(***************************************************************************)
fork_entry(e) ==
  /\ InUser(e) /\ fork[e] = NIL /\ ~entry[e]
  /\ entry' = [entry EXCEPT ![e] = TRUE]
  /\ UNCHANGED <<pt, word, status, fork, store, cow, panic, forks, stores>>

\* Without a free environment the error code is taken for an envid: fork goes
\* on, and every call about the child fails.
fork_exofork(e) ==
  /\ InUser(e) /\ fork[e] = NIL /\ entry[e]
  /\ forks < MaxForks /\ forks' = forks + 1
  /\ \E c \in Envs \cup {NIL} :
       /\ IF \E x \in Envs : status[x] = "FREE"
          THEN /\ c # NIL /\ status[c] = "FREE"
               /\ status' = [status EXCEPT ![c] = "NOT_RUNNABLE"]
               /\ entry' = [entry EXCEPT ![c] = FALSE]
          ELSE c = NIL /\ UNCHANGED <<status, entry>>
       /\ fork' = [fork EXCEPT ![e] = [child |-> c, done |-> {}, half |-> FALSE]]
  /\ UNCHANGED <<pt, word, store, cow, panic, stores>>

\* The next page of the loop: the loop goes up through the pages that are mapped.
Next_vpn(e, v) ==
  /\ v \in VPNs \ fork[e].done /\ pt[e][v] # NIL
  /\ \A x \in VPNs \ fork[e].done : pt[e][x] # NIL => v <= x

InLoop(e) == InUser(e) /\ fork[e] # NIL

\* A page that the parent may write and does not share.
Writable(pte) == pte.D /\ ~pte.LIBRARY
AsCow(pte)    == [pte EXCEPT !.D = FALSE, !.COW = TRUE]

\* Mutant: the parent's right to write is taken away first.
duppage_parent_first(e, v) ==
  \E pte \in {pt[e][v]}, c \in {fork[e].child} :
    /\ UNCHANGED <<word, status, entry, store, cow, panic, forks, stores>>
    /\ \/ /\ Writable(pte) /\ ~fork[e].half
          /\ fork' = [fork EXCEPT ![e].half = TRUE]
          /\ pt' = [pt EXCEPT ![e][v] = AsCow(pte)]
       \/ /\ ~Writable(pte) \/ fork[e].half
          /\ fork' = [fork EXCEPT ![e].done = @ \cup {v}, ![e].half = FALSE]
          /\ pt' = IF c = NIL THEN pt
                   ELSE [pt EXCEPT ![c][v] = IF fork[e].half THEN AsCow(pte) ELSE pte]

\* Mutant: the parent keeps its right to write.
duppage_child_only(e, v) ==
  \E pte \in {pt[e][v]}, c \in {fork[e].child} :
    /\ UNCHANGED <<word, status, entry, store, cow, panic, forks, stores>>
    /\ fork' = [fork EXCEPT ![e].done = @ \cup {v}]
    /\ pt' = IF c = NIL THEN pt
             ELSE [pt EXCEPT ![c][v] = IF Writable(pte) THEN AsCow(pte) ELSE pte]

\* duppage: the page is mapped in the child and then, if it was writable and
\* private, remapped in the parent.  perm was read before both.
duppage(e, v) ==
  \E pte \in {pt[e][v]}, c \in {fork[e].child} :
    /\ UNCHANGED <<word, status, entry, store, cow, panic, forks, stores>>
    /\ \/ /\ ~Writable(pte)
          /\ fork' = [fork EXCEPT ![e].done = @ \cup {v}]
          /\ pt' = IF c = NIL THEN pt ELSE [pt EXCEPT ![c][v] = pte]
       \/ /\ Writable(pte) /\ ~fork[e].half
          /\ fork' = [fork EXCEPT ![e].half = TRUE]
          /\ pt' = IF c = NIL THEN pt ELSE [pt EXCEPT ![c][v] = AsCow(pte)]
       \/ /\ Writable(pte) /\ fork[e].half
          /\ fork' = [fork EXCEPT ![e].done = @ \cup {v}, ![e].half = FALSE]
          /\ pt' = [pt EXCEPT ![e][v] = AsCow(pte)]

fork_duppage(e) ==
  /\ InLoop(e)
  /\ \E v \in VPNs : Next_vpn(e, v) /\ duppage(e, v)

\* Mutant: the child may run before it has a handler.
HasHandler_any(c) == TRUE

HasHandler(c) == entry[c]

\* The child gets its handler and then, as a second call, may run.
fork_end(e) ==
  /\ InLoop(e)
  /\ \A v \in VPNs : ~Next_vpn(e, v)
  /\ \E c \in {fork[e].child} :
       \/ /\ c # NIL /\ ~HasHandler(c)
          /\ entry' = [entry EXCEPT ![c] = TRUE]
          /\ UNCHANGED <<status, fork>>
       \/ /\ c # NIL => HasHandler(c)
          /\ fork' = [fork EXCEPT ![e] = NIL]
          /\ status' = IF c = NIL THEN status ELSE [status EXCEPT ![c] = "RUNNABLE"]
          /\ UNCHANGED entry
  /\ UNCHANGED <<pt, word, store, cow, panic, forks, stores>>

\* The end of a program: env_free unmaps everything.
exit(e) ==
  /\ InUser(e) /\ fork[e] = NIL
  /\ status' = [status EXCEPT ![e] = "FREE"]
  /\ pt' = [pt EXCEPT ![e] = NoMap]
  /\ Blank(pt')
  /\ UNCHANGED <<entry, fork, store, cow, panic, forks, stores>>

-----------------------------------------------------------------------------
cow_entry(e) == cow_alloc(e) \/ cow_copy(e) \/ cow_map(e) \/ cow_unmap(e)

Next ==
  \E e \in Envs :
    \/ \E v \in VPNs, w \in Words : Begin(e, v, w)
    \/ Access(e)
    \/ cow_entry(e)
    \/ fork_entry(e) \/ fork_exofork(e) \/ fork_duppage(e) \/ fork_end(e)
    \/ exit(e)

\* Root's pages: the k-th of those it has mapped is the k-th physical page.
Rank(x, S) == Cardinality({y \in S : y < x})
FirstPage(v) == CHOOSE p \in Pages : Rank(p, Pages) = Rank(v, TouchedVPNs)

Init ==
  /\ pt = [e \in Envs |-> [va \in VPNs \cup {UCOW} |->
             IF e = Root /\ va \in TouchedVPNs
             THEN PTE(FirstPage(va), TRUE, FALSE, va \in SharedVPNs) ELSE NIL]]
  /\ word = [p \in Pages |-> Zero]
  /\ status = [e \in Envs |-> IF e = Root THEN "RUNNABLE" ELSE "FREE"]
  /\ entry = [e \in Envs |-> FALSE]
  /\ fork = [e \in Envs |-> NIL]
  /\ store = [e \in Envs |-> NIL]
  /\ cow = [e \in Envs |-> "no"]
  /\ panic = "no"
  /\ forks = 0 /\ stores = 0

Spec == Init /\ [][Next]_vars

\* The scheduler runs everybody who is runnable (NoStarvation of Env).
FairSpec == Spec /\ \A e \in Envs : WF_vars(Access(e) \/ cow_entry(e))

-----------------------------------------------------------------------------
(***************************************************************************)
(* Properties.                                                             *)
(***************************************************************************)
\* Every variable has its type.
TypeOK ==
  /\ pt \in [Envs -> [VPNs \cup {UCOW} -> PTEs \cup {NIL}]]
  /\ word \in [Pages -> Words]
  /\ status \in [Envs -> {"FREE", "RUNNABLE", "NOT_RUNNABLE"}]
  /\ entry \in [Envs -> BOOLEAN]
  /\ fork \in [Envs -> InFork \cup {NIL}]
  /\ store \in [Envs -> InStore \cup {NIL}]
  /\ cow \in [Envs -> {"no", "alloc", "copy", "map", "unmap"}]
  /\ panic \in {"no", "no memory", "no handler", "not copy-on-write"}
  /\ forks \in 0 .. MaxForks /\ stores \in 0 .. MaxStores

\* The page that two entries have in common may be written through the first.
MayShare(e, va, f, vb) ==
  \/ e = f /\ va = vb
  \/ e = f /\ cow[e] = "unmap" /\ {va, vb} = {UCOW, store[e].va}
  \/ va = vb /\ fork[e] # NIL /\ fork[e].half /\ f = fork[e].child /\ Next_vpn(e, va)

\* A private page that can be written is mapped once: the copies that fork,
\* duppage and cow_entry leave behind never let a store through to somebody
\* else, but for the page that duppage has mapped in the child and not yet
\* write-protected in the parent, and the new page cow_entry is moving from
\* UCOW.  Since cow_entry forgets PTE_LIBRARY, no shared page may be marked
\* copy-on-write.
WritableIsPrivate ==
  \A e \in Envs, va \in VPNs \cup {UCOW} : pt[e][va] # NIL =>
    /\ pt[e][va].COW => ~pt[e][va].D /\ ~pt[e][va].LIBRARY
    /\ Writable(pt[e][va]) =>
         \A f \in Envs, vb \in VPNs \cup {UCOW} :
           pt[f][vb] # NIL /\ pt[f][vb].page = pt[e][va].page => MayShare(e, va, f, vb)

\* What the programs see: the child sees a page once fork is through with it.
Given(c) == UNION {fork[e].done : e \in {x \in Envs : fork[x] # NIL /\ fork[x].child = c}}
View == [e \in Envs |-> [v \in VPNs |->
          IF pt[e][v] = NIL \/ (status[e] = "NOT_RUNNABLE" /\ v \notin Given(e))
          THEN NIL ELSE word[pt[e][v].page]]]

Copies == INSTANCE Fork WITH Shared <- SharedVPNs, Unmapped <- NIL, view <- View

\* Whatever is stored while fork goes from page to page, and however faults,
\* further forks and exits are interleaved, every program finds in its memory
\* what a fork that copies each page at one instant would have put there.
ImplementsFork == Copies!ForkSpec

\* Every store is carried out, after a copy if one is needed, unless there is no
\* page left for it: no handler is missing and none goes round in circles.  (There
\* are MaxStores of them, so that none may be under way for ever.)
StoresComplete == <>[](panic = "no memory" \/ \A e \in Envs : store[e] = NIL)
=============================================================================
