------------------------------ MODULE TailQueue ------------------------------
(***************************************************************************)
(* The tail queue macros of include/queue.h at the level of their          *)
(* pointers.  A queue is a record of                                       *)
(*                                                                         *)
(*   next   the content of every cell that holds a pointer to an element:  *)
(*          next[HEAD] is tqh_first, next[e] is e's tqe_next;              *)
(*   prev   e's tqe_prev, the address of the cell that points to e, named  *)
(*          by the owner of that cell (HEAD or an element);                *)
(*   last   tqh_last, the address of the last cell, named the same way.    *)
(*                                                                         *)
(* The links of an element that is not in the queue keep the values they   *)
(* had when it left, as in the C code; NULL is what the zeroed bss gives   *)
(* an element that was never linked.                                       *)
(***************************************************************************)
EXTENDS Naturals, Sequences, FiniteSets

CONSTANTS Envs,   \* the elements: the slots of envs[], the only type queued so
          HEAD,   \* names the head's own cell, &head->tqh_first
          NULL    \* the null pointer

ASSUME TailQueueAssumption ==
  /\ IsFiniteSet(Envs)
  /\ HEAD \notin Envs
  /\ NULL \notin Envs
  /\ HEAD # NULL

Cells == Envs \cup {HEAD}

Queues == [next : [Cells -> Envs \cup {NULL}],
           prev : [Envs -> Cells \cup {NULL}],
           last : Cells \cup {NULL}]

-----------------------------------------------------------------------------

\* TAILQ_INIT on a queue whose elements are still zeroed.
TAILQ_INIT == [next |-> [c \in Cells |-> NULL],
               prev |-> [e \in Envs |-> NULL],
               last |-> HEAD]

TAILQ_FIRST(q) == q.next[HEAD]

TAILQ_EMPTY(q) == TAILQ_FIRST(q) = NULL

TAILQ_INSERT_HEAD(q, e) ==
  LET first == TAILQ_FIRST(q) IN
  [next |-> [q.next EXCEPT ![e] = first, ![HEAD] = e],
   prev |-> IF first # NULL THEN [q.prev EXCEPT ![first] = e, ![e] = HEAD]
                            ELSE [q.prev EXCEPT ![e] = HEAD],
   last |-> IF first # NULL THEN q.last ELSE e]

TAILQ_INSERT_TAIL(q, e) ==
  [next |-> [q.next EXCEPT ![e] = NULL, ![q.last] = e],
   prev |-> [q.prev EXCEPT ![e] = q.last],
   last |-> e]

\* The macro never asks whether e is linked: it follows whatever links e has.
TAILQ_REMOVE(q, e) ==
  LET n == q.next[e]
      p == q.prev[e] IN
  [next |-> [q.next EXCEPT ![p] = n],
   prev |-> IF n # NULL THEN [q.prev EXCEPT ![n] = p] ELSE q.prev,
   last |-> IF n # NULL THEN q.last ELSE p]

\* '*e->tqe_prev = ...' through a null tqe_prev: a store to address 0.
RemoveFaults(q, e) == q.prev[e] = NULL

-----------------------------------------------------------------------------
(***************************************************************************)
(* What a queue means.  Chain(q, s): the links of q spell the sequence s,  *)
(* forwards through next and backwards through prev, and last is the final *)
(* cell.                                                                   *)
(***************************************************************************)
Before(s, i) == IF i = 1 THEN HEAD ELSE s[i - 1]

LastCell(s) == IF s = <<>> THEN HEAD ELSE s[Len(s)]

NoDuplicates(s) == \A i, j \in 1 .. Len(s) : s[i] = s[j] => i = j

Elements(s) == {s[i] : i \in 1 .. Len(s)}

Chain(q, s) ==
  /\ NoDuplicates(s)
  /\ \A i \in 1 .. Len(s) : /\ q.next[Before(s, i)] = s[i]
                            /\ q.prev[s[i]] = Before(s, i)
  /\ q.last = LastCell(s)
  /\ q.next[q.last] = NULL

\* The sequences that can be queues: none is longer than the set of elements.
Lists == UNION {[1 .. n -> Envs] : n \in 0 .. Cardinality(Envs)}

WellFormed(q) == \E s \in Lists : Chain(q, s)

\* The sequence a well-formed queue holds.
SeqOf(q) == CHOOSE s \in Lists : Chain(q, s)
=============================================================================
