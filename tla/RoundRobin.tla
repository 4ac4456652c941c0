----------------------------- MODULE RoundRobin -----------------------------
(***************************************************************************)
(* What kern/sched.c promises, without pointers: a queue of runnable       *)
(* environments whose head runs for as many time slices as its priority,   *)
(* then goes to the back.  Newcomers join at the back (at boot, in front). *)
(***************************************************************************)
EXTENDS Naturals, Sequences

CONSTANTS Envs, NULL

VARIABLES runq,    \* the runnable environments, the running one first
          cur,     \* the running environment, NULL before the first
          prio,    \* time slices each environment is given
          slice,   \* time slices cur has left
          stopped  \* nothing is runnable: the kernel has panicked

rrVars == <<runq, cur, prio, slice, stopped>>

Queued == {runq[i] : i \in 1 .. Len(runq)}

RRInit ==
  /\ runq = <<>>
  /\ cur = NULL
  /\ prio \in [Envs -> Nat]
  /\ slice = 0
  /\ stopped = FALSE

\* The head of q runs with a full allowance; an empty queue stops the kernel.
Dispatch(q) ==
  /\ runq' = q
  /\ IF q = <<>>
       THEN cur' = NULL /\ slice' = 0 /\ stopped' = TRUE
       ELSE cur' = Head(q) /\ slice' = prio[Head(q)] /\ stopped' = FALSE

\* A waiting environment's allowance may be set, a queued one's may not.
SetPrio == prio' \in [Envs -> Nat] /\ \A e \in Queued : prio'[e] = prio[e]

Boot(e) ==
  /\ cur = NULL /\ e \notin Queued
  /\ runq' = <<e>> \o runq
  /\ SetPrio
  /\ UNCHANGED <<cur, slice, stopped>>

Start == cur = NULL /\ Dispatch(runq) /\ UNCHANGED prio

Admit(e) ==
  /\ cur # NULL /\ e \notin Queued
  /\ runq' = Append(runq, e)
  /\ UNCHANGED <<cur, prio, slice, stopped>>

Prepare ==
  /\ SetPrio
  /\ UNCHANGED <<runq, cur, slice, stopped>>

Keep ==
  /\ cur # NULL /\ slice > 1
  /\ slice' = slice - 1
  /\ UNCHANGED <<runq, cur, prio, stopped>>

\* Out of time slices, or giving up the rest of them.
Rotate == cur # NULL /\ Dispatch(Append(Tail(runq), cur)) /\ UNCHANGED prio

\* The running environment blocks or exits.
Leave == cur # NULL /\ Dispatch(Tail(runq)) /\ UNCHANGED prio

RRNext ==
  /\ ~stopped
  /\ \/ \E e \in Envs : Boot(e) \/ Admit(e)
     \/ Start \/ Prepare \/ Keep \/ Rotate \/ Leave

RRSpec == RRInit /\ [][RRNext]_rrVars
=============================================================================
