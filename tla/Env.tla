--------------------------------- MODULE Env ---------------------------------
(***************************************************************************)
(* The environments of the MOS kernel: kern/env.c, kern/sched.c and the    *)
(* system calls of kern/syscall_all.c that create, stop, wake, schedule    *)
(* and destroy them, IPC included.                                         *)
(*                                                                         *)
(* MOS runs on one CPU and a trap handler runs with interrupts off, so a   *)
(* handler is one step.  Between two handlers the environment `curenv'     *)
(* runs user code, and the timer may interrupt it anywhere.                *)
(*                                                                         *)
(* The run list is kept as the pointers of include/queue.h (TailQueue):    *)
(* the code removes environments from it that are no longer linked, and    *)
(* what that does depends on the links they still hold.                    *)
(***************************************************************************)
EXTENDS Integers, Sequences, FiniteSets, TailQueue

CONSTANTS NASID,      \* address space identifiers
          IdMod,      \* serials before mkenvid's counter is shifted out (2^21)
          MaxIds,     \* bound: no fork starts once this many serials are used
          MaxBoot,    \* bound: environments created before the clock starts
          Priorities, \* what ENV_CREATE_PRIORITY may pass
          Extra       \* calls programs make besides the library's, see Next

NENV == Cardinality(Envs)

ASSUME EnvAssumption ==
  /\ NENV \in Nat \ {0}
  /\ Envs = 0 .. NENV - 1
  /\ NASID \in Nat \ {0}
  /\ IdMod \in Nat \ {0}
  /\ MaxIds \in Nat
  /\ MaxBoot \in Nat /\ MaxBoot <= NENV /\ MaxBoot <= NASID
  /\ Priorities \subseteq Nat \ {0}
  /\ Extra \subseteq {"spawn_abort", "kill", "set_status"}

VARIABLES
  status,    \* env_status
  envId,     \* env_id; stays behind when the slot is freed
  parentId,  \* env_parent_id
  asid,      \* env_asid
  pri,       \* env_pri
  recving,   \* env_ipc_recving
  freeList,  \* env_free_list, as a sequence
  asidMap,   \* asid_bitmap, as the set of ASIDs in use
  serial,    \* the static counter of mkenvid
  sched,     \* env_sched_list
  curenv,
  count,     \* the static time slice counter of schedule
  child,     \* per environment, the envid fork or spawn is setting up, or 0
  halted     \* why the kernel stopped, or "no"

tableVars == <<status, envId, parentId, asid, pri, freeList, asidMap, serial>>
schedVars == <<sched, curenv, count, halted>>
vars      == <<tableVars, recving, schedVars, child>>

FREE         == "ENV_FREE"
RUNNABLE     == "ENV_RUNNABLE"
NOT_RUNNABLE == "ENV_NOT_RUNNABLE"
Statuses     == {FREE, RUNNABLE, NOT_RUNNABLE}

\* An envid packs a serial and a slot into one word; the word 0, which the
\* system calls read as "the caller", is the pair <<0, 0>>.
Ids     == (0 .. IdMod - 1) \X Envs
ZERO    == <<0, 0>>
ENVX(id) == id[2]

ASIDs   == 0 .. NASID - 1
Stops   == {"no", "no runnable envs", "env_run assertion", "bad address"}

Live == {e \in Envs : status[e] # FREE}

-----------------------------------------------------------------------------
(***************************************************************************)
(* env.c: helpers.                                                         *)
(***************************************************************************)
\* Mutants: the counter used before it is incremented; the counter not cut to
\* the bits the envid has for it.
SerialPostIncrement == serial
SerialNotCut == serial + 1

nextSerial == (serial + 1) % IdMod

mkenvid(e) == <<nextSerial, e>>

\* The slot an envid names to the running environment, as a set of at most
\* one slot.  With checkperm it must be curenv or one of its children.
envid2env(id, checkperm) ==
  IF id = ZERO
  THEN {curenv}
  ELSE {e \in {ENVX(id)} :
          /\ status[e] # FREE
          /\ envId[e] = id
          /\ checkperm => envId[e] = envId[curenv] \/ parentId[e] = envId[curenv]}

\* asid_alloc: the lowest free ASID, as a set that is empty when none is left.
asid_alloc == {a \in ASIDs \ asidMap : \A b \in ASIDs \ asidMap : a <= b}

\* Mutant: the bit stays set.
asid_free_nothing(a) == asidMap

asid_free(a) == asidMap \ {a}

\* env_alloc succeeds: there is a free slot, env_setup_vm gets its page (`mem':
\* kern/pmap.c decides, here it may fail) and there is a free ASID.
CanAlloc(mem) == freeList # <<>> /\ mem /\ asid_alloc # {}

\* env_alloc that returns 0: everything but the status, which is the caller's.
\* env_ipc_recving and the run list links of the slot stay as they are.
env_alloc(e, parent) ==
  /\ e = Head(freeList)
  /\ envId' = [envId EXCEPT ![e] = mkenvid(e)]
  /\ serial' = nextSerial
  /\ \E a \in asid_alloc : /\ asid' = [asid EXCEPT ![e] = a]
                           /\ asidMap' = asidMap \cup {a}
  /\ parentId' = [parentId EXCEPT ![e] = parent]
  /\ freeList' = Tail(freeList)

\* env_alloc that fails: out of ASIDs it has already stamped the free slot
\* with a fresh envid.
env_alloc_fails(mem) ==
  /\ IF freeList # <<>> /\ mem
       THEN /\ envId' = [envId EXCEPT ![Head(freeList)] = mkenvid(Head(freeList))]
            /\ serial' = nextSerial
       ELSE UNCHANGED <<envId, serial>>
  /\ UNCHANGED <<asid, asidMap, parentId, freeList>>

-----------------------------------------------------------------------------
(***************************************************************************)
(* sched.c: schedule(yield), entered with the statuses st, the run list q  *)
(* and the current environment cur that the handler has left, and env_run  *)
(* of the environment it picks.                                            *)
(***************************************************************************)
halt(why, q, cur, c) ==
  /\ halted' = why
  /\ sched' = q
  /\ curenv' = cur
  /\ count' = c

env_run(st, q, cur, e, c) ==
  IF st[e] = RUNNABLE
  THEN /\ curenv' = e
       /\ sched' = q
       /\ count' = c
       /\ UNCHANGED halted
  ELSE halt("env_run assertion", q, cur, c)

\* Mutants: the outgoing environment linked at the tail without being unlinked;
\* put back in front.
RequeueWithoutRemove(st, q, cur) ==
  IF cur = NULL THEN q
  ELSE IF st[cur] = RUNNABLE THEN TAILQ_INSERT_TAIL(q, cur)
  ELSE TAILQ_REMOVE(q, cur)

RequeueInFront(st, q, cur) ==
  IF cur = NULL THEN q
  ELSE IF st[cur] = RUNNABLE THEN TAILQ_INSERT_HEAD(TAILQ_REMOVE(q, cur), cur)
  ELSE TAILQ_REMOVE(q, cur)

\* The run list after the outgoing environment has been dealt with.
Requeue(st, q, cur) ==
  IF cur = NULL THEN q
  ELSE IF st[cur] = RUNNABLE THEN TAILQ_INSERT_TAIL(TAILQ_REMOVE(q, cur), cur)
  ELSE TAILQ_REMOVE(q, cur)

\* Mutant: the slice counter tested one tick late.
SwitchOneTickLate(yield, st, cur) ==
  yield \/ count - 1 < 0 \/ cur = NULL \/ st[cur] # RUNNABLE

MustSwitch(yield, st, cur) ==
  \/ yield
  \/ count - 1 = 0
  \/ cur = NULL
  \/ st[cur] # RUNNABLE

schedule(yield, st, q, cur) ==
  IF ~MustSwitch(yield, st, cur)
  THEN env_run(st, q, cur, cur, count - 1)
  ELSE IF TAILQ_EMPTY(q)
  THEN halt("no runnable envs", q, cur, count - 1)
  ELSE LET q1 == Requeue(st, q, cur)
           e  == TAILQ_FIRST(q1)
       IN  IF (cur # NULL /\ RemoveFaults(q, cur)) \/ e = NULL
           THEN halt("bad address", q, cur, count - 1)
           ELSE env_run(st, q1, cur, e, pri[e])

-----------------------------------------------------------------------------
(***************************************************************************)
(* System calls of the running environment, and the timer.                 *)
(***************************************************************************)
Running == curenv # NULL /\ halted = "no"

\* handle_int of genex.S: the timer calls schedule(0).  Before the first
\* environment runs, mips_init spins with curenv null.
Tick ==
  /\ halted = "no"
  /\ schedule(FALSE, status, sched, curenv)
  /\ UNCHANGED <<tableVars, recving, child>>

sys_yield ==
  /\ Running
  /\ schedule(TRUE, status, sched, curenv)
  /\ UNCHANGED <<tableVars, recving, child>>

\* env_create, called by mips_init before the clock is started.
env_create(p) ==
  /\ curenv = NULL /\ halted = "no"
  /\ serial < MaxBoot
  /\ CanAlloc(TRUE)
  /\ LET e == Head(freeList) IN
       /\ env_alloc(e, ZERO)
       /\ pri' = [pri EXCEPT ![e] = p]
       /\ status' = [status EXCEPT ![e] = RUNNABLE]
       /\ sched' = TAILQ_INSERT_HEAD(sched, e)
  /\ UNCHANGED <<recving, curenv, count, halted, child>>

\* The envid a fork or spawn holds is gone with its environment, and once the
\* call it was made for is over.
Forget(S, id) ==
  [x \in Envs |-> IF x \in S \/ (x = curenv /\ child[x] = id) THEN ZERO ELSE child[x]]

\* sys_env_destroy, env_destroy and env_free.
sys_env_destroy(id) ==
  /\ Running
  /\ IF envid2env(id, TRUE) = {}
     THEN /\ child' = Forget({}, id)          \* returns -E_BAD_ENV
          /\ UNCHANGED <<tableVars, recving, schedVars>>
     ELSE \E e \in envid2env(id, TRUE) :
          LET st == [status EXCEPT ![e] = FREE]
              q  == TAILQ_REMOVE(sched, e)
          IN  /\ status' = st
              /\ asidMap' = asid_free(asid[e])
              /\ freeList' = <<e>> \o freeList
              /\ child' = Forget({e}, id)
              /\ IF RemoveFaults(sched, e)
                 THEN halt("bad address", sched, curenv, count)
                 ELSE IF e = curenv
                 THEN schedule(TRUE, st, q, NULL)
                 ELSE sched' = q /\ UNCHANGED <<curenv, count, halted>>
              /\ UNCHANGED <<envId, parentId, asid, pri, serial, recving>>

sys_exofork(mem) ==
  /\ Running
  /\ IF CanAlloc(mem)
     THEN LET e == Head(freeList) IN
          /\ env_alloc(e, envId[curenv])
          /\ status' = [status EXCEPT ![e] = NOT_RUNNABLE]
          /\ pri' = [pri EXCEPT ![e] = pri[curenv]]
          \* fork and spawn keep the envid they got; if it is 0 they take
          \* themselves for the child
          /\ child' = [child EXCEPT ![curenv] = mkenvid(e)]
     ELSE /\ env_alloc_fails(mem)
          /\ UNCHANGED <<status, pri, child>>
  /\ UNCHANGED <<recving, schedVars>>

sys_set_env_status(id, s) ==
  /\ Running
  /\ IF s \notin {RUNNABLE, NOT_RUNNABLE} \/ envid2env(id, FALSE) = {}
     THEN UNCHANGED <<status, sched, halted>>  \* returns -E_INVAL or -E_BAD_ENV
     ELSE \E e \in envid2env(id, FALSE) :
          /\ sched' = IF s = RUNNABLE /\ status[e] = NOT_RUNNABLE THEN TAILQ_INSERT_TAIL(sched, e)
                      ELSE IF s = NOT_RUNNABLE /\ status[e] = RUNNABLE THEN TAILQ_REMOVE(sched, e)
                      ELSE sched
          /\ halted' = IF s = NOT_RUNNABLE /\ status[e] = RUNNABLE /\ RemoveFaults(sched, e)
                         THEN "bad address" ELSE halted
          /\ status' = [status EXCEPT ![e] = s]
  /\ UNCHANGED <<envId, parentId, asid, pri, freeList, asidMap, serial>>
  /\ UNCHANGED <<recving, curenv, count>>

\* sys_ipc_recv: `legal' says whether dstva is 0 or a user address.  The
\* environment is taken off the run list here and once more by schedule.
sys_ipc_recv(legal) ==
  /\ Running
  /\ IF ~legal
     THEN UNCHANGED <<status, recving, schedVars>>  \* returns -E_INVAL
     ELSE LET st == [status EXCEPT ![curenv] = NOT_RUNNABLE]
              q  == TAILQ_REMOVE(sched, curenv)
          IN  /\ recving' = [recving EXCEPT ![curenv] = 1]
              /\ status' = st
              /\ IF RemoveFaults(sched, curenv)
                 THEN halt("bad address", sched, curenv, count)
                 ELSE schedule(TRUE, st, q, curenv)
  /\ UNCHANGED <<envId, parentId, asid, pri, freeList, asidMap, serial>>
  /\ UNCHANGED child

\* Mutants: recving left set; the status forgotten.
WakeStillReceiving(e) ==
  /\ UNCHANGED recving
  /\ status' = [status EXCEPT ![e] = RUNNABLE]
  /\ sched' = TAILQ_INSERT_TAIL(sched, e)

WakeWithoutStatus(e) ==
  /\ recving' = [recving EXCEPT ![e] = 0]
  /\ UNCHANGED status
  /\ sched' = TAILQ_INSERT_TAIL(sched, e)

\* The receiver of a message becomes runnable.
Wake(e) ==
  /\ recving' = [recving EXCEPT ![e] = 0]
  /\ status' = [status EXCEPT ![e] = RUNNABLE]
  /\ sched' = TAILQ_INSERT_TAIL(sched, e)

\* Mutant: the destination is not asked whether it waits for a message.
ReceiversUnchecked(id) == envid2env(id, FALSE)

\* The environment a message for id reaches, if it waits for one.
Receivers(id) == {e \in envid2env(id, FALSE) : recving[e] = 1}

\* sys_ipc_try_send: srcva is 0 or a user address (`legal') or not.  The
\* message itself, and the page that may come with it, are not kept here; the
\* receiver is woken before srcva is looked up, so also if that fails.
sys_ipc_try_send(id, legal) ==
  /\ Running
  /\ IF legal /\ Receivers(id) # {}
     THEN \E e \in Receivers(id) : Wake(e)
     ELSE UNCHANGED <<status, recving, sched>>  \* -E_INVAL, -E_BAD_ENV, -E_IPC_NOT_RECV
  /\ UNCHANGED <<envId, parentId, asid, pri, freeList, asidMap, serial>>
  /\ UNCHANGED <<curenv, count, halted, child>>

-----------------------------------------------------------------------------
(***************************************************************************)
(* What programs do.  The library (user/lib) stops an environment only     *)
(* from exit, starts one only at the end of fork or spawn, and otherwise   *)
(* yields and sends and receives messages.  `Extra' adds the other uses of *)
(* the same calls: spawn's error path, which destroys the child it was     *)
(* setting up; a parent destroying a child; sys_set_env_status at will.    *)
(* Programs learn envids from envs[], which is mapped into every address   *)
(* space, and keep some that are out of date.                              *)
(***************************************************************************)
KnownIds == {ZERO} \cup {envId[e] : e \in Envs} \cup {parentId[e] : e \in Envs}

exit == sys_env_destroy(ZERO)

fork_begin ==
  /\ Running /\ child[curenv] = ZERO
  /\ serial < MaxIds
  /\ \E mem \in BOOLEAN : sys_exofork(mem)

fork_end ==
  /\ Running /\ child[curenv] # ZERO
  /\ sys_set_env_status(child[curenv], RUNNABLE)
  /\ child' = [child EXCEPT ![curenv] = ZERO]

spawn_err ==
  /\ "spawn_abort" \in Extra
  /\ Running /\ child[curenv] # ZERO
  /\ sys_env_destroy(child[curenv])

kill ==
  /\ "kill" \in Extra
  /\ \E id \in KnownIds : sys_env_destroy(id)

set_status ==
  /\ "set_status" \in Extra
  /\ \E id \in KnownIds, s \in Statuses : sys_set_env_status(id, s)
  /\ UNCHANGED child

receive == \E legal \in BOOLEAN : sys_ipc_recv(legal)

send == \E id \in KnownIds, legal \in BOOLEAN : sys_ipc_try_send(id, legal)

Next ==
  \/ \E p \in Priorities : env_create(p)
  \/ Tick
  \/ sys_yield
  \/ exit
  \/ fork_begin
  \/ fork_end
  \/ spawn_err
  \/ kill
  \/ set_status
  \/ receive
  \/ send

\* env_init: every slot free, in order; the rest of envs[] is zeroed bss.
Init ==
  /\ status = [e \in Envs |-> FREE]
  /\ envId = [e \in Envs |-> ZERO]
  /\ parentId = [e \in Envs |-> ZERO]
  /\ asid = [e \in Envs |-> 0]
  /\ pri = [e \in Envs |-> 0]
  /\ recving = [e \in Envs |-> 0]
  /\ freeList = [i \in 1 .. NENV |-> i - 1]
  /\ asidMap = {}
  /\ serial = 0
  /\ sched = TAILQ_INIT
  /\ curenv = NULL
  /\ count = 0
  /\ child = [e \in Envs |-> ZERO]
  /\ halted = "no"

Spec == Init /\ [][Next]_vars

\* The clock keeps ticking (kclock_init): the only fairness the kernel has.
FairSpec == Spec /\ WF_vars(Tick)

-----------------------------------------------------------------------------
(***************************************************************************)
(* Properties.                                                             *)
(***************************************************************************)
Runnable == {e \in Envs : status[e] = RUNNABLE}

\* Every variable ranges over the values its C type and use allow.
TypeOK ==
  /\ status \in [Envs -> Statuses]
  /\ envId \in [Envs -> Ids]
  /\ parentId \in [Envs -> Ids]
  /\ asid \in [Envs -> ASIDs]
  /\ pri \in [Envs -> Nat]
  /\ recving \in [Envs -> {0, 1}]
  /\ freeList \in Seq(Envs)
  /\ asidMap \in SUBSET ASIDs
  /\ serial \in 0 .. IdMod - 1
  /\ sched \in Queues
  /\ curenv \in Envs \cup {NULL}
  /\ count \in Int
  /\ child \in [Envs -> Ids]
  /\ halted \in Stops

\* env.c:18: 'env' in 'env_sched_list' iff its status is RUNNABLE.  The
\* pointers of the list are intact and spell each runnable environment once,
\* although sys_ipc_recv and then schedule remove the same environment twice.
SchedListInv ==
  \E s \in Lists : Chain(sched, s) /\ Elements(s) = Runnable

\* The running environment is runnable and is the head of the run list:
\* schedule's move to the tail is a rotation, and never skips anybody.
CurenvIsHead ==
  Running => status[curenv] = RUNNABLE /\ curenv = TAILQ_FIRST(sched)

\* Nobody waits for a message while runnable or free: otherwise a send would
\* link an environment into the run list that is already there, or revive a
\* slot that is not in use.
ReceiversAreBlocked ==
  \A e \in Envs : recving[e] = 1 => status[e] = NOT_RUNNABLE

\* The kernel never faults on a run list link and never picks an environment
\* that is not runnable (sched.c and env_run assert it): it stops only when
\* nobody is left to run, with the panic of schedule.
StopsOnlyWhenIdle ==
  /\ halted \in {"no", "no runnable envs"}
  /\ halted = "no runnable envs" => Runnable = {}

\* No wake-up is lost: an environment that is blocked but waits for no message
\* is one that its parent, if that is still alive, is about to start.
NoLostWakeup ==
  \A e \in Envs : status[e] = NOT_RUNNABLE /\ recving[e] = 0 =>
    /\ parentId[e] # ZERO
    /\ \A p \in Live : parentId[e] = envId[p] => child[p] = envId[e]

\* While fork or spawn sets a child up, the envid it holds keeps naming that
\* child, which stays blocked, and nobody else holds the same child: starting
\* it links an environment that is not on the run list.
ForksUnderWay ==
  \A p \in Envs : child[p] # ZERO =>
    LET c == ENVX(child[p]) IN
    /\ status[p] # FREE
    /\ status[c] = NOT_RUNNABLE /\ envId[c] = child[p] /\ recving[c] = 0
    /\ \A r \in Envs : child[r] = child[p] => r = p

\* The table of environments, whatever programs call: the free list holds
\* exactly the free slots, each once, and the ASIDs marked in use are those
\* of the live environments, no two of which share one.
TableInv ==
  /\ NoDuplicates(freeList)
  /\ Elements(freeList) = Envs \ Live
  /\ asidMap = {asid[e] : e \in Live}
  /\ \A e, f \in Live : asid[e] = asid[f] => e = f

\* The envid of a live environment names its own slot, and is not the 0 that
\* system calls take for the caller.  sys_exofork's result, and every check of
\* a parent against a child, rely on it.
IdsNameSlots ==
  \A e \in Live : ENVX(envId[e]) = e /\ envId[e] # ZERO

\* sched.c:9: on a yield, curenv is not scheduled again unless it is the only
\* runnable environment.
YieldGivesUp ==
  [][sys_yield => curenv' # curenv \/ Runnable = {curenv}]_vars

\* A runnable environment eventually runs (or the kernel has panicked):
\* nothing a program does between two ticks can keep it waiting for ever.
NoStarvation ==
  \A e \in Envs : status[e] = RUNNABLE ~> curenv = e \/ halted # "no"

\* The kernel's pointers implement the round robin of sched.c.
RR == INSTANCE RoundRobin WITH
        runq    <- SeqOf(sched),
        cur     <- IF halted = "no" THEN curenv ELSE NULL,
        prio    <- pri,
        slice   <- IF Running THEN count ELSE 0,
        stopped <- halted # "no"

ImplementsRoundRobin == RR!RRSpec
=============================================================================
