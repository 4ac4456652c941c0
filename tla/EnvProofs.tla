------------------------------ MODULE EnvProofs ------------------------------
(***************************************************************************)
(* Proofs about Env, for any number of environments, ASIDs and serials.    *)
(***************************************************************************)
EXTENDS Env, TailQueueProofs

USE DEF FREE, RUNNABLE, NOT_RUNNABLE

-----------------------------------------------------------------------------
(***************************************************************************)
(* Types.                                                                  *)
(***************************************************************************)
LEMMA EnvsFacts ==
  /\ 0 \in Envs
  /\ NULL \notin Envs
  /\ ZERO \in Ids
  /\ \A e \in Envs : mkenvid(e)[2] = e
<1>1. NENV \in Nat \ {0} /\ Envs = 0 .. NENV - 1 /\ IdMod \in Nat \ {0}
  BY EnvAssumption
<1> QED
  BY <1>1, TailQueueAssumption DEF ZERO, Ids, mkenvid

\* Whatever its links are, an operation on a queue yields a queue.
LEMMA QueueOpsType ==
  ASSUME NEW q \in Queues, NEW e \in Envs
  PROVE  /\ TAILQ_INSERT_HEAD(q, e) \in Queues
         /\ TAILQ_INSERT_TAIL(q, e) \in Queues
         /\ TAILQ_REMOVE(q, e) \in Queues
         /\ TAILQ_FIRST(q) \in Envs \cup {NULL}
<1>1. TAILQ_FIRST(q) \in Envs \cup {NULL}
  BY DEF TAILQ_FIRST, Queues, Cells
<1>2. TAILQ_INSERT_HEAD(q, e) \in Queues
  BY <1>1, TailQueueAssumption DEF TAILQ_INSERT_HEAD, TAILQ_FIRST, Queues, Cells
<1>3. TAILQ_INSERT_TAIL(q, e) \in Queues
  BY TailQueueAssumption DEF TAILQ_INSERT_TAIL, Queues, Cells
<1>4. q.next[e] \in Envs \cup {NULL} /\ q.prev[e] \in Cells \cup {NULL}
  BY DEF Queues, Cells
<1>5. TAILQ_REMOVE(q, e) \in Queues
  BY <1>4, TailQueueAssumption DEF TAILQ_REMOVE, Queues, Cells
<1> QED
  BY <1>1, <1>2, <1>3, <1>5

\* env_run switches to e if it is runnable, and stops the kernel otherwise.
LEMMA EnvRunType ==
  ASSUME halted = "no", NEW st \in [Envs -> Statuses], NEW q \in Queues,
         NEW cur \in Envs \cup {NULL}, NEW e \in Envs, NEW c \in Int,
         env_run(st, q, cur, e, c)
  PROVE  /\ sched' \in Queues
         /\ curenv' \in Envs \cup {NULL}
         /\ count' \in Int
         /\ halted' \in Stops
         /\ halted' = "no" => curenv' \in Envs /\ st[curenv'] = RUNNABLE
  BY DEF env_run, halt, Stops

\* schedule leaves the scheduler's variables well typed, and if the kernel
\* goes on, it goes on with a runnable environment.
LEMMA ScheduleType ==
  ASSUME TypeOK, halted = "no",
         NEW yield \in BOOLEAN, NEW st \in [Envs -> Statuses],
         NEW q \in Queues, NEW cur \in Envs \cup {NULL},
         schedule(yield, st, q, cur)
  PROVE  /\ sched' \in Queues
         /\ curenv' \in Envs \cup {NULL}
         /\ count' \in Int
         /\ halted' \in Stops
         /\ halted' = "no" => curenv' \in Envs /\ st[curenv'] = RUNNABLE
<1> DEFINE q1 == Requeue(st, q, cur)
           e  == TAILQ_FIRST(q1)
<1>1. count - 1 \in Int /\ \A x \in Envs : pri[x] \in Int
  BY DEF TypeOK
<1>2. q1 \in Queues
  BY QueueOpsType DEF Requeue
<1>3. e \in Envs \cup {NULL}
  BY <1>2 DEF TAILQ_FIRST, Queues, Cells
<1>4. ASSUME NEW why \in Stops \ {"no"}, halt(why, q, cur, count - 1)
      PROVE  /\ sched' \in Queues
             /\ curenv' \in Envs \cup {NULL}
             /\ count' \in Int
             /\ halted' \in Stops \ {"no"}
  BY <1>1, <1>4 DEF halt
<1>5. CASE ~MustSwitch(yield, st, cur)
  <2>1. cur \in Envs
    BY <1>5 DEF MustSwitch
  <2>2. env_run(st, q, cur, cur, count - 1)
    BY <1>5 DEF schedule
  <2> QED
    BY <1>1, <2>1, <2>2, EnvRunType
<1>6. CASE MustSwitch(yield, st, cur) /\ TAILQ_EMPTY(q)
  <2>1. halt("no runnable envs", q, cur, count - 1)
    BY <1>6 DEF schedule
  <2> QED
    BY <1>4, <2>1 DEF Stops
<1>7. CASE MustSwitch(yield, st, cur) /\ ~TAILQ_EMPTY(q)
  <2>1. CASE (cur # NULL /\ RemoveFaults(q, cur)) \/ e = NULL
    <3>1. halt("bad address", q, cur, count - 1)
      BY <1>7, <2>1 DEF schedule
    <3> QED
      BY <1>4, <3>1 DEF Stops
  <2>2. CASE ~((cur # NULL /\ RemoveFaults(q, cur)) \/ e = NULL)
    <3>1. env_run(st, q1, cur, e, pri[e]) /\ e \in Envs
      BY <1>3, <1>7, <2>2 DEF schedule
    <3> QED
      BY <1>1, <1>2, <3>1, EnvRunType
  <2> QED
    BY <2>1, <2>2
<1> QED
  BY <1>5, <1>6, <1>7

-----------------------------------------------------------------------------
(***************************************************************************)
(* The table of environments, whatever programs call.  That a slot being   *)
(* freed is in use depends on the running environment being alive.         *)
(***************************************************************************)
CurenvLive == Running => curenv \in Live

TableInd == TypeOK /\ TableInv /\ CurenvLive

LEMMA TableInit == Init => TableInd
<1> SUFFICES ASSUME Init PROVE TableInd
  OBVIOUS
<1>1. NENV \in Nat \ {0} /\ Envs = 0 .. NENV - 1 /\ NASID \in Nat \ {0} /\ IdMod \in Nat \ {0}
  BY EnvAssumption
<1>2. freeList \in Seq(Envs) /\ Len(freeList) = NENV /\ \A i \in 1 .. NENV : freeList[i] = i - 1
  BY <1>1 DEF Init
<1>3. Elements(freeList) = Envs
  <2>1. \A e \in Envs : e + 1 \in 1 .. NENV /\ freeList[e + 1] = e
    BY <1>1, <1>2
  <2>2. \A i \in 1 .. NENV : freeList[i] \in Envs
    BY <1>1, <1>2
  <2> QED
    BY <1>2, <2>1, <2>2 DEF Elements
<1>4. NoDuplicates(freeList)
  BY <1>1, <1>2 DEF NoDuplicates
<1>5. TypeOK
  BY <1>1, <1>2, EnvsFacts, InitChain DEF Init, TypeOK, Statuses, ASIDs, Stops
<1>6. Live = {}
  BY DEF Init, Live
<1>7. TableInv
  BY <1>3, <1>4, <1>6 DEF TableInv, Init
<1> QED
  BY <1>5, <1>7 DEF TableInd, CurenvLive, Running, Init

\* env_alloc takes a free slot and an unused ASID.
LEMMA EnvAlloc ==
  ASSUME TableInd, freeList # <<>>, NEW parent \in Ids,
         env_alloc(Head(freeList), parent)
  PROVE  LET e == Head(freeList) IN
         /\ e \in Envs /\ e \notin Live
         /\ envId' \in [Envs -> Ids] /\ envId' = [envId EXCEPT ![e] = mkenvid(e)]
         /\ parentId' \in [Envs -> Ids]
         /\ serial' \in 0 .. IdMod - 1
         /\ freeList' \in Seq(Envs) /\ NoDuplicates(freeList')
         /\ Elements(freeList') = (Envs \ Live) \ {e}
         /\ \E a \in ASIDs \ asidMap : /\ asid' = [asid EXCEPT ![e] = a]
                                       /\ asidMap' = asidMap \cup {a}
<1> DEFINE e == Head(freeList)
<1>1. freeList \in Seq(Envs) /\ NoDuplicates(freeList) /\ Elements(freeList) = Envs \ Live
  BY DEF TableInd, TypeOK, TableInv
<1>2. /\ e \in Envs /\ e \in Elements(freeList)
      /\ Tail(freeList) \in Seq(Envs) /\ NoDuplicates(Tail(freeList))
      /\ Elements(Tail(freeList)) = Elements(freeList) \ {e}
  BY <1>1, TailOfList
<1>3. nextSerial \in 0 .. IdMod - 1
  BY EnvAssumption DEF nextSerial, TableInd, TypeOK
<1>4. mkenvid(e) \in Ids
  BY <1>2, <1>3 DEF mkenvid, Ids
<1>5. \E a \in ASIDs \ asidMap : asid' = [asid EXCEPT ![e] = a] /\ asidMap' = asidMap \cup {a}
  BY DEF env_alloc, asid_alloc
<1>6. /\ envId' = [envId EXCEPT ![e] = mkenvid(e)]
      /\ parentId' = [parentId EXCEPT ![e] = parent]
      /\ serial' = nextSerial /\ freeList' = Tail(freeList)
  BY DEF env_alloc
<1>7. envId \in [Envs -> Ids] /\ parentId \in [Envs -> Ids]
  BY DEF TableInd, TypeOK
<1> QED
  BY <1>1, <1>2, <1>3, <1>4, <1>5, <1>6, <1>7

\* A slot that goes from free to used with a fresh ASID keeps the table right.
LEMMA TableGrows ==
  ASSUME TableInd, NEW e \in Envs, e \notin Live, NEW a \in ASIDs \ asidMap,
         asid' = [asid EXCEPT ![e] = a], asidMap' = asidMap \cup {a},
         NoDuplicates(freeList'), Elements(freeList') = (Envs \ Live) \ {e},
         NEW st \in Statuses \ {FREE}, status' = [status EXCEPT ![e] = st]
  PROVE  TableInv' /\ Live' = Live \cup {e} /\ asid' \in [Envs -> ASIDs]
<1>1. status \in [Envs -> Statuses] /\ asid \in [Envs -> ASIDs]
  BY DEF TableInd, TypeOK
<1>2. Live' = Live \cup {e}
  BY <1>1 DEF Live
<1>3. \A x \in Live : x \in Envs /\ x # e /\ asid'[x] = asid[x]
  BY <1>1 DEF Live
<1>4. asid'[e] = a
  BY <1>1
<1>5. asidMap = {asid[x] : x \in Live} /\ \A x, y \in Live : asid[x] = asid[y] => x = y
  BY DEF TableInd, TableInv
<1>6. asidMap' = {asid'[x] : x \in Live'}
  BY <1>2, <1>3, <1>4, <1>5
<1>7. \A x, y \in Live' : asid'[x] = asid'[y] => x = y
  BY <1>2, <1>3, <1>4, <1>5
<1>8. Elements(freeList') = Envs \ Live'
  BY <1>2
<1> QED
  BY <1>1, <1>2, <1>6, <1>7, <1>8 DEF TableInv, Elements, NoDuplicates

\* Steps that leave the table alone, and no live environment dead, keep it.
LEMMA TableKept ==
  ASSUME TableInd, status' \in [Envs -> Statuses], Live' = Live,
         UNCHANGED <<asid, freeList, asidMap>>
  PROVE  TableInv'
  BY DEF TableInd, TableInv

LEMMA Resolved ==
  ASSUME TableInd, Running, NEW id \in Ids, NEW perm \in BOOLEAN,
         NEW e \in envid2env(id, perm)
  PROVE  e \in Envs /\ e \in Live
<1>1. curenv \in Envs /\ curenv \in Live
  BY DEF TableInd, CurenvLive, Live
<1>2. id[2] \in Envs
  BY DEF Ids
<1> QED
  BY <1>1, <1>2 DEF envid2env, ENVX, Live

LEMMA TableCreate ==
  ASSUME TableInd, NEW p \in Priorities, env_create(p)
  PROVE  TableInd'
<1> DEFINE e == Head(freeList)
<1>1. freeList # <<>> /\ env_alloc(e, ZERO) /\ curenv = NULL /\ halted = "no"
  BY DEF env_create, CanAlloc
<1>2. PICK a \in ASIDs \ asidMap : asid' = [asid EXCEPT ![e] = a] /\ asidMap' = asidMap \cup {a}
  BY <1>1, EnvAlloc, EnvsFacts
<1>3. /\ e \in Envs /\ e \notin Live /\ envId' \in [Envs -> Ids] /\ parentId' \in [Envs -> Ids]
      /\ serial' \in 0 .. IdMod - 1 /\ freeList' \in Seq(Envs) /\ NoDuplicates(freeList')
      /\ Elements(freeList') = (Envs \ Live) \ {e}
  BY <1>1, EnvAlloc, EnvsFacts
<1>4. status' = [status EXCEPT ![e] = RUNNABLE] /\ sched' = TAILQ_INSERT_HEAD(sched, e)
      /\ pri' = [pri EXCEPT ![e] = p] /\ UNCHANGED <<recving, curenv, count, halted, child>>
  BY DEF env_create
<1>5. TableInv' /\ asid' \in [Envs -> ASIDs]
  BY <1>2, <1>3, <1>4, TableGrows DEF Statuses
<1>6. p \in Nat
  BY EnvAssumption
<1>7. TypeOK'
  BY <1>2, <1>3, <1>4, <1>5, <1>6, QueueOpsType DEF TableInd, TypeOK, Statuses
<1> QED
  BY <1>1, <1>4, <1>5, <1>7 DEF TableInd, CurenvLive, Running

LEMMA TableFork ==
  ASSUME TableInd, NEW mem \in BOOLEAN, sys_exofork(mem)
  PROVE  TableInd'
<1> DEFINE e == Head(freeList)
<1>1. Running /\ curenv \in Envs /\ curenv \in Live
  BY DEF sys_exofork, TableInd, CurenvLive, Live
<1>2. UNCHANGED <<recving, sched, curenv, count, halted>>
  BY DEF sys_exofork, schedVars
<1>3. CASE CanAlloc(mem)
  <2>1. freeList # <<>> /\ env_alloc(e, envId[curenv]) /\ envId[curenv] \in Ids
    BY <1>1, <1>3 DEF sys_exofork, CanAlloc, TableInd, TypeOK
  <2>2. PICK a \in ASIDs \ asidMap : asid' = [asid EXCEPT ![e] = a] /\ asidMap' = asidMap \cup {a}
    BY <2>1, EnvAlloc
  <2>3. /\ e \in Envs /\ e \notin Live /\ envId' \in [Envs -> Ids] /\ parentId' \in [Envs -> Ids]
        /\ serial' \in 0 .. IdMod - 1 /\ freeList' \in Seq(Envs) /\ NoDuplicates(freeList')
        /\ Elements(freeList') = (Envs \ Live) \ {e}
        /\ envId' = [envId EXCEPT ![e] = mkenvid(e)]
    BY <2>1, EnvAlloc
  <2>4. /\ status' = [status EXCEPT ![e] = NOT_RUNNABLE]
        /\ pri' = [pri EXCEPT ![e] = pri[curenv]]
        /\ child' = [child EXCEPT ![curenv] = mkenvid(e)]
    BY <1>3 DEF sys_exofork
  <2>5. TableInv' /\ asid' \in [Envs -> ASIDs] /\ Live' = Live \cup {e}
    BY <2>2, <2>3, <2>4, TableGrows DEF Statuses
  <2>6. mkenvid(e) \in Ids
    <3>1. envId'[e] = mkenvid(e)
      BY <2>3 DEF TableInd, TypeOK
    <3> QED
      BY <2>3, <3>1
  <2>7. TypeOK'
    BY <1>1, <1>2, <2>2, <2>3, <2>4, <2>5, <2>6 DEF TableInd, TypeOK, Statuses
  <2> QED
    BY <1>1, <1>2, <2>5, <2>7 DEF TableInd, CurenvLive
<1>4. CASE ~CanAlloc(mem)
  <2>1. UNCHANGED <<status, pri, child, asid, asidMap, parentId, freeList>>
    BY <1>4 DEF sys_exofork, env_alloc_fails
  <2>2. envId' \in [Envs -> Ids] /\ serial' \in 0 .. IdMod - 1
    <3>1. CASE freeList # <<>> /\ mem
      <4>1. e \in Envs
        BY <3>1, TailOfList DEF TableInd, TypeOK, TableInv
      <4>2. nextSerial \in 0 .. IdMod - 1
        BY EnvAssumption DEF nextSerial, TableInd, TypeOK
      <4>3. mkenvid(e) \in Ids
        BY <4>1, <4>2 DEF mkenvid, Ids
      <4>4. envId' = [envId EXCEPT ![e] = mkenvid(e)] /\ serial' = nextSerial
        BY <1>4, <3>1 DEF sys_exofork, env_alloc_fails
      <4> QED
        BY <4>2, <4>3, <4>4 DEF TableInd, TypeOK
    <3>2. CASE ~(freeList # <<>> /\ mem)
      BY <1>4, <3>2 DEF sys_exofork, env_alloc_fails, TableInd, TypeOK
    <3> QED
      BY <3>1, <3>2
  <2>3. TypeOK'
    BY <1>2, <2>1, <2>2 DEF TableInd, TypeOK
  <2>4. Live' = Live
    BY <2>1 DEF Live
  <2>5. TableInv'
    BY <2>1, <2>3, <2>4, TableKept DEF TypeOK
  <2> QED
    BY <1>1, <1>2, <2>3, <2>4, <2>5 DEF TableInd, CurenvLive
<1> QED
  BY <1>3, <1>4

LEMMA TableDestroy ==
  ASSUME TableInd, NEW id \in Ids, sys_env_destroy(id)
  PROVE  TableInd'
<1>1. Running /\ curenv \in Envs /\ curenv \in Live /\ halted = "no"
  BY DEF sys_env_destroy, TableInd, CurenvLive, Live, Running
<1>2. \A S : Forget(S, id) \in [Envs -> Ids]
  BY EnvsFacts DEF Forget, TableInd, TypeOK
<1>3. CASE envid2env(id, TRUE) = {}
  <2>1. child' \in [Envs -> Ids] /\ UNCHANGED <<status, envId, parentId, asid, pri, freeList,
           asidMap, serial, recving, sched, curenv, count, halted>>
    BY <1>2, <1>3 DEF sys_env_destroy, tableVars, schedVars
  <2>2. TypeOK' /\ Live' = Live
    BY <2>1 DEF TableInd, TypeOK, Live
  <2>3. TableInv'
    BY <2>1, <2>2, TableKept DEF TypeOK
  <2> QED
    BY <1>1, <2>1, <2>2, <2>3 DEF TableInd, CurenvLive
<1>4. CASE envid2env(id, TRUE) # {}
  <2>1. PICK e \in envid2env(id, TRUE) :
          LET st == [status EXCEPT ![e] = FREE]
              q  == TAILQ_REMOVE(sched, e)
          IN  /\ status' = st
              /\ asidMap' = asidMap \ {asid[e]}
              /\ freeList' = <<e>> \o freeList
              /\ child' = Forget({e}, id)
              /\ IF RemoveFaults(sched, e)
                 THEN halt("bad address", sched, curenv, count)
                 ELSE IF e = curenv
                 THEN schedule(TRUE, st, q, NULL)
                 ELSE sched' = q /\ UNCHANGED <<curenv, count, halted>>
              /\ UNCHANGED <<envId, parentId, asid, pri, serial, recving>>
    BY <1>4 DEF sys_env_destroy, asid_free
  <2> DEFINE st == [status EXCEPT ![e] = FREE]
             q  == TAILQ_REMOVE(sched, e)
  <2>2. e \in Envs /\ e \in Live
    BY <1>1, Resolved
  <2>3. st \in [Envs -> Statuses] /\ q \in Queues /\ sched \in Queues /\ count \in Int
    BY <2>2, QueueOpsType DEF TableInd, TypeOK, Statuses
  <2>4. Live' = Live \ {e}
    BY <2>1, <2>2 DEF Live, TableInd, TypeOK
  <2>5. freeList' \in Seq(Envs) /\ NoDuplicates(freeList') /\ Elements(freeList') = Envs \ Live'
    <3>1. freeList \in Seq(Envs) /\ NoDuplicates(freeList) /\ Elements(freeList) = Envs \ Live
      BY DEF TableInd, TypeOK, TableInv
    <3>2. e \notin Elements(freeList) /\ freeList' = <<e>> \o freeList
      BY <2>1, <2>2, <3>1
    <3>3. /\ freeList' \in Seq(Envs) /\ NoDuplicates(freeList')
          /\ Elements(freeList') = Elements(freeList) \cup {e}
      BY <2>2, <3>1, <3>2, ConsOfList
    <3> QED
      BY <2>2, <2>4, <3>1, <3>3
  <2>6. TableInv'
    <3>1. asidMap = {asid[x] : x \in Live} /\ \A x, y \in Live : asid[x] = asid[y] => x = y
      BY DEF TableInd, TableInv
    <3>2. asidMap' = {asid[x] : x \in Live'}
      BY <2>1, <2>2, <2>4, <3>1
    <3>3. \A x, y \in Live' : asid[x] = asid[y] => x = y
      BY <2>4, <3>1
    <3>4. asid' = asid
      BY <2>1
    <3> QED
      BY <2>5, <3>2, <3>3, <3>4 DEF TableInv, NoDuplicates, Elements
  <2>7. /\ sched' \in Queues /\ curenv' \in Envs \cup {NULL} /\ count' \in Int /\ halted' \in Stops
        /\ Running' => curenv' \in Live'
    <3>1. CASE RemoveFaults(sched, e)
      BY <1>1, <2>1, <2>3, <3>1 DEF halt, Stops, Running
    <3>2. CASE ~RemoveFaults(sched, e) /\ e = curenv
      <4>1. schedule(TRUE, st, q, NULL)
        BY <2>1, <3>2
      <4>2. /\ sched' \in Queues /\ curenv' \in Envs \cup {NULL} /\ count' \in Int
            /\ halted' \in Stops
            /\ halted' = "no" => curenv' \in Envs /\ st[curenv'] = RUNNABLE
        BY <1>1, <2>3, <4>1, ScheduleType DEF TableInd
      <4> QED
        BY <2>1, <4>2 DEF Live, Running
    <3>3. CASE ~RemoveFaults(sched, e) /\ e # curenv
      BY <1>1, <2>1, <2>3, <2>4, <3>3 DEF TableInd, TypeOK, Running
    <3> QED
      BY <3>1, <3>2, <3>3
  <2>8. asidMap' \subseteq ASIDs
    BY <2>1 DEF TableInd, TypeOK
  <2>9. TypeOK'
    BY <1>2, <2>1, <2>3, <2>5, <2>7, <2>8 DEF TableInd, TypeOK
  <2> QED
    BY <2>6, <2>7, <2>9 DEF TableInd, CurenvLive
<1> QED
  BY <1>3, <1>4

LEMMA TableSetStatus ==
  ASSUME TableInd, NEW id \in Ids, NEW s \in Statuses, sys_set_env_status(id, s),
         child' \in [Envs -> Ids]
  PROVE  TableInd'
<1>1. Running /\ curenv \in Envs /\ curenv \in Live /\ halted = "no"
  BY DEF sys_set_env_status, TableInd, CurenvLive, Live, Running
<1>2. UNCHANGED <<envId, parentId, asid, pri, freeList, asidMap, serial, recving, curenv, count>>
  BY DEF sys_set_env_status
<1>3. CASE s \notin {RUNNABLE, NOT_RUNNABLE} \/ envid2env(id, FALSE) = {}
  <2>1. UNCHANGED <<status, sched, halted>>
    BY <1>3 DEF sys_set_env_status
  <2>2. TypeOK' /\ Live' = Live
    BY <1>2, <2>1 DEF TableInd, TypeOK, Live
  <2>3. TableInv'
    BY <1>2, <2>2, TableKept DEF TypeOK
  <2> QED
    BY <1>1, <1>2, <2>2, <2>3 DEF TableInd, CurenvLive
<1>4. CASE ~(s \notin {RUNNABLE, NOT_RUNNABLE} \/ envid2env(id, FALSE) = {})
  <2>1. PICK e \in envid2env(id, FALSE) :
          /\ sched' = IF s = RUNNABLE /\ status[e] = NOT_RUNNABLE THEN TAILQ_INSERT_TAIL(sched, e)
                      ELSE IF s = NOT_RUNNABLE /\ status[e] = RUNNABLE THEN TAILQ_REMOVE(sched, e)
                      ELSE sched
          /\ halted' = IF s = NOT_RUNNABLE /\ status[e] = RUNNABLE /\ RemoveFaults(sched, e)
                         THEN "bad address" ELSE halted
          /\ status' = [status EXCEPT ![e] = s]
    BY <1>4 DEF sys_set_env_status
  <2>2. e \in Envs /\ e \in Live
    BY <1>1, Resolved
  <2>3. sched' \in Queues /\ halted' \in Stops
    BY <2>1, <2>2, QueueOpsType DEF TableInd, TypeOK, Stops
  <2>4. status' \in [Envs -> Statuses] /\ Live' = Live
    BY <1>4, <2>1, <2>2 DEF TableInd, TypeOK, Live
  <2>5. TypeOK'
    BY <1>2, <2>3, <2>4 DEF TableInd, TypeOK
  <2>6. TableInv'
    BY <1>2, <2>4, TableKept
  <2> QED
    BY <1>1, <1>2, <2>4, <2>5, <2>6 DEF TableInd, CurenvLive
<1> QED
  BY <1>3, <1>4

LEMMA TableRecv ==
  ASSUME TableInd, NEW legal \in BOOLEAN, sys_ipc_recv(legal)
  PROVE  TableInd'
<1>1. Running /\ curenv \in Envs /\ curenv \in Live /\ halted = "no"
  BY DEF sys_ipc_recv, TableInd, CurenvLive, Live, Running
<1>2. UNCHANGED <<envId, parentId, asid, pri, freeList, asidMap, serial, child>>
  BY DEF sys_ipc_recv
<1>3. CASE ~legal
  <2>1. UNCHANGED <<status, recving, sched, curenv, count, halted>>
    BY <1>3 DEF sys_ipc_recv, schedVars
  <2>2. TypeOK' /\ Live' = Live
    BY <1>2, <2>1 DEF TableInd, TypeOK, Live
  <2>3. TableInv'
    BY <1>2, <2>2, TableKept DEF TypeOK
  <2> QED
    BY <1>1, <2>1, <2>2, <2>3 DEF TableInd, CurenvLive
<1>4. CASE legal
  <2> DEFINE st == [status EXCEPT ![curenv] = NOT_RUNNABLE]
             q  == TAILQ_REMOVE(sched, curenv)
  <2>1. /\ recving' = [recving EXCEPT ![curenv] = 1]
        /\ status' = st
        /\ IF RemoveFaults(sched, curenv)
           THEN halt("bad address", sched, curenv, count)
           ELSE schedule(TRUE, st, q, curenv)
    BY <1>4 DEF sys_ipc_recv
  <2>2. st \in [Envs -> Statuses] /\ q \in Queues
    BY <1>1, QueueOpsType DEF TableInd, TypeOK, Statuses
  <2>3. Live' = Live
    BY <1>1, <2>1 DEF Live, TableInd, TypeOK
  <2>4. /\ sched' \in Queues /\ curenv' \in Envs \cup {NULL} /\ count' \in Int /\ halted' \in Stops
        /\ Running' => curenv' \in Live'
    <3>1. CASE RemoveFaults(sched, curenv)
      BY <1>1, <2>1, <3>1 DEF halt, Stops, Running, TableInd, TypeOK
    <3>2. CASE ~RemoveFaults(sched, curenv)
      <4>1. schedule(TRUE, st, q, curenv)
        BY <2>1, <3>2
      <4>2. /\ sched' \in Queues /\ curenv' \in Envs \cup {NULL} /\ count' \in Int
            /\ halted' \in Stops
            /\ halted' = "no" => curenv' \in Envs /\ st[curenv'] = RUNNABLE
        BY <1>1, <2>2, <4>1, ScheduleType DEF TableInd
      <4> QED
        BY <2>1, <4>2 DEF Live, Running
    <3> QED
      BY <3>1, <3>2
  <2>5. TypeOK'
    BY <1>1, <1>2, <2>1, <2>2, <2>4 DEF TableInd, TypeOK
  <2>6. TableInv'
    BY <1>2, <2>1, <2>2, <2>3, TableKept
  <2> QED
    BY <2>4, <2>5, <2>6 DEF TableInd, CurenvLive
<1> QED
  BY <1>3, <1>4

LEMMA TableSend ==
  ASSUME TableInd, NEW id \in Ids, NEW legal \in BOOLEAN, sys_ipc_try_send(id, legal)
  PROVE  TableInd'
<1>1. Running /\ curenv \in Envs /\ curenv \in Live
  BY DEF sys_ipc_try_send, TableInd, CurenvLive, Live, Running
<1>2. UNCHANGED <<envId, parentId, asid, pri, freeList, asidMap, serial, curenv, count, halted, child>>
  BY DEF sys_ipc_try_send
<1>3. /\ status' \in [Envs -> Statuses] /\ Live' = Live
      /\ recving' \in [Envs -> {0, 1}] /\ sched' \in Queues
  <2>1. CASE UNCHANGED <<status, recving, sched>>
    BY <2>1 DEF TableInd, TypeOK, Live
  <2>2. CASE \E e \in envid2env(id, FALSE) : Wake(e)
    <3>1. PICK e \in envid2env(id, FALSE) : Wake(e)
      BY <2>2
    <3>2. e \in Envs /\ e \in Live
      BY <1>1, Resolved
    <3>3. /\ recving' = [recving EXCEPT ![e] = 0]
          /\ status' = [status EXCEPT ![e] = RUNNABLE]
          /\ sched' = TAILQ_INSERT_TAIL(sched, e)
      BY <3>1 DEF Wake
    <3> QED
      BY <3>2, <3>3, QueueOpsType DEF TableInd, TypeOK, Live, Statuses
  <2> QED
    BY <2>1, <2>2 DEF sys_ipc_try_send, Receivers
<1>4. TypeOK'
  BY <1>2, <1>3 DEF TableInd, TypeOK
<1>5. TableInv'
  BY <1>2, <1>3, TableKept
<1> QED
  BY <1>1, <1>2, <1>3, <1>4, <1>5 DEF TableInd, CurenvLive

\* The timer and sys_yield only call schedule.
LEMMA TableSchedule ==
  ASSUME TableInd, halted = "no", NEW yield \in BOOLEAN,
         schedule(yield, status, sched, curenv), UNCHANGED <<tableVars, recving, child>>
  PROVE  TableInd'
<1>1. UNCHANGED <<status, envId, parentId, asid, pri, freeList, asidMap, serial, recving, child>>
  BY DEF tableVars
<1>2. /\ sched' \in Queues /\ curenv' \in Envs \cup {NULL} /\ count' \in Int /\ halted' \in Stops
      /\ halted' = "no" => curenv' \in Envs /\ status[curenv'] = RUNNABLE
  <2>1. TypeOK /\ status \in [Envs -> Statuses] /\ sched \in Queues /\ curenv \in Envs \cup {NULL}
    BY DEF TableInd, TypeOK
  <2> QED
    BY <2>1, ScheduleType
<1>3. TypeOK' /\ Live' = Live
  BY <1>1, <1>2 DEF TableInd, TypeOK, Live
<1>4. TableInv'
  BY <1>1, <1>3, TableKept DEF TypeOK
<1> QED
  BY <1>1, <1>2, <1>3, <1>4 DEF TableInd, CurenvLive, Running, Live

LEMMA TableStep ==
  ASSUME TableInd, [Next]_vars
  PROVE  TableInd'
<1>1. KnownIds \subseteq Ids /\ \A e \in Envs : child[e] \in Ids
  BY EnvsFacts DEF KnownIds, TableInd, TypeOK
<1>2. Running => curenv \in Envs
  BY DEF TableInd, CurenvLive, Live
<1>3. ASSUME NEW p \in Priorities, env_create(p) PROVE TableInd'
  BY <1>3, TableCreate
<1>4. CASE Tick
  BY <1>4, TableSchedule DEF Tick
<1>5. CASE sys_yield
  BY <1>5, TableSchedule DEF sys_yield, Running
<1>6. CASE exit
  BY <1>6, TableDestroy, EnvsFacts DEF exit
<1>7. CASE fork_begin
  BY <1>7, TableFork DEF fork_begin
<1>8. CASE fork_end
  <2>1. child' \in [Envs -> Ids]
    BY <1>8, EnvsFacts DEF fork_end, TableInd, TypeOK
  <2>2. child[curenv] \in Ids /\ RUNNABLE \in Statuses
    BY <1>1, <1>2, <1>8 DEF fork_end, Statuses
  <2> QED
    BY <1>8, <2>1, <2>2, TableSetStatus DEF fork_end
<1>9. CASE spawn_err
  BY <1>1, <1>2, <1>9, TableDestroy DEF spawn_err
<1>10. CASE kill
  BY <1>1, <1>10, TableDestroy DEF kill
<1>11. CASE set_status
  <2>1. child' \in [Envs -> Ids]
    BY <1>11 DEF set_status, TableInd, TypeOK
  <2> QED
    BY <1>1, <1>11, <2>1, TableSetStatus DEF set_status
<1>12. CASE receive
  BY <1>12, TableRecv DEF receive
<1>13. CASE send
  BY <1>1, <1>13, TableSend DEF send
<1>14. CASE UNCHANGED vars
  <2>1. UNCHANGED <<status, envId, parentId, asid, pri, freeList, asidMap, serial, recving,
                    sched, curenv, count, halted, child>>
    BY <1>14 DEF vars, tableVars, schedVars
  <2>2. TypeOK' /\ Live' = Live
    BY <2>1 DEF TableInd, TypeOK, Live
  <2>3. TableInv'
    BY <2>1, <2>2, TableKept DEF TypeOK
  <2> QED
    BY <2>1, <2>2, <2>3 DEF TableInd, CurenvLive, Running
<1> QED
  BY <1>3, <1>4, <1>5, <1>6, <1>7, <1>8, <1>9, <1>10, <1>11, <1>12, <1>13, <1>14 DEF Next

\* Every variable keeps its type: no sequence of library calls, kills, aborted
\* spawns and status changes takes the kernel of env.c and sched.c out of it.
THEOREM TypeSafe == Spec => []TypeOK
<1>1. Init => TableInd
  BY TableInit
<1>2. TableInd /\ [Next]_vars => TableInd'
  BY TableStep
<1>3. TableInd => TypeOK
  BY DEF TableInd
<1> QED
  BY <1>1, <1>2, <1>3, PTL DEF Spec

\* env_free_list holds exactly the free slots and asid_bitmap exactly the ASIDs
\* of the live environments, whatever programs call and for any table size.
THEOREM TableSafe == Spec => []TableInv
<1>1. Init => TableInd
  BY TableInit
<1>2. TableInd /\ [Next]_vars => TableInd'
  BY TableStep
<1>3. TableInd => TableInv
  BY DEF TableInd
<1> QED
  BY <1>1, <1>2, <1>3, PTL DEF Spec

-----------------------------------------------------------------------------
(***************************************************************************)
(* Envids, whatever programs call, as long as fewer serials are used than  *)
(* the envid has bits for: mkenvid hands out each serial once.             *)
(***************************************************************************)
NoWrap == MaxIds < IdMod /\ MaxBoot < IdMod

IdsOk ==
  /\ \A e \in Envs : envId[e][1] <= serial /\ parentId[e][1] <= serial
  /\ \A e \in Live : envId[e][1] > 0 /\ ENVX(envId[e]) = e

\* The next serial is one that no envid has.
LEMMA FreshSerial ==
  ASSUME TypeOK, NoWrap, serial < MaxIds \/ serial < MaxBoot
  PROVE  /\ nextSerial = serial + 1 /\ serial \in Nat
         /\ \A e \in Envs : mkenvid(e)[1] = serial + 1 /\ mkenvid(e)[2] = e
<1>1. serial \in 0 .. IdMod - 1 /\ IdMod \in Nat /\ MaxIds \in Nat /\ MaxBoot \in Nat
  BY EnvAssumption DEF TypeOK
<1>2. serial + 1 < IdMod
  BY <1>1 DEF NoWrap
<1>3. (serial + 1) % IdMod = serial + 1
  BY <1>1, <1>2
<1> QED
  BY <1>1, <1>3 DEF nextSerial, mkenvid

\* A step that makes no envid and brings no slot to life.
LEMMA IdsKept ==
  ASSUME IdsOk, UNCHANGED <<envId, parentId, serial>>, Live' \subseteq Live
  PROVE  IdsOk'
  BY DEF IdsOk

\* A step that gives a slot a fresh envid, and brings nobody else to life.
LEMMA IdsGrow ==
  ASSUME TypeOK, IdsOk, NoWrap, serial < MaxIds \/ serial < MaxBoot, NEW e \in Envs,
         envId' = [envId EXCEPT ![e] = mkenvid(e)], serial' = nextSerial,
         Live' \subseteq Live \cup {e},
         \A x \in Envs : parentId'[x][1] \in Nat /\ parentId'[x][1] <= serial
  PROVE  IdsOk'
<1>1. nextSerial = serial + 1 /\ serial \in Nat /\ mkenvid(e)[1] = serial + 1 /\ mkenvid(e)[2] = e
  BY FreshSerial
<1>2. envId \in [Envs -> Ids] /\ \A x \in Envs : envId[x][1] \in Nat
  BY DEF TypeOK, Ids
<1>3. envId'[e] = mkenvid(e) /\ \A x \in Envs : x # e => envId'[x] = envId[x]
  BY <1>2
<1>4. ASSUME NEW x \in Envs
      PROVE  envId'[x][1] <= serial' /\ parentId'[x][1] <= serial'
  <2>1. parentId'[x][1] <= serial' /\ serial' = serial + 1
    BY <1>1
  <2>2. envId'[x][1] <= serial'
    BY <1>1, <1>2, <1>3, <2>1 DEF IdsOk
  <2> QED
    BY <2>1, <2>2
<1>5. ASSUME NEW x \in Live'
      PROVE  envId'[x][1] > 0 /\ ENVX(envId'[x]) = x
  <2>1. CASE x = e
    BY <1>1, <1>3, <2>1 DEF ENVX
  <2>2. CASE x # e
    <3>1. x \in Live /\ x \in Envs
      BY <2>2 DEF Live
    <3> QED
      BY <1>3, <2>2, <3>1 DEF IdsOk
  <2> QED
    BY <2>1, <2>2
<1> QED
  BY <1>4, <1>5 DEF IdsOk

LEMMA IdsCreate ==
  ASSUME TableInd, IdsOk, NoWrap, NEW p \in Priorities, env_create(p)
  PROVE  IdsOk'
<1> DEFINE e == Head(freeList)
<1>1. freeList # <<>> /\ env_alloc(e, ZERO) /\ serial < MaxBoot
  BY DEF env_create, CanAlloc
<1>2. e \in Envs /\ envId' = [envId EXCEPT ![e] = mkenvid(e)]
  BY <1>1, EnvAlloc, EnvsFacts
<1>3. serial' = nextSerial /\ parentId' = [parentId EXCEPT ![e] = ZERO]
  BY <1>1 DEF env_alloc
<1>4. Live' \subseteq Live \cup {e}
  BY <1>2 DEF env_create, Live, TableInd, TypeOK
<1>5. TypeOK /\ parentId \in [Envs -> Ids] /\ serial \in 0 .. IdMod - 1
  BY DEF TableInd, TypeOK
<1>6. \A x \in Envs : parentId'[x][1] \in Nat /\ parentId'[x][1] <= serial
  BY <1>2, <1>3, <1>5, EnvAssumption DEF IdsOk, ZERO, Ids
<1> HIDE DEF e
<1> QED
  BY <1>1, <1>2, <1>3, <1>4, <1>5, <1>6, IdsGrow

LEMMA IdsFork ==
  ASSUME TableInd, IdsOk, NoWrap, serial < MaxIds, NEW mem \in BOOLEAN, sys_exofork(mem)
  PROVE  IdsOk'
<1> DEFINE e == Head(freeList)
<1>1. TypeOK /\ parentId \in [Envs -> Ids] /\ envId \in [Envs -> Ids] /\ serial \in 0 .. IdMod - 1
      /\ status \in [Envs -> Statuses] /\ curenv \in Envs
  BY DEF TableInd, TypeOK, sys_exofork, CurenvLive, Live
<1>2. \A x \in Envs : parentId[x][1] \in Nat /\ parentId[x][1] <= serial /\ envId[x][1] \in Nat /\ envId[x][1] <= serial
  BY <1>1 DEF IdsOk, Ids
<1>3. CASE CanAlloc(mem)
  <2>1. freeList # <<>> /\ env_alloc(e, envId[curenv]) /\ status' = [status EXCEPT ![e] = NOT_RUNNABLE]
    BY <1>3 DEF sys_exofork, CanAlloc
  <2>2. e \in Envs /\ envId' = [envId EXCEPT ![e] = mkenvid(e)]
    BY <1>1, <2>1, EnvAlloc
  <2>3. serial' = nextSerial /\ parentId' = [parentId EXCEPT ![e] = envId[curenv]]
    BY <2>1 DEF env_alloc
  <2>4. Live' \subseteq Live \cup {e}
    BY <1>1, <2>1, <2>2 DEF Live
  <2>5. \A x \in Envs : parentId'[x][1] \in Nat /\ parentId'[x][1] <= serial
    BY <1>1, <1>2, <2>2, <2>3
  <2> HIDE DEF e
  <2> QED
    BY <1>1, <2>2, <2>3, <2>4, <2>5, IdsGrow
<1>4. CASE ~CanAlloc(mem)
  <2>1. env_alloc_fails(mem) /\ UNCHANGED <<status, parentId>>
    BY <1>4 DEF sys_exofork, env_alloc_fails
  <2>2. Live' \subseteq Live
    BY <2>1 DEF Live
  <2>3. CASE freeList # <<>> /\ mem
    <3>1. e \in Envs
      BY <2>3, TailOfList DEF TableInd, TypeOK, TableInv
    <3>2. envId' = [envId EXCEPT ![e] = mkenvid(e)] /\ serial' = nextSerial
      BY <2>1, <2>3 DEF env_alloc_fails
    <3>3. \A x \in Envs : parentId'[x][1] \in Nat /\ parentId'[x][1] <= serial
      BY <1>2, <2>1
    <3> HIDE DEF e
    <3> QED
      BY <1>1, <2>2, <3>1, <3>2, <3>3, IdsGrow
  <2>4. CASE ~(freeList # <<>> /\ mem)
    BY <2>1, <2>2, <2>4, IdsKept DEF env_alloc_fails
  <2> QED
    BY <2>3, <2>4
<1> QED
  BY <1>3, <1>4

\* The other calls: they may free a slot, and otherwise change the status of
\* live environments only.
LEMMA IdsRest ==
  ASSUME TableInd, IdsOk, UNCHANGED <<envId, parentId, serial>>,
         \A e \in Envs : status'[e] # FREE => status[e] # FREE
  PROVE  IdsOk'
<1>1. Live' \subseteq Live
  BY DEF Live
<1> QED
  BY <1>1, IdsKept

LEMMA IdsDestroy ==
  ASSUME TableInd, IdsOk, NEW id \in Ids, sys_env_destroy(id)
  PROVE  IdsOk'
<1>1. CASE envid2env(id, TRUE) = {}
  BY <1>1, IdsRest DEF sys_env_destroy, tableVars
<1>2. CASE envid2env(id, TRUE) # {}
  <2>1. PICK e \in envid2env(id, TRUE) : status' = [status EXCEPT ![e] = FREE]
    BY <1>2 DEF sys_env_destroy
  <2>2. UNCHANGED <<envId, parentId, serial>>
    BY <1>2 DEF sys_env_destroy
  <2>3. \A x \in Envs : status'[x] # FREE => status[x] # FREE
    BY <2>1 DEF TableInd, TypeOK
  <2> QED
    BY <2>2, <2>3, IdsRest
<1> QED
  BY <1>1, <1>2

LEMMA IdsSetStatus ==
  ASSUME TableInd, IdsOk, NEW id \in Ids, NEW s \in Statuses, sys_set_env_status(id, s)
  PROVE  IdsOk'
<1>1. UNCHANGED <<envId, parentId, serial>> /\ Running
  BY DEF sys_set_env_status
<1>2. \/ UNCHANGED status
      \/ \E e \in envid2env(id, FALSE) : status' = [status EXCEPT ![e] = s]
  BY DEF sys_set_env_status
<1>3. CASE UNCHANGED status
  BY <1>1, <1>3, IdsRest
<1>4. ASSUME NEW e \in envid2env(id, FALSE), status' = [status EXCEPT ![e] = s]
      PROVE  IdsOk'
  <2>1. e \in Envs /\ e \in Live
    BY <1>1, Resolved
  <2>2. \A x \in Envs : status'[x] # FREE => status[x] # FREE
    BY <1>4, <2>1 DEF TableInd, TypeOK, Live
  <2> QED
    BY <1>1, <2>2, IdsRest
<1> QED
  BY <1>2, <1>3, <1>4

LEMMA IdsRecv ==
  ASSUME TableInd, IdsOk, NEW legal \in BOOLEAN, sys_ipc_recv(legal)
  PROVE  IdsOk'
<1>1. UNCHANGED <<envId, parentId, serial>> /\ Running /\ curenv \in Envs /\ status[curenv] # FREE
  BY DEF sys_ipc_recv, TableInd, CurenvLive, Live
<1>2. status' = status \/ status' = [status EXCEPT ![curenv] = NOT_RUNNABLE]
  BY DEF sys_ipc_recv
<1>3. \A x \in Envs : status'[x] # FREE => status[x] # FREE
  BY <1>1, <1>2 DEF TableInd, TypeOK
<1> QED
  BY <1>1, <1>3, IdsRest

LEMMA IdsSend ==
  ASSUME TableInd, IdsOk, NEW id \in Ids, NEW legal \in BOOLEAN, sys_ipc_try_send(id, legal)
  PROVE  IdsOk'
<1>1. UNCHANGED <<envId, parentId, serial>> /\ Running
  BY DEF sys_ipc_try_send
<1>2. UNCHANGED status \/ \E e \in envid2env(id, FALSE) : status' = [status EXCEPT ![e] = RUNNABLE]
  BY DEF sys_ipc_try_send, Receivers, Wake
<1>3. CASE UNCHANGED status
  BY <1>1, <1>3, IdsRest
<1>4. ASSUME NEW e \in envid2env(id, FALSE), status' = [status EXCEPT ![e] = RUNNABLE]
      PROVE  IdsOk'
  <2>1. e \in Envs /\ e \in Live
    BY <1>1, Resolved
  <2>2. \A x \in Envs : status'[x] # FREE => status[x] # FREE
    BY <1>4, <2>1 DEF TableInd, TypeOK, Live
  <2> QED
    BY <1>1, <2>2, IdsRest
<1> QED
  BY <1>2, <1>3, <1>4

LEMMA IdsStep ==
  ASSUME NoWrap, TableInd, IdsOk, [Next]_vars
  PROVE  IdsOk'
<1>1. KnownIds \subseteq Ids /\ (\A e \in Envs : child[e] \in Ids) /\ ZERO \in Ids
  BY EnvsFacts DEF KnownIds, TableInd, TypeOK
<1>2. Running => curenv \in Envs
  BY DEF TableInd, CurenvLive, Live
<1>3. ASSUME NEW p \in Priorities, env_create(p) PROVE IdsOk'
  BY <1>3, IdsCreate
<1>4. CASE Tick \/ sys_yield \/ UNCHANGED vars
  <2>1. UNCHANGED <<status, envId, parentId, serial>>
    BY <1>4 DEF Tick, sys_yield, vars, tableVars
  <2> QED
    BY <2>1, IdsRest
<1>5. CASE exit
  BY <1>1, <1>5, IdsDestroy DEF exit
<1>6. CASE fork_begin
  BY <1>6, IdsFork DEF fork_begin
<1>7. CASE fork_end
  BY <1>1, <1>2, <1>7, IdsSetStatus DEF fork_end, Statuses
<1>8. CASE spawn_err
  BY <1>1, <1>2, <1>8, IdsDestroy DEF spawn_err
<1>9. CASE kill
  BY <1>1, <1>9, IdsDestroy DEF kill
<1>10. CASE set_status
  BY <1>1, <1>10, IdsSetStatus DEF set_status
<1>11. CASE receive
  BY <1>11, IdsRecv DEF receive
<1>12. CASE send
  BY <1>1, <1>12, IdsSend DEF send
<1> QED
  BY <1>3, <1>4, <1>5, <1>6, <1>7, <1>8, <1>9, <1>10, <1>11, <1>12 DEF Next

LEMMA IdsSafe == NoWrap => (Spec => [](TableInd /\ IdsOk))
<1> SUFFICES ASSUME NoWrap PROVE Spec => [](TableInd /\ IdsOk)
  OBVIOUS
<1>1. Init => TableInd /\ IdsOk
  <2>1. ASSUME Init PROVE IdsOk
    BY <2>1 DEF Init, IdsOk, Live, ZERO
  <2> QED
    BY <2>1, TableInit
<1>2. TableInd /\ IdsOk /\ [Next]_vars => (TableInd /\ IdsOk)'
  BY TableStep, IdsStep
<1> QED
  BY <1>1, <1>2, PTL DEF Spec

\* mkenvid puts the slot into the envid and its counter starts at 1: the envid of
\* a live environment resolves to that environment in envid2env and is never the
\* 0 that stands for the caller, as long as the counter is not shifted out.
THEOREM IdsNameSlotsSafe == NoWrap => (Spec => []IdsNameSlots)
<1>1. IdsOk => IdsNameSlots
  BY DEF IdsOk, IdsNameSlots, ZERO
<1> QED
  BY <1>1, IdsSafe, PTL

-----------------------------------------------------------------------------
(***************************************************************************)
(* The run list and IPC, for programs that use the library only (Extra is  *)
(* empty): no call of theirs breaks a link of env_sched_list, stops the    *)
(* kernel while somebody can run, wakes the wrong environment or loses a   *)
(* wake-up; and the kernel is the round robin it promises.                 *)
(***************************************************************************)

\* The inductive invariant.  Each part needs the others: a send links a
\* receiver, which must not be linked already (ReceiversAreBlocked); the end of
\* a fork links the child (ForksUnderWay); schedule unlinks the running
\* environment, which must be linked or just removed (CurenvIsHead).
SchedInd ==
  /\ TableInd
  /\ SchedListInv
  /\ CurenvIsHead
  /\ ReceiversAreBlocked
  /\ StopsOnlyWhenIdle
  /\ ForksUnderWay

LEMMA SchedInit == Init => SchedInd
<1> SUFFICES ASSUME Init PROVE SchedInd
  OBVIOUS
<1>1. TableInd
  BY TableInit
<1>2. Runnable = {}
  BY DEF Init, Runnable
<1>3. SchedListInv
  <2>1. <<>> \in Seq(Envs) /\ NoDuplicates(<<>>) /\ Elements(<<>>) = {}
    BY DEF NoDuplicates, Elements
  <2>2. <<>> \in Lists
    BY <2>1, NoDuplicatesBounded
  <2> QED
    BY <1>2, <2>1, <2>2, InitChain DEF SchedListInv, Init
<1>4. CurenvIsHead
  BY DEF CurenvIsHead, Running, Init
<1>5. ReceiversAreBlocked /\ StopsOnlyWhenIdle /\ ForksUnderWay
  BY DEF ReceiversAreBlocked, StopsOnlyWhenIdle, ForksUnderWay, Init
<1> QED
  BY <1>1, <1>3, <1>4, <1>5 DEF SchedInd

-----------------------------------------------------------------------------
(***************************************************************************)
(* schedule, entered with an intact run list s.  The current environment   *)
(* is gone, or is the head of the list, or has just been taken off it.     *)
(***************************************************************************)
Outgoing(st, q, s, cur) ==
  \/ cur = NULL
  \/ s # <<>> /\ cur = s[1]
  \/ cur \in Envs /\ st[cur] # RUNNABLE /\ ~RemoveFaults(q, cur) /\ TAILQ_REMOVE(q, cur) = q

\* Requeue rotates the list: nobody enters or leaves it.
LEMMA RequeueChain ==
  ASSUME NEW st, NEW q \in Queues, NEW s \in Seq(Envs), Chain(q, s),
         Elements(s) = {e \in Envs : st[e] = RUNNABLE},
         NEW cur \in Envs \cup {NULL}, Outgoing(st, q, s, cur)
  PROVE  /\ cur # NULL => ~RemoveFaults(q, cur)
         /\ Requeue(st, q, cur) \in Queues
         /\ \E t \in Seq(Envs) : Chain(Requeue(st, q, cur), t) /\ Elements(t) = Elements(s)
<1>1. CASE cur = NULL
  BY <1>1 DEF Requeue
<1>2. CASE s # <<>> /\ cur = s[1]
  <2> DEFINE q0 == TAILQ_REMOVE(q, cur)
             w  == Without(s, 1)
  <2>1. 1 \in 1 .. Len(s) /\ cur \in Elements(s) /\ cur \in Envs
    BY <1>2 DEF Elements
  <2>2. /\ ~RemoveFaults(q, cur) /\ q0 \in Queues /\ w \in Seq(Envs) /\ Chain(q0, w)
        /\ Elements(w) = Elements(s) \ {cur}
    BY <1>2, <2>1, RemoveChain
  <2>3. TAILQ_INSERT_TAIL(q0, cur) \in Queues /\ Chain(TAILQ_INSERT_TAIL(q0, cur), Append(w, cur))
    BY <2>1, <2>2, InsertTailChain
  <2>4. Append(w, cur) \in Seq(Envs) /\ Elements(Append(w, cur)) = Elements(s)
    BY <2>1, <2>2, AppendToList
  <2>5. Requeue(st, q, cur) = TAILQ_INSERT_TAIL(q0, cur)
    BY <2>1, TailQueueAssumption DEF Requeue
  <2> QED
    BY <2>2, <2>3, <2>4, <2>5
<1>3. CASE cur \in Envs /\ st[cur] # RUNNABLE /\ ~RemoveFaults(q, cur) /\ TAILQ_REMOVE(q, cur) = q
  BY <1>3, TailQueueAssumption DEF Requeue
<1> QED
  BY <1>1, <1>2, <1>3 DEF Outgoing

LEMMA ScheduleKeepsOrder ==
  ASSUME TypeOK, halted = "no",
         NEW yield \in BOOLEAN, NEW st \in [Envs -> Statuses], NEW q \in Queues,
         NEW s \in Seq(Envs), Chain(q, s), Elements(s) = {e \in Envs : st[e] = RUNNABLE},
         NEW cur \in Envs \cup {NULL}, Outgoing(st, q, s, cur),
         schedule(yield, st, q, cur), status' = st
  PROVE  SchedListInv' /\ CurenvIsHead' /\ StopsOnlyWhenIdle'
<1> DEFINE q1 == Requeue(st, q, cur)
           e  == TAILQ_FIRST(q1)
<1>1. Runnable' = Elements(s)
  BY DEF Runnable
<1>2. ASSUME NEW t \in Seq(Envs), Chain(sched', t), Elements(t) = Elements(s)
      PROVE  SchedListInv'
  <2>1. t \in Lists
    BY <1>2, NoDuplicatesBounded DEF Chain
  <2> QED
    BY <1>1, <1>2, <2>1 DEF SchedListInv
<1>3. CASE ~MustSwitch(yield, st, cur)
  <2>1. cur \in Envs /\ st[cur] = RUNNABLE
    BY <1>3 DEF MustSwitch
  <2>2. s # <<>> /\ cur = s[1] /\ TAILQ_FIRST(q) = cur
    BY <2>1, FirstOfChain, TailQueueAssumption DEF Outgoing
  <2>3. env_run(st, q, cur, cur, count - 1)
    BY <1>3 DEF schedule
  <2>4. sched' = q /\ curenv' = cur /\ halted' = "no"
    BY <2>1, <2>3 DEF env_run
  <2> QED
    BY <1>2, <2>1, <2>2, <2>4 DEF CurenvIsHead, StopsOnlyWhenIdle
<1>4. CASE MustSwitch(yield, st, cur) /\ TAILQ_EMPTY(q)
  <2>1. sched' = q /\ halted' = "no runnable envs"
    BY <1>4 DEF schedule, halt
  <2>2. s = <<>>
    BY <1>4, FirstOfChain
  <2>3. Elements(s) = {}
    BY <2>2 DEF Elements
  <2> QED
    BY <1>1, <1>2, <2>1, <2>3 DEF CurenvIsHead, StopsOnlyWhenIdle, Running
<1>5. CASE MustSwitch(yield, st, cur) /\ ~TAILQ_EMPTY(q)
  <2>1. /\ cur # NULL => ~RemoveFaults(q, cur)
        /\ q1 \in Queues
        /\ \E t \in Seq(Envs) : Chain(q1, t) /\ Elements(t) = Elements(s)
    BY RequeueChain
  <2>2. PICK t \in Seq(Envs) : Chain(q1, t) /\ Elements(t) = Elements(s)
    BY <2>1
  <2>3. s # <<>>
    BY <1>5, FirstOfChain
  <2>4. 1 \in 1 .. Len(s)
    BY <2>3
  <2>5. s[1] \in Elements(s)
    BY <2>4 DEF Elements
  <2>6. t # <<>>
    <3>1. Elements(<<>>) = {}
      BY DEF Elements
    <3> QED
      BY <2>2, <2>5, <3>1
  <2>7. e = t[1] /\ t[1] \in Envs /\ 1 \in 1 .. Len(t)
    BY <2>1, <2>2, <2>6, FirstOfChain
  <2>8. e \in Elements(s)
    BY <2>2, <2>7 DEF Elements
  <2>9. e \in Envs /\ st[e] = RUNNABLE /\ e # NULL
    BY <2>7, <2>8, TailQueueAssumption
  <2>10. env_run(st, q1, cur, e, pri[e])
    BY <1>5, <2>1, <2>9 DEF schedule
  <2>11. sched' = q1 /\ curenv' = e /\ halted' = "no"
    BY <2>9, <2>10 DEF env_run
  <2> QED
    BY <1>2, <2>2, <2>9, <2>11 DEF CurenvIsHead, StopsOnlyWhenIdle
<1> QED
  BY <1>3, <1>4, <1>5

-----------------------------------------------------------------------------
(***************************************************************************)
(* What the invariant says at the start of a step.                         *)
(***************************************************************************)
LEMMA RunList ==
  ASSUME SchedInd
  PROVE  \E s \in Seq(Envs) :
           /\ Chain(sched, s) /\ Elements(s) = Runnable
           /\ Running => /\ s # <<>> /\ curenv = s[1] /\ 1 \in 1 .. Len(s)
                         /\ curenv \in Envs /\ status[curenv] = RUNNABLE
<1>1. PICK s \in Lists : Chain(sched, s) /\ Elements(s) = Runnable
  BY DEF SchedInd, SchedListInv
<1>2. s \in Seq(Envs) /\ sched \in Queues /\ curenv \in Envs \cup {NULL}
  BY ListsAreSequences DEF SchedInd, TableInd, TypeOK
<1>3. ASSUME Running
      PROVE  /\ s # <<>> /\ curenv = s[1] /\ 1 \in 1 .. Len(s)
             /\ curenv \in Envs /\ status[curenv] = RUNNABLE
  <2>1. curenv \in Envs /\ status[curenv] = RUNNABLE /\ curenv = TAILQ_FIRST(sched)
    BY <1>2, <1>3 DEF SchedInd, CurenvIsHead, Running
  <2>2. s # <<>>
    BY <1>1, <1>2, <2>1, FirstOfChain, TailQueueAssumption DEF TAILQ_EMPTY
  <2> QED
    BY <1>1, <1>2, <2>1, <2>2, FirstOfChain
<1> QED
  BY <1>1, <1>2, <1>3

\* A free slot waits for nothing and is nobody's child.
LEMMA FreeSlot ==
  ASSUME SchedInd, NEW e \in Envs, e \notin Live
  PROVE  /\ recving[e] = 0 /\ e \notin Runnable
         /\ \A p \in Envs : child[p] # ZERO => p # e /\ ENVX(child[p]) # e
<1>1. status[e] = FREE
  BY DEF Live
<1>2. recving[e] = 0
  BY <1>1 DEF SchedInd, ReceiversAreBlocked, TableInd, TypeOK
<1>3. \A p \in Envs : child[p] # ZERO => p # e /\ ENVX(child[p]) # e
  BY <1>1 DEF SchedInd, ForksUnderWay
<1> QED
  BY <1>1, <1>2, <1>3 DEF Runnable

\* A step that leaves the forks under way alone.
LEMMA ForksKept ==
  ASSUME SchedInd, child' \in [Envs -> Ids],
         \A p \in Envs : child'[p] # ZERO =>
           /\ child'[p] = child[p]
           /\ status'[p] # FREE
           /\ status'[ENVX(child[p])] = NOT_RUNNABLE
           /\ envId'[ENVX(child[p])] = envId[ENVX(child[p])]
           /\ recving'[ENVX(child[p])] = 0
  PROVE  ForksUnderWay'
  BY DEF SchedInd, ForksUnderWay

\* Linking an environment that is not runnable at the tail of the run list.
LEMMA LinkAtTail ==
  ASSUME SchedInd, Running, NEW e \in Envs, status[e] = NOT_RUNNABLE,
         status' = [status EXCEPT ![e] = RUNNABLE], sched' = TAILQ_INSERT_TAIL(sched, e),
         UNCHANGED <<curenv, halted>>
  PROVE  SchedListInv' /\ CurenvIsHead' /\ StopsOnlyWhenIdle'
<1>1. PICK s \in Seq(Envs) :
        /\ Chain(sched, s) /\ Elements(s) = Runnable
        /\ s # <<>> /\ curenv = s[1] /\ 1 \in 1 .. Len(s)
        /\ curenv \in Envs /\ status[curenv] = RUNNABLE
  BY RunList
<1> DEFINE t == Append(s, e)
<1>2. e \notin Elements(s)
  BY <1>1 DEF Runnable
<1>3. sched \in Queues /\ status \in [Envs -> Statuses]
  BY DEF SchedInd, TableInd, TypeOK
<1>4. sched' \in Queues /\ Chain(sched', t)
  BY <1>1, <1>2, <1>3, InsertTailChain
<1>5. t \in Seq(Envs) /\ Elements(t) = Elements(s) \cup {e}
  BY <1>1, AppendToList
<1>6. t # <<>> /\ t[1] = s[1]
  BY <1>1
<1>7. TAILQ_FIRST(sched') = t[1]
  BY <1>4, <1>5, <1>6, FirstOfChain
<1>8. Runnable' = Elements(t)
  BY <1>1, <1>3, <1>5 DEF Runnable
<1>9. t \in Lists
  BY <1>4, <1>5, NoDuplicatesBounded DEF Chain
<1>10. SchedListInv'
  BY <1>4, <1>8, <1>9 DEF SchedListInv
<1>11. CurenvIsHead'
  BY <1>1, <1>3, <1>6, <1>7 DEF CurenvIsHead
<1>12. StopsOnlyWhenIdle'
  BY DEF Running, StopsOnlyWhenIdle
<1> QED
  BY <1>10, <1>11, <1>12

-----------------------------------------------------------------------------
(***************************************************************************)
(* One lemma per action.                                                   *)
(***************************************************************************)
LEMMA SchedSchedule ==
  ASSUME SchedInd, halted = "no", NEW yield \in BOOLEAN,
         schedule(yield, status, sched, curenv), UNCHANGED <<tableVars, recving, child>>
  PROVE  SchedInd'
<1>1. UNCHANGED <<status, envId, recving, child>>
  BY DEF tableVars
<1>2. TableInd'
  BY TableSchedule DEF SchedInd
<1>3. PICK s \in Seq(Envs) :
        /\ Chain(sched, s) /\ Elements(s) = Runnable
        /\ Running => s # <<>> /\ curenv = s[1]
  BY RunList
<1>4. Outgoing(status, sched, s, curenv)
  BY <1>3 DEF Outgoing, Running
<1>5. TypeOK /\ status \in [Envs -> Statuses] /\ sched \in Queues /\ curenv \in Envs \cup {NULL}
  BY DEF SchedInd, TableInd, TypeOK
<1>6. Elements(s) = {e \in Envs : status[e] = RUNNABLE}
  BY <1>3 DEF Runnable
<1>7. SchedListInv' /\ CurenvIsHead' /\ StopsOnlyWhenIdle'
  BY <1>1, <1>3, <1>4, <1>5, <1>6, ScheduleKeepsOrder
<1>8. ReceiversAreBlocked' /\ ForksUnderWay'
  BY <1>1 DEF SchedInd, ReceiversAreBlocked, ForksUnderWay
<1> QED
  BY <1>2, <1>7, <1>8 DEF SchedInd

LEMMA SchedCreate ==
  ASSUME SchedInd, NEW p \in Priorities, env_create(p)
  PROVE  SchedInd'
<1> DEFINE e == Head(freeList)
<1>1. TableInd'
  BY TableCreate DEF SchedInd
<1>2. freeList # <<>> /\ env_alloc(e, ZERO) /\ curenv = NULL /\ halted = "no"
  BY DEF env_create, CanAlloc
<1>3. e \in Envs /\ e \notin Live /\ envId' = [envId EXCEPT ![e] = mkenvid(e)]
  BY <1>2, EnvAlloc, EnvsFacts DEF SchedInd
<1>4. /\ status' = [status EXCEPT ![e] = RUNNABLE]
      /\ sched' = TAILQ_INSERT_HEAD(sched, e)
      /\ UNCHANGED <<recving, curenv, halted, child>>
  BY DEF env_create
<1>5. /\ status \in [Envs -> Statuses] /\ envId \in [Envs -> Ids] /\ sched \in Queues
      /\ child \in [Envs -> Ids]
  BY DEF SchedInd, TableInd, TypeOK
<1>6. /\ recving[e] = 0 /\ e \notin Runnable
      /\ \A x \in Envs : child[x] # ZERO => x # e /\ ENVX(child[x]) # e
  BY <1>3, FreeSlot
<1>7. SchedListInv'
  <2>1. PICK s \in Seq(Envs) : Chain(sched, s) /\ Elements(s) = Runnable
    BY RunList
  <2> DEFINE t == <<e>> \o s
  <2>2. Chain(sched', t)
    BY <1>3, <1>4, <1>5, <1>6, <2>1, InsertHeadChain
  <2>3. t \in Seq(Envs) /\ Elements(t) = Elements(s) \cup {e}
    BY <1>3, <1>6, <2>1, ConsOfList DEF Chain
  <2>4. Runnable' = Elements(t)
    BY <1>3, <1>4, <1>5, <2>1, <2>3 DEF Runnable
  <2>5. t \in Lists
    BY <2>2, <2>3, NoDuplicatesBounded DEF Chain
  <2> QED
    BY <2>2, <2>4, <2>5 DEF SchedListInv
<1>8. CurenvIsHead' /\ StopsOnlyWhenIdle'
  BY <1>2, <1>4 DEF CurenvIsHead, StopsOnlyWhenIdle, Running
<1>9. ReceiversAreBlocked'
  BY <1>3, <1>4, <1>5, <1>6 DEF SchedInd, ReceiversAreBlocked
<1>10. ForksUnderWay'
  <2>1. ASSUME NEW x \in Envs, child'[x] # ZERO
        PROVE  /\ child'[x] = child[x]
               /\ status'[x] # FREE
               /\ status'[ENVX(child[x])] = NOT_RUNNABLE
               /\ envId'[ENVX(child[x])] = envId[ENVX(child[x])]
               /\ recving'[ENVX(child[x])] = 0
    <3>1. ENVX(child[x]) \in Envs
      BY <1>5 DEF ENVX, Ids
    <3> QED
      BY <1>3, <1>4, <1>5, <1>6, <2>1, <3>1 DEF SchedInd, ForksUnderWay
  <2> QED
    BY <1>4, <1>5, <2>1, ForksKept
<1> QED
  BY <1>1, <1>7, <1>8, <1>9, <1>10 DEF SchedInd

\* exit frees the running environment, the head of the run list.
LEMMA SchedExit ==
  ASSUME SchedInd, exit
  PROVE  SchedInd'
<1>1. TableInd'
  BY TableDestroy, EnvsFacts DEF SchedInd, exit
<1>2. Running /\ envid2env(ZERO, TRUE) = {curenv}
  BY DEF exit, sys_env_destroy, envid2env
<1>3. PICK s \in Seq(Envs) :
        /\ Chain(sched, s) /\ Elements(s) = Runnable
        /\ s # <<>> /\ curenv = s[1] /\ 1 \in 1 .. Len(s)
        /\ curenv \in Envs /\ status[curenv] = RUNNABLE
  BY <1>2, RunList
<1> DEFINE st == [status EXCEPT ![curenv] = FREE]
           q  == TAILQ_REMOVE(sched, curenv)
           w  == Without(s, 1)
<1>4. /\ status' = st
      /\ child' = Forget({curenv}, ZERO)
      /\ ~RemoveFaults(sched, curenv) => schedule(TRUE, st, q, NULL)
      /\ UNCHANGED <<envId, recving>>
  <2>1. {curenv} # {}
    OBVIOUS
  <2> QED
    BY <1>2, <2>1 DEF exit, sys_env_destroy
<1>5. /\ TypeOK /\ status \in [Envs -> Statuses] /\ sched \in Queues /\ child \in [Envs -> Ids]
      /\ halted = "no"
  BY <1>2 DEF SchedInd, TableInd, TypeOK, Running
<1>6. /\ ~RemoveFaults(sched, curenv) /\ q \in Queues /\ w \in Seq(Envs) /\ Chain(q, w)
      /\ Elements(w) = Elements(s) \ {curenv}
  BY <1>3, <1>5, RemoveChain
<1>7. st \in [Envs -> Statuses] /\ Elements(w) = {e \in Envs : st[e] = RUNNABLE}
  BY <1>3, <1>5, <1>6 DEF Runnable, Statuses
<1>8. SchedListInv' /\ CurenvIsHead' /\ StopsOnlyWhenIdle'
  <2>1. Outgoing(st, q, w, NULL)
    BY DEF Outgoing
  <2>2. schedule(TRUE, st, q, NULL)
    BY <1>4, <1>6
  <2> QED
    BY <1>4, <1>5, <1>6, <1>7, <2>1, <2>2, ScheduleKeepsOrder
<1>9. ReceiversAreBlocked'
  BY <1>3, <1>4, <1>5 DEF SchedInd, ReceiversAreBlocked
<1>10. ForksUnderWay'
  <2>1. child' \in [Envs -> Ids]
    BY <1>1 DEF TableInd, TypeOK
  <2>2. ASSUME NEW x \in Envs, child'[x] # ZERO
        PROVE  /\ child'[x] = child[x]
               /\ status'[x] # FREE
               /\ status'[ENVX(child[x])] = NOT_RUNNABLE
               /\ envId'[ENVX(child[x])] = envId[ENVX(child[x])]
               /\ recving'[ENVX(child[x])] = 0
    <3>1. x # curenv /\ child'[x] = child[x]
      BY <1>4, <2>2 DEF Forget
    <3>2. status[x] # FREE /\ status[ENVX(child[x])] = NOT_RUNNABLE /\ recving[ENVX(child[x])] = 0
      BY <2>2, <3>1 DEF SchedInd, ForksUnderWay
    <3>3. ENVX(child[x]) \in Envs /\ ENVX(child[x]) # curenv
      BY <1>3, <1>5, <3>2 DEF ENVX, Ids
    <3> QED
      BY <1>4, <1>5, <3>1, <3>2, <3>3
  <2> QED
    BY <2>1, <2>2, ForksKept
<1> QED
  BY <1>1, <1>8, <1>9, <1>10 DEF SchedInd

\* sys_exofork takes a free slot, which nobody else can be setting up.
LEMMA SchedForkBegin ==
  ASSUME SchedInd, fork_begin
  PROVE  SchedInd'
<1>1. PICK mem \in BOOLEAN : sys_exofork(mem)
  BY DEF fork_begin
<1>2. TableInd'
  BY <1>1, TableFork DEF SchedInd
<1>3. Running /\ UNCHANGED <<recving, sched, curenv, halted>>
  BY <1>1 DEF sys_exofork, schedVars
<1>4. /\ status \in [Envs -> Statuses] /\ envId \in [Envs -> Ids] /\ child \in [Envs -> Ids]
      /\ curenv \in Envs /\ curenv \in Live /\ freeList \in Seq(Envs)
  BY <1>3 DEF SchedInd, TableInd, TypeOK, CurenvLive, Live
<1>5. \A x \in Envs : ENVX(child[x]) \in Envs
  BY <1>4 DEF ENVX, Ids
<1> DEFINE e == Head(freeList)
<1>6. freeList # <<>> =>
        /\ e \in Envs /\ e \notin Live /\ recving[e] = 0 /\ e \notin Runnable
        /\ \A p \in Envs : child[p] # ZERO => p # e /\ ENVX(child[p]) # e
  <2>1. SUFFICES ASSUME freeList # <<>> PROVE e \in Envs /\ e \notin Live
    BY FreeSlot
  <2>2. e \in Envs /\ e \in Elements(freeList)
    BY <2>1, TailOfList DEF SchedInd, TableInd, TypeOK, TableInv
  <2> QED
    BY <2>2 DEF SchedInd, TableInd, TableInv
<1>7. CASE CanAlloc(mem)
  <2>1. /\ freeList # <<>>
        /\ status' = [status EXCEPT ![e] = NOT_RUNNABLE]
        /\ child' = [child EXCEPT ![curenv] = mkenvid(e)]
        /\ envId' = [envId EXCEPT ![e] = mkenvid(e)]
    BY <1>1, <1>7 DEF sys_exofork, CanAlloc, env_alloc
  <2>2. Runnable' = Runnable
    BY <1>4, <1>6, <2>1 DEF Runnable
  <2>3. SchedListInv'
    BY <1>3, <2>2 DEF SchedInd, SchedListInv
  <2>4. CurenvIsHead'
    <3>1. e # curenv
      BY <1>4, <1>6, <2>1
    <3> QED
      BY <1>3, <1>4, <2>1, <3>1 DEF SchedInd, CurenvIsHead
  <2>5. StopsOnlyWhenIdle'
    BY <1>3, <2>2 DEF SchedInd, StopsOnlyWhenIdle
  <2>6. ReceiversAreBlocked'
    BY <1>3, <1>4, <1>6, <2>1 DEF SchedInd, ReceiversAreBlocked
  <2>7. ForksUnderWay'
    <3>1. ENVX(mkenvid(e)) = e
      BY <1>6, <2>1, EnvsFacts DEF ENVX
    <3>2. \A x \in Envs : child[x] # mkenvid(e) \/ child[x] = ZERO
      BY <1>6, <2>1, <3>1
    <3>3. \A x \in Envs : x # curenv => child'[x] = child[x]
      BY <1>4, <2>1
    <3>4. child'[curenv] = mkenvid(e)
      BY <1>4, <2>1
    <3>5. ASSUME NEW x \in Envs, child'[x] # ZERO
          PROVE  /\ status'[x] # FREE
                 /\ status'[ENVX(child'[x])] = NOT_RUNNABLE
                 /\ envId'[ENVX(child'[x])] = child'[x]
                 /\ recving'[ENVX(child'[x])] = 0
      <4>1. CASE x = curenv
        BY <1>3, <1>4, <1>6, <2>1, <3>1, <3>4, <4>1 DEF Live
      <4>2. CASE x # curenv
        <5>1. child[x] # ZERO /\ child'[x] = child[x]
          BY <3>3, <3>5, <4>2
        <5>2. /\ status[x] # FREE /\ status[ENVX(child[x])] = NOT_RUNNABLE
              /\ envId[ENVX(child[x])] = child[x] /\ recving[ENVX(child[x])] = 0
          BY <5>1 DEF SchedInd, ForksUnderWay
        <5>3. x # e /\ ENVX(child[x]) # e
          BY <1>6, <2>1, <5>1
        <5> QED
          BY <1>3, <1>4, <1>5, <2>1, <5>1, <5>2, <5>3
      <4> QED
        BY <4>1, <4>2
    <3>6. ASSUME NEW x \in Envs, NEW y \in Envs, child'[x] # ZERO, child'[y] = child'[x]
          PROVE  y = x
      <4>1. \A u, v \in Envs : child[u] # ZERO /\ child[v] = child[u] => v = u
        BY DEF SchedInd, ForksUnderWay
      <4> QED
        BY <3>2, <3>3, <3>4, <3>6, <4>1
    <3> QED
      BY <3>5, <3>6 DEF ForksUnderWay
  <2> QED
    BY <1>2, <2>3, <2>4, <2>5, <2>6, <2>7 DEF SchedInd
<1>8. CASE ~CanAlloc(mem)
  <2>1. /\ UNCHANGED <<status, child>>
        /\ \/ UNCHANGED envId
           \/ freeList # <<>> /\ envId' = [envId EXCEPT ![e] = mkenvid(e)]
    BY <1>1, <1>8 DEF sys_exofork, env_alloc_fails
  <2>2. SchedListInv' /\ CurenvIsHead' /\ StopsOnlyWhenIdle' /\ ReceiversAreBlocked'
    BY <1>3, <2>1 DEF SchedInd, SchedListInv, CurenvIsHead, StopsOnlyWhenIdle,
                      ReceiversAreBlocked, Running, Runnable
  <2>3. ForksUnderWay'
    <3>1. ASSUME NEW x \in Envs, child[x] # ZERO
          PROVE  envId'[ENVX(child[x])] = envId[ENVX(child[x])]
      BY <1>4, <1>5, <1>6, <2>1, <3>1
    <3> QED
      BY <1>3, <2>1, <3>1 DEF SchedInd, ForksUnderWay
  <2> QED
    BY <1>2, <2>2, <2>3 DEF SchedInd
<1> QED
  BY <1>7, <1>8

\* The end of a fork finds the child it has been setting up, still blocked.
LEMMA SchedForkEnd ==
  ASSUME SchedInd, fork_end
  PROVE  SchedInd'
<1> DEFINE id == child[curenv]
           c  == ENVX(id)
<1>1. /\ Running /\ id # ZERO /\ sys_set_env_status(id, RUNNABLE)
      /\ child' = [child EXCEPT ![curenv] = ZERO]
  BY DEF fork_end
<1>2. /\ status \in [Envs -> Statuses] /\ envId \in [Envs -> Ids] /\ child \in [Envs -> Ids]
      /\ curenv \in Envs
  BY <1>1 DEF SchedInd, TableInd, TypeOK, CurenvLive, Live
<1>3. id \in Ids /\ RUNNABLE \in Statuses /\ child' \in [Envs -> Ids]
  BY <1>1, <1>2, EnvsFacts DEF Statuses
<1>4. TableInd'
  BY <1>1, <1>3, TableSetStatus DEF SchedInd
<1>5. \A x \in Envs : ENVX(child[x]) \in Envs
  BY <1>2 DEF ENVX, Ids
<1>6. status[c] = NOT_RUNNABLE /\ envId[c] = id /\ recving[c] = 0
  BY <1>1, <1>2 DEF SchedInd, ForksUnderWay
<1>7. envid2env(id, FALSE) = {c}
  BY <1>1, <1>6 DEF envid2env
<1>8. /\ sched' = TAILQ_INSERT_TAIL(sched, c)
      /\ status' = [status EXCEPT ![c] = RUNNABLE]
      /\ UNCHANGED <<halted, curenv, envId, recving>>
  BY <1>1, <1>6, <1>7 DEF sys_set_env_status
<1>9. SchedListInv' /\ CurenvIsHead' /\ StopsOnlyWhenIdle'
  BY <1>1, <1>2, <1>5, <1>6, <1>8, LinkAtTail
<1>10. ReceiversAreBlocked'
  BY <1>2, <1>5, <1>6, <1>8 DEF SchedInd, ReceiversAreBlocked
<1>11. ForksUnderWay'
  <2>1. ASSUME NEW x \in Envs, child'[x] # ZERO
        PROVE  /\ child'[x] = child[x]
               /\ status'[x] # FREE
               /\ status'[ENVX(child[x])] = NOT_RUNNABLE
               /\ envId'[ENVX(child[x])] = envId[ENVX(child[x])]
               /\ recving'[ENVX(child[x])] = 0
    <3>1. x # curenv /\ child'[x] = child[x] /\ child[x] # ZERO
      BY <1>1, <1>2, <2>1
    <3>2. /\ status[x] # FREE /\ status[ENVX(child[x])] = NOT_RUNNABLE
          /\ envId[ENVX(child[x])] = child[x] /\ recving[ENVX(child[x])] = 0
      BY <3>1 DEF SchedInd, ForksUnderWay
    <3>3. child[x] # id
      BY <1>1, <1>2, <3>1 DEF SchedInd, ForksUnderWay
    <3>4. ENVX(child[x]) # c
      BY <1>6, <3>2, <3>3
    <3> QED
      BY <1>2, <1>5, <1>8, <3>1, <3>2, <3>4
  <2> QED
    BY <1>3, <2>1, ForksKept
<1> QED
  BY <1>4, <1>9, <1>10, <1>11 DEF SchedInd

\* sys_ipc_recv takes the running environment off the run list and calls
\* schedule, which takes it off again.
LEMMA SchedRecv ==
  ASSUME SchedInd, NEW legal \in BOOLEAN, sys_ipc_recv(legal)
  PROVE  SchedInd'
<1>1. TableInd'
  BY TableRecv DEF SchedInd
<1>2. Running /\ halted = "no" /\ UNCHANGED <<envId, child>>
  BY DEF sys_ipc_recv, Running
<1>3. CASE ~legal
  <2>1. UNCHANGED <<status, recving, sched, curenv, count, halted>>
    BY <1>3 DEF sys_ipc_recv, schedVars
  <2> QED
    BY <1>1, <1>2, <2>1 DEF SchedInd, SchedListInv, CurenvIsHead, StopsOnlyWhenIdle,
                            ReceiversAreBlocked, ForksUnderWay, Running, Runnable
<1>4. CASE legal
  <2>1. PICK s \in Seq(Envs) :
          /\ Chain(sched, s) /\ Elements(s) = Runnable
          /\ s # <<>> /\ curenv = s[1] /\ 1 \in 1 .. Len(s)
          /\ curenv \in Envs /\ status[curenv] = RUNNABLE
    BY <1>2, RunList
  <2> DEFINE st == [status EXCEPT ![curenv] = NOT_RUNNABLE]
             q  == TAILQ_REMOVE(sched, curenv)
             w  == Without(s, 1)
  <2>2. /\ TypeOK /\ status \in [Envs -> Statuses] /\ sched \in Queues /\ child \in [Envs -> Ids]
        /\ recving \in [Envs -> {0, 1}]
    BY DEF SchedInd, TableInd, TypeOK
  <2>3. /\ ~RemoveFaults(sched, curenv) /\ q \in Queues /\ w \in Seq(Envs) /\ Chain(q, w)
        /\ Elements(w) = Elements(s) \ {curenv}
    BY <2>1, <2>2, RemoveChain
  <2>4. ~RemoveFaults(q, curenv) /\ TAILQ_REMOVE(q, curenv) = q
    BY <2>1, <2>2, RemoveTwice
  <2>5. /\ recving' = [recving EXCEPT ![curenv] = 1]
        /\ status' = st
        /\ schedule(TRUE, st, q, curenv)
    BY <1>4, <2>3 DEF sys_ipc_recv
  <2>6. st \in [Envs -> Statuses] /\ Elements(w) = {e \in Envs : st[e] = RUNNABLE}
    BY <2>1, <2>2, <2>3 DEF Runnable, Statuses
  <2>7. Outgoing(st, q, w, curenv)
    BY <2>1, <2>2, <2>4 DEF Outgoing
  <2>8. SchedListInv' /\ CurenvIsHead' /\ StopsOnlyWhenIdle'
    BY <1>2, <2>1, <2>2, <2>3, <2>5, <2>6, <2>7, ScheduleKeepsOrder
  <2>9. ReceiversAreBlocked'
    BY <2>1, <2>2, <2>5 DEF SchedInd, ReceiversAreBlocked
  <2>10. ForksUnderWay'
    <3>1. ASSUME NEW x \in Envs, child'[x] # ZERO
          PROVE  /\ child'[x] = child[x]
                 /\ status'[x] # FREE
                 /\ status'[ENVX(child[x])] = NOT_RUNNABLE
                 /\ envId'[ENVX(child[x])] = envId[ENVX(child[x])]
                 /\ recving'[ENVX(child[x])] = 0
      <4>1. child'[x] = child[x] /\ child[x] # ZERO
        BY <1>2, <3>1
      <4>2. /\ status[x] # FREE /\ status[ENVX(child[x])] = NOT_RUNNABLE
            /\ recving[ENVX(child[x])] = 0
        BY <4>1 DEF SchedInd, ForksUnderWay
      <4>3. ENVX(child[x]) \in Envs /\ ENVX(child[x]) # curenv
        BY <2>1, <2>2, <4>2 DEF ENVX, Ids
      <4> QED
        BY <1>2, <2>1, <2>2, <2>5, <4>1, <4>2, <4>3
    <3> QED
      BY <1>2, <2>2, <3>1, ForksKept
  <2> QED
    BY <1>1, <2>8, <2>9, <2>10 DEF SchedInd
<1> QED
  BY <1>3, <1>4

\* A message wakes an environment that waits for one, and nobody else.
LEMMA SchedSend ==
  ASSUME SchedInd, NEW id \in Ids, NEW legal \in BOOLEAN, sys_ipc_try_send(id, legal)
  PROVE  SchedInd'
<1>1. TableInd'
  BY TableSend DEF SchedInd
<1>2. Running /\ UNCHANGED <<envId, curenv, halted, child>>
  BY DEF sys_ipc_try_send
<1>3. CASE UNCHANGED <<status, recving, sched>>
  BY <1>1, <1>2, <1>3 DEF SchedInd, SchedListInv, CurenvIsHead, StopsOnlyWhenIdle,
                          ReceiversAreBlocked, ForksUnderWay, Running, Runnable
<1>4. CASE \E e \in Receivers(id) : Wake(e)
  <2>1. PICK e \in Receivers(id) : Wake(e)
    BY <1>4
  <2>2. e \in envid2env(id, FALSE) /\ recving[e] = 1
    BY DEF Receivers
  <2>3. e \in Envs
    BY <1>2, <2>2, Resolved DEF SchedInd
  <2>4. status[e] = NOT_RUNNABLE
    BY <2>2, <2>3 DEF SchedInd, ReceiversAreBlocked
  <2>5. /\ recving' = [recving EXCEPT ![e] = 0]
        /\ status' = [status EXCEPT ![e] = RUNNABLE]
        /\ sched' = TAILQ_INSERT_TAIL(sched, e)
    BY <2>1 DEF Wake
  <2>6. /\ status \in [Envs -> Statuses] /\ recving \in [Envs -> {0, 1}]
        /\ child \in [Envs -> Ids]
    BY DEF SchedInd, TableInd, TypeOK
  <2>7. SchedListInv' /\ CurenvIsHead' /\ StopsOnlyWhenIdle'
    BY <1>2, <2>3, <2>4, <2>5, LinkAtTail
  <2>8. ReceiversAreBlocked'
    BY <2>3, <2>5, <2>6 DEF SchedInd, ReceiversAreBlocked
  <2>9. ForksUnderWay'
    <3>1. ASSUME NEW x \in Envs, child'[x] # ZERO
          PROVE  /\ child'[x] = child[x]
                 /\ status'[x] # FREE
                 /\ status'[ENVX(child[x])] = NOT_RUNNABLE
                 /\ envId'[ENVX(child[x])] = envId[ENVX(child[x])]
                 /\ recving'[ENVX(child[x])] = 0
      <4>1. child'[x] = child[x] /\ child[x] # ZERO
        BY <1>2, <3>1
      <4>2. /\ status[x] # FREE /\ status[ENVX(child[x])] = NOT_RUNNABLE
            /\ recving[ENVX(child[x])] = 0
        BY <4>1 DEF SchedInd, ForksUnderWay
      <4>3. ENVX(child[x]) \in Envs /\ ENVX(child[x]) # e
        BY <2>2, <2>6, <4>2 DEF ENVX, Ids
      <4> QED
        BY <1>2, <2>3, <2>5, <2>6, <4>1, <4>2, <4>3
    <3> QED
      BY <1>2, <2>6, <3>1, ForksKept
  <2> QED
    BY <1>1, <2>7, <2>8, <2>9 DEF SchedInd
<1> QED
  BY <1>3, <1>4 DEF sys_ipc_try_send

-----------------------------------------------------------------------------
LEMMA SchedStep ==
  ASSUME Extra = {}, SchedInd, [Next]_vars
  PROVE  SchedInd'
<1>1. KnownIds \subseteq Ids
  BY EnvsFacts DEF KnownIds, SchedInd, TableInd, TypeOK
<1>2. ASSUME NEW p \in Priorities, env_create(p) PROVE SchedInd'
  BY <1>2, SchedCreate
<1>3. CASE Tick
  BY <1>3, SchedSchedule DEF Tick
<1>4. CASE sys_yield
  BY <1>4, SchedSchedule DEF sys_yield, Running
<1>5. CASE exit
  BY <1>5, SchedExit
<1>6. CASE fork_begin
  BY <1>6, SchedForkBegin
<1>7. CASE fork_end
  BY <1>7, SchedForkEnd
<1>8. CASE spawn_err \/ kill \/ set_status
  BY <1>8 DEF spawn_err, kill, set_status
<1>9. CASE receive
  BY <1>9, SchedRecv DEF receive
<1>10. CASE send
  BY <1>1, <1>10, SchedSend DEF send
<1>11. CASE UNCHANGED vars
  <2>1. TableInd'
    BY <1>11, TableStep DEF SchedInd
  <2>2. UNCHANGED <<status, envId, recving, sched, curenv, halted, child>>
    BY <1>11 DEF vars, tableVars, schedVars
  <2> QED
    BY <2>1, <2>2 DEF SchedInd, SchedListInv, CurenvIsHead, StopsOnlyWhenIdle,
                      ReceiversAreBlocked, ForksUnderWay, Running, Runnable
<1> QED
  BY <1>2, <1>3, <1>4, <1>5, <1>6, <1>7, <1>8, <1>9, <1>10, <1>11 DEF Next

LEMMA SchedSafe == Extra = {} => (Spec => []SchedInd)
<1> SUFFICES ASSUME Extra = {} PROVE Spec => []SchedInd
  OBVIOUS
<1>1. Init => SchedInd
  BY SchedInit
<1>2. SchedInd /\ [Next]_vars => SchedInd'
  BY SchedStep
<1> QED
  BY <1>1, <1>2, PTL DEF Spec

\* env.c:18 holds for programs that use the library: the links of env_sched_list
\* are intact and spell exactly the runnable environments, for any NENV.
THEOREM RunListSafe == Extra = {} => (Spec => []SchedListInv)
<1>1. SchedInd => SchedListInv
  BY DEF SchedInd
<1> QED
  BY <1>1, SchedSafe, PTL

\* The environment that runs is runnable and is the head of env_sched_list
\* whenever schedule is entered.
THEOREM CurenvSafe == Extra = {} => (Spec => []CurenvIsHead)
<1>1. SchedInd => CurenvIsHead
  BY DEF SchedInd
<1> QED
  BY <1>1, SchedSafe, PTL

\* sys_ipc_try_send finds env_ipc_recving set only in blocked environments, so
\* that its TAILQ_INSERT_TAIL never links an environment twice.
THEOREM ReceiversSafe == Extra = {} => (Spec => []ReceiversAreBlocked)
<1>1. SchedInd => ReceiversAreBlocked
  BY DEF SchedInd
<1> QED
  BY <1>1, SchedSafe, PTL

\* schedule, env_run and the removals of sys_ipc_recv and env_free never fault;
\* the kernel stops only when no environment is runnable.
THEOREM StopsSafe == Extra = {} => (Spec => []StopsOnlyWhenIdle)
<1>1. SchedInd => StopsOnlyWhenIdle
  BY DEF SchedInd
<1> QED
  BY <1>1, SchedSafe, PTL

\* Between sys_exofork and sys_set_env_status, a fork's child stays blocked, keeps
\* its envid and belongs to that fork alone, whatever the timer and the other
\* environments do in between.
THEOREM ForksSafe == Extra = {} => (Spec => []ForksUnderWay)
<1>1. SchedInd => ForksUnderWay
  BY DEF SchedInd
<1> QED
  BY <1>1, SchedSafe, PTL

\* A yield hands the CPU to the next environment of the run list.
LEMMA YieldSwitches ==
  ASSUME SchedInd, sys_yield
  PROVE  curenv' # curenv \/ Runnable = {curenv}
<1>1. Running /\ schedule(TRUE, status, sched, curenv)
  BY DEF sys_yield
<1>2. PICK s \in Seq(Envs) :
        /\ Chain(sched, s) /\ Elements(s) = Runnable
        /\ s # <<>> /\ curenv = s[1] /\ 1 \in 1 .. Len(s)
        /\ curenv \in Envs /\ status[curenv] = RUNNABLE
  BY <1>1, RunList
<1>3. sched \in Queues
  BY DEF SchedInd, TableInd, TypeOK
<1> DEFINE q0 == TAILQ_REMOVE(sched, curenv)
           w  == Without(s, 1)
           t  == Append(w, curenv)
           q1 == TAILQ_INSERT_TAIL(q0, curenv)
           e  == TAILQ_FIRST(q1)
<1>4. /\ ~RemoveFaults(sched, curenv) /\ q0 \in Queues /\ w \in Seq(Envs) /\ Chain(q0, w)
      /\ Elements(w) = Elements(s) \ {curenv}
  BY <1>2, <1>3, RemoveChain
<1>5. q1 \in Queues /\ Chain(q1, t) /\ t \in Seq(Envs) /\ Elements(t) = Elements(s)
  <2>1. q1 \in Queues /\ Chain(q1, t)
    BY <1>2, <1>4, InsertTailChain
  <2>2. curenv \in Elements(s)
    BY <1>2 DEF Runnable
  <2>3. t \in Seq(Envs) /\ Elements(t) = Elements(w) \cup {curenv}
    BY <1>2, <1>4, AppendToList
  <2> QED
    BY <1>4, <2>1, <2>2, <2>3
<1>6. t # <<>> /\ 1 \in 1 .. Len(t)
  <2> HIDE DEF w
  <2>1. Len(t) = Len(w) + 1 /\ Len(w) \in Nat
    BY <1>4
  <2>2. Len(<<>>) = 0
    OBVIOUS
  <2> QED
    BY <2>1, <2>2
<1>7. e = t[1] /\ e \in Envs /\ e # NULL
  BY <1>5, <1>6, FirstOfChain, TailQueueAssumption
<1>8. status[e] = RUNNABLE
  <2>1. e \in Elements(t)
    BY <1>6, <1>7 DEF Elements
  <2> QED
    BY <1>2, <1>5, <2>1 DEF Runnable
<1>9. curenv' = e
  <2>1. MustSwitch(TRUE, status, curenv)
    BY DEF MustSwitch
  <2>2. ~TAILQ_EMPTY(sched)
    BY <1>2, <1>3, FirstOfChain
  <2>3. Requeue(status, sched, curenv) = q1
    BY <1>2, TailQueueAssumption DEF Requeue
  <2>4. env_run(status, q1, curenv, e, pri[e])
    BY <1>1, <1>4, <1>7, <2>1, <2>2, <2>3 DEF schedule
  <2> QED
    BY <1>8, <2>4 DEF env_run
<1>10. CASE w = <<>>
  <2>1. Elements(t) = {curenv}
    <3>1. Elements(w) = {}
      BY <1>10 DEF Elements
    <3> QED
      BY <1>2, <1>4, <3>1, AppendToList
  <2> QED
    BY <1>2, <1>5, <2>1
<1>11. CASE w # <<>>
  <2>1. 1 \in 1 .. Len(w) /\ t[1] = w[1]
    BY <1>4, <1>11
  <2>2. w[1] \in Elements(w)
    BY <2>1 DEF Elements
  <2> QED
    BY <1>4, <1>7, <1>9, <2>1, <2>2
<1> QED
  BY <1>10, <1>11

\* sched.c:9 holds for programs that use the library: sys_yield does not
\* schedule the caller again while another environment is runnable.
THEOREM YieldSafe == Extra = {} => (Spec => YieldGivesUp)
<1> SUFFICES ASSUME Extra = {} PROVE Spec => YieldGivesUp
  OBVIOUS
<1>1. SchedInd => [sys_yield => curenv' # curenv \/ Runnable = {curenv}]_vars
  BY YieldSwitches
<1> QED
  BY <1>1, SchedSafe, PTL DEF YieldGivesUp

-----------------------------------------------------------------------------
(***************************************************************************)
(* Lost wake-ups.  That a blocked environment has a parent about to start  *)
(* it says something of envids, so it needs the freshness of IdsOk: a new  *)
(* environment must not be taken for the parent of an old one.             *)
(***************************************************************************)
WakeInd == SchedInd /\ IdsOk /\ NoLostWakeup

\* Blocked, and not for a message.
Held(e) == status[e] = NOT_RUNNABLE /\ recving[e] = 0

\* A step that blocks nobody without a message to wait for, brings nobody to
\* life, and ends no fork whose child is still blocked.
LEMMA WakeKept ==
  ASSUME NoLostWakeup, UNCHANGED <<envId, parentId>>,
         \A x \in Envs : Held(x)' => Held(x),
         \A p \in Envs : p \in Live' => p \in Live,
         \A p, x \in Envs : p \in Live' /\ Held(x)' /\ child[p] = envId[x] => child'[p] = child[p]
  PROVE  NoLostWakeup'
<1>1. ASSUME NEW x \in Envs, Held(x)'
      PROVE  /\ parentId'[x] # ZERO
             /\ \A p \in Live' : parentId'[x] = envId'[p] => child'[p] = envId'[x]
  <2>1. Held(x)
    BY <1>1
  <2>2. /\ parentId[x] # ZERO
        /\ \A p \in Live : parentId[x] = envId[p] => child[p] = envId[x]
    BY <2>1 DEF NoLostWakeup, Held
  <2>3. ASSUME NEW p \in Live', parentId'[x] = envId'[p]
        PROVE  child'[p] = envId'[x]
    <3>1. p \in Envs /\ p \in Live
      BY DEF Live
    <3> QED
      BY <1>1, <2>2, <2>3, <3>1
  <2> QED
    BY <2>2, <2>3
<1> QED
  BY <1>1 DEF NoLostWakeup, Held

\* Envids and parents' envids are never ZERO for those alive, and serials tell
\* a new environment from everybody's parent.
LEMMA NewIsNobodysParent ==
  ASSUME TableInd, IdsOk, NoWrap, serial < MaxIds \/ serial < MaxBoot, NEW e \in Envs, NEW x \in Envs
  PROVE  /\ mkenvid(e) # parentId[x] /\ mkenvid(e) # envId[x]
         /\ \A p \in Live : p \in Envs /\ envId[p] # ZERO /\ (envId[p] = envId[x] => p = ENVX(envId[x]))
<1>1. mkenvid(e)[1] = serial + 1 /\ serial \in Nat
  BY FreshSerial DEF TableInd
<1>2. parentId[x][1] <= serial /\ envId[x][1] <= serial
  BY DEF IdsOk
<1>3. \A p \in Live : p \in Envs /\ envId[p][1] > 0 /\ ENVX(envId[p]) = p
  BY DEF IdsOk, Live
<1>4. \A p \in Live : envId[p] # ZERO
  BY <1>3 DEF ZERO
<1>5. ~(serial + 1 <= serial)
  BY <1>1
<1> QED
  BY <1>1, <1>2, <1>3, <1>4, <1>5

LEMMA WakeCreate ==
  ASSUME WakeInd, NoWrap, NEW p \in Priorities, env_create(p)
  PROVE  NoLostWakeup'
<1> DEFINE e == Head(freeList)
<1>1. freeList # <<>> /\ env_alloc(e, ZERO) /\ serial < MaxBoot
  BY DEF env_create, CanAlloc
<1>2. e \in Envs /\ envId' = [envId EXCEPT ![e] = mkenvid(e)] /\ e \notin Live
  BY <1>1, EnvAlloc, EnvsFacts DEF WakeInd, SchedInd
<1>3. parentId' = [parentId EXCEPT ![e] = ZERO] /\ status' = [status EXCEPT ![e] = RUNNABLE]
      /\ UNCHANGED <<recving, child>>
  BY <1>1 DEF env_alloc, env_create
<1>4. /\ status \in [Envs -> Statuses] /\ parentId \in [Envs -> Ids] /\ envId \in [Envs -> Ids]
      /\ TableInd /\ IdsOk
  BY DEF WakeInd, SchedInd, TableInd, TypeOK
<1> HIDE DEF e
<1>5. ASSUME NEW x \in Envs, Held(x)'
      PROVE  /\ parentId'[x] # ZERO
             /\ \A y \in Live' : parentId'[x] = envId'[y] => child'[y] = envId'[x]
  <2>1. x # e /\ Held(x) /\ parentId'[x] = parentId[x] /\ envId'[x] = envId[x]
    BY <1>2, <1>3, <1>4, <1>5 DEF Held
  <2>2. /\ parentId[x] # ZERO
        /\ \A y \in Live : parentId[x] = envId[y] => child[y] = envId[x]
    BY <2>1 DEF NoLostWakeup, Held, WakeInd
  <2>3. ASSUME NEW y \in Live', parentId'[x] = envId'[y]
        PROVE  child'[y] = envId'[x]
    <3>1. mkenvid(e) # parentId[x]
      BY <1>1, <1>2, <1>4, NewIsNobodysParent
    <3>2. y # e
      BY <1>2, <1>4, <2>1, <2>3, <3>1
    <3>3. y \in Live /\ envId'[y] = envId[y]
      BY <1>2, <1>3, <1>4, <3>2 DEF Live
    <3> QED
      BY <1>3, <2>1, <2>2, <2>3, <3>3
  <2> QED
    BY <2>1, <2>2, <2>3
<1> QED
  BY <1>5 DEF NoLostWakeup, Held

\* The parent of the new environment holds its envid, and held none before.
LEMMA WakeForkBegin ==
  ASSUME WakeInd, NoWrap, fork_begin
  PROVE  NoLostWakeup'
<1> DEFINE e == Head(freeList)
<1>1. PICK mem \in BOOLEAN : sys_exofork(mem)
  BY DEF fork_begin
<1>2. Running /\ child[curenv] = ZERO /\ serial < MaxIds
  BY DEF fork_begin
<1>3. /\ status \in [Envs -> Statuses] /\ parentId \in [Envs -> Ids] /\ envId \in [Envs -> Ids]
      /\ child \in [Envs -> Ids] /\ TableInd /\ IdsOk /\ curenv \in Envs /\ curenv \in Live
      /\ UNCHANGED recving
  BY <1>1, <1>2 DEF WakeInd, SchedInd, TableInd, TypeOK, CurenvLive, Live, sys_exofork
<1>4. CASE CanAlloc(mem)
  <2>1. freeList # <<>> /\ env_alloc(e, envId[curenv])
    BY <1>1, <1>4 DEF sys_exofork, CanAlloc
  <2>2. e \in Envs /\ envId' = [envId EXCEPT ![e] = mkenvid(e)] /\ e \notin Live
    BY <1>3, <2>1, EnvAlloc
  <2>3. parentId' = [parentId EXCEPT ![e] = envId[curenv]] /\ status' = [status EXCEPT ![e] = NOT_RUNNABLE]
        /\ child' = [child EXCEPT ![curenv] = mkenvid(e)]
    BY <1>1, <1>4, <2>1 DEF env_alloc, sys_exofork
  <2> HIDE DEF e
  <2>4. ASSUME NEW x \in Envs, Held(x)'
        PROVE  /\ parentId'[x] # ZERO
               /\ \A y \in Live' : parentId'[x] = envId'[y] => child'[y] = envId'[x]
    <3>1. CASE x = e
      <4>1. parentId'[x] = envId[curenv] /\ envId'[x] = mkenvid(e) /\ envId[curenv] # ZERO
        BY <1>2, <1>3, <2>2, <2>3, <3>1, NewIsNobodysParent
      <4>2. ASSUME NEW y \in Live', parentId'[x] = envId'[y]
            PROVE  child'[y] = envId'[x]
        <5>1. mkenvid(e) # envId[curenv]
          BY <1>2, <1>3, <2>2, NewIsNobodysParent
        <5>2. y # e /\ y \in Live /\ envId'[y] = envId[y]
          BY <1>3, <2>2, <2>3, <4>1, <4>2, <5>1 DEF Live
        <5>3. y = ENVX(envId[curenv]) /\ curenv = ENVX(envId[curenv])
          BY <1>2, <1>3, <4>1, <4>2, <5>2, NewIsNobodysParent
        <5> QED
          BY <1>3, <2>3, <4>1, <5>3
      <4> QED
        BY <4>1, <4>2
    <3>2. CASE x # e
      <4>1. Held(x) /\ parentId'[x] = parentId[x] /\ envId'[x] = envId[x]
        BY <1>3, <2>2, <2>3, <2>4, <3>2 DEF Held
      <4>2. /\ parentId[x] # ZERO
            /\ \A y \in Live : parentId[x] = envId[y] => child[y] = envId[x]
        BY <4>1 DEF NoLostWakeup, Held, WakeInd
      <4>3. x \in Live /\ envId[x] # ZERO
        <5>1. x \in Live
          BY <4>1 DEF Held, Live
        <5> QED
          BY <1>2, <1>3, <5>1, NewIsNobodysParent
      <4>4. ASSUME NEW y \in Live', parentId'[x] = envId'[y]
            PROVE  child'[y] = envId'[x]
        <5>1. mkenvid(e) # parentId[x]
          BY <1>2, <1>3, <2>2, NewIsNobodysParent
        <5>2. y # e
          BY <1>3, <2>2, <4>1, <4>4, <5>1
        <5>3. y \in Live /\ envId'[y] = envId[y] /\ y \in Envs
          BY <1>3, <2>2, <2>3, <5>2 DEF Live
        <5>4. child[y] = envId[x]
          BY <4>1, <4>2, <4>4, <5>3
        <5>5. y # curenv
          BY <1>2, <4>3, <5>4
        <5> QED
          BY <1>3, <2>3, <4>1, <5>3, <5>4, <5>5
      <4> QED
        BY <4>1, <4>2, <4>4
    <3> QED
      BY <3>1, <3>2
  <2> QED
    BY <2>4 DEF NoLostWakeup, Held
<1>5. CASE ~CanAlloc(mem)
  <2>1. UNCHANGED <<status, parentId, child>> /\ (UNCHANGED envId \/ (freeList # <<>> /\ envId' = [envId EXCEPT ![e] = mkenvid(e)]))
    BY <1>1, <1>5 DEF sys_exofork, env_alloc_fails
  <2>2. \A x \in Live : x \in Envs /\ envId'[x] = envId[x]
    <3>1. freeList # <<>> => e \in Envs /\ e \notin Live
      BY <1>3, TailOfList DEF TableInd, TypeOK, TableInv
    <3> HIDE DEF e
    <3> QED
      BY <1>3, <2>1, <3>1 DEF Live
  <2>3. ASSUME NEW x \in Envs, Held(x)'
        PROVE  /\ parentId'[x] # ZERO
               /\ \A y \in Live' : parentId'[x] = envId'[y] => child'[y] = envId'[x]
    <3>1. Held(x) /\ x \in Live /\ Live' = Live
      BY <1>3, <2>1, <2>3 DEF Held, Live
    <3>2. /\ parentId[x] # ZERO
          /\ \A y \in Live : parentId[x] = envId[y] => child[y] = envId[x]
      BY <3>1 DEF NoLostWakeup, Held, WakeInd
    <3> QED
      BY <2>1, <2>2, <3>1, <3>2
  <2> QED
    BY <2>3 DEF NoLostWakeup, Held
<1> QED
  BY <1>4, <1>5

LEMMA WakeExit ==
  ASSUME WakeInd, exit
  PROVE  NoLostWakeup'
<1>1. Running /\ curenv \in Envs /\ envid2env(ZERO, TRUE) = {curenv}
  BY DEF exit, sys_env_destroy, envid2env, WakeInd, SchedInd, TableInd, CurenvLive, Live
<1>2. /\ status' = [status EXCEPT ![curenv] = FREE] /\ child' = Forget({curenv}, ZERO)
      /\ UNCHANGED <<envId, parentId, recving>>
  <2>1. {curenv} # {}
    OBVIOUS
  <2> QED
    BY <1>1, <2>1 DEF exit, sys_env_destroy
<1>3. status \in [Envs -> Statuses] /\ NoLostWakeup
  BY DEF WakeInd, SchedInd, TableInd, TypeOK
<1>4. \A x \in Envs : x # curenv => child'[x] = child[x]
  BY <1>2 DEF Forget
<1>5. \A p \in Envs : p \in Live' => p \in Live /\ p # curenv
  BY <1>1, <1>2, <1>3 DEF Live
<1>6. \A x \in Envs : Held(x)' => Held(x)
  BY <1>1, <1>2, <1>3 DEF Held
<1> QED
  BY <1>2, <1>3, <1>4, <1>5, <1>6, WakeKept

\* The child that a fork starts is the only one its parent was setting up.
LEMMA WakeForkEnd ==
  ASSUME WakeInd, fork_end
  PROVE  NoLostWakeup'
<1> DEFINE id == child[curenv]
           c  == ENVX(id)
<1>1. Running /\ id # ZERO /\ sys_set_env_status(id, RUNNABLE) /\ child' = [child EXCEPT ![curenv] = ZERO]
  BY DEF fork_end
<1>2. /\ status \in [Envs -> Statuses] /\ child \in [Envs -> Ids] /\ curenv \in Envs /\ NoLostWakeup
      /\ c \in Envs
  BY <1>1 DEF WakeInd, SchedInd, TableInd, TypeOK, CurenvLive, Live, ENVX, Ids
<1>3. status[c] = NOT_RUNNABLE /\ envId[c] = id
  BY <1>1, <1>2 DEF WakeInd, SchedInd, ForksUnderWay
<1>4. envid2env(id, FALSE) = {c}
  BY <1>1, <1>3 DEF envid2env
<1>5. status' = [status EXCEPT ![c] = RUNNABLE] /\ UNCHANGED <<envId, parentId, recving>>
  BY <1>1, <1>4 DEF sys_set_env_status
<1>6. \A x \in Envs : Held(x)' => Held(x) /\ x # c
  BY <1>2, <1>5 DEF Held
<1>7. \A p \in Envs : p \in Live' => p \in Live
  BY <1>2, <1>3, <1>5 DEF Live
<1>8. ASSUME NEW p \in Envs, NEW x \in Envs, p \in Live', Held(x)', child[p] = envId[x]
      PROVE  child'[p] = child[p]
  <2>1. CASE p # curenv
    BY <1>1, <1>2, <2>1
  <2>2. CASE p = curenv
    <3>1. x \in Live
      BY <1>6, <1>8 DEF Held, Live
    <3>2. x = c
      BY <1>8, <2>2, <3>1 DEF WakeInd, IdsOk
    <3> QED
      BY <1>6, <1>8, <3>2
  <2> QED
    BY <2>1, <2>2
<1> HIDE DEF c, id
<1> QED
  BY <1>2, <1>5, <1>6, <1>7, <1>8, WakeKept

LEMMA WakeRecv ==
  ASSUME WakeInd, NEW legal \in BOOLEAN, sys_ipc_recv(legal)
  PROVE  NoLostWakeup'
<1>1. Running /\ curenv \in Envs /\ curenv \in Live /\ UNCHANGED <<envId, parentId, child>>
  BY DEF sys_ipc_recv, WakeInd, SchedInd, TableInd, CurenvLive, Live
<1>2. \/ UNCHANGED <<status, recving>>
      \/ status' = [status EXCEPT ![curenv] = NOT_RUNNABLE] /\ recving' = [recving EXCEPT ![curenv] = 1]
  BY DEF sys_ipc_recv
<1>3. status \in [Envs -> Statuses] /\ recving \in [Envs -> {0, 1}] /\ NoLostWakeup
  BY DEF WakeInd, SchedInd, TableInd, TypeOK
<1>4. \A x \in Envs : Held(x)' => Held(x)
  BY <1>1, <1>2, <1>3 DEF Held
<1>5. \A p \in Envs : p \in Live' => p \in Live
  BY <1>1, <1>2, <1>3 DEF Live
<1> QED
  BY <1>1, <1>3, <1>4, <1>5, WakeKept

LEMMA WakeSend ==
  ASSUME WakeInd, NEW id \in Ids, NEW legal \in BOOLEAN, sys_ipc_try_send(id, legal)
  PROVE  NoLostWakeup'
<1>1. Running /\ UNCHANGED <<envId, parentId, child>>
  BY DEF sys_ipc_try_send
<1>2. \/ UNCHANGED <<status, recving>>
      \/ \E e \in envid2env(id, FALSE) : status' = [status EXCEPT ![e] = RUNNABLE] /\ recving' = [recving EXCEPT ![e] = 0]
  BY DEF sys_ipc_try_send, Receivers, Wake
<1>3. status \in [Envs -> Statuses] /\ recving \in [Envs -> {0, 1}] /\ NoLostWakeup
  BY DEF WakeInd, SchedInd, TableInd, TypeOK
<1>4. \A e \in envid2env(id, FALSE) : e \in Envs /\ e \in Live
  BY <1>1, Resolved DEF WakeInd, SchedInd
<1>5. \A x \in Envs : Held(x)' => Held(x)
  BY <1>2, <1>3, <1>4 DEF Held
<1>6. \A p \in Envs : p \in Live' => p \in Live
  BY <1>2, <1>3, <1>4 DEF Live
<1> QED
  BY <1>1, <1>3, <1>5, <1>6, WakeKept

LEMMA WakeStep ==
  ASSUME Extra = {}, NoWrap, WakeInd, [Next]_vars
  PROVE  WakeInd'
<1>1. SchedInd' /\ IdsOk'
  BY SchedStep, IdsStep DEF WakeInd, SchedInd
<1>2. KnownIds \subseteq Ids
  BY EnvsFacts DEF KnownIds, WakeInd, SchedInd, TableInd, TypeOK
<1>3. NoLostWakeup'
  <2>1. ASSUME NEW p \in Priorities, env_create(p) PROVE NoLostWakeup'
    BY <2>1, WakeCreate
  <2>2. CASE Tick \/ sys_yield \/ UNCHANGED vars
    <3>1. UNCHANGED <<status, envId, parentId, recving, child>>
      BY <2>2 DEF Tick, sys_yield, vars, tableVars
    <3> QED
      BY <3>1 DEF WakeInd, NoLostWakeup, Live
  <2>3. CASE exit
    BY <2>3, WakeExit
  <2>4. CASE fork_begin
    BY <2>4, WakeForkBegin
  <2>5. CASE fork_end
    BY <2>5, WakeForkEnd
  <2>6. CASE spawn_err \/ kill \/ set_status
    BY <2>6 DEF spawn_err, kill, set_status
  <2>7. CASE receive
    BY <2>7, WakeRecv DEF receive
  <2>8. CASE send
    BY <1>2, <2>8, WakeSend DEF send
  <2> QED
    BY <2>1, <2>2, <2>3, <2>4, <2>5, <2>6, <2>7, <2>8 DEF Next
<1> QED
  BY <1>1, <1>3 DEF WakeInd

\* sys_ipc_recv, sys_ipc_try_send, fork and exit lose no wake-up, for programs
\* that use the library: an environment that is blocked without waiting for a
\* message has a parent which, if it still lives, is about to start it.
THEOREM NoLostWakeupSafe == Extra = {} /\ NoWrap => (Spec => []NoLostWakeup)
<1> SUFFICES ASSUME Extra = {}, NoWrap PROVE Spec => []NoLostWakeup
  OBVIOUS
<1>1. Init => WakeInd
  <2>1. ASSUME Init PROVE IdsOk /\ NoLostWakeup
    BY <2>1 DEF Init, IdsOk, NoLostWakeup, Live, ZERO
  <2> QED
    BY <2>1, SchedInit DEF WakeInd
<1>2. WakeInd /\ [Next]_vars => WakeInd'
  BY WakeStep
<1>3. WakeInd => NoLostWakeup
  BY DEF WakeInd
<1> QED
  BY <1>1, <1>2, <1>3, PTL DEF Spec

-----------------------------------------------------------------------------
(***************************************************************************)
(* schedule, exactly: the queue it leaves and the environment it picks.    *)
(***************************************************************************)
\* schedule when it does not go on with the current environment: exactly which
\* queue it leaves, and who runs.
AfterSwitch(st, s, cur) ==
  IF cur # NULL /\ st[cur] = RUNNABLE THEN Append(Tail(s), cur) ELSE s

LEMMA RequeueExact ==
  ASSUME NEW st, NEW q \in Queues, NEW s \in Seq(Envs), Chain(q, s),
         Elements(s) = {e \in Envs : st[e] = RUNNABLE},
         NEW cur \in Envs \cup {NULL}, Outgoing(st, q, s, cur)
  PROVE  /\ AfterSwitch(st, s, cur) \in Seq(Envs)
         /\ Chain(Requeue(st, q, cur), AfterSwitch(st, s, cur))
<1>1. CASE cur = NULL
  BY <1>1 DEF Requeue, AfterSwitch
<1>2. CASE s # <<>> /\ cur = s[1]
  <2> DEFINE q0 == TAILQ_REMOVE(q, cur)
             w  == Without(s, 1)
  <2>1. 1 \in 1 .. Len(s) /\ cur \in Elements(s) /\ cur \in Envs
    BY <1>2 DEF Elements
  <2>2. /\ q0 \in Queues /\ w \in Seq(Envs) /\ Chain(q0, w) /\ Elements(w) = Elements(s) \ {cur}
    BY <1>2, <2>1, RemoveChain
  <2>3. Chain(TAILQ_INSERT_TAIL(q0, cur), Append(w, cur)) /\ Append(w, cur) \in Seq(Envs)
    BY <2>1, <2>2, InsertTailChain
  <2>4. Requeue(st, q, cur) = TAILQ_INSERT_TAIL(q0, cur) /\ cur # NULL /\ st[cur] = RUNNABLE
    BY <2>1, TailQueueAssumption DEF Requeue
  <2>5. w = Tail(s)
    <3>1. Len(w) = Len(s) - 1 /\ \A i \in 1 .. Len(s) - 1 : w[i] = s[i + 1]
      BY <2>1 DEF Without
    <3>2. Tail(s) \in Seq(Envs) /\ Len(Tail(s)) = Len(s) - 1 /\ \A i \in 1 .. Len(s) - 1 : Tail(s)[i] = s[i + 1]
      BY <1>2
    <3> HIDE DEF w
    <3> QED
      BY <2>2, <3>1, <3>2
  <2> QED
    BY <2>3, <2>4, <2>5 DEF AfterSwitch
<1>3. CASE cur \in Envs /\ st[cur] # RUNNABLE /\ ~RemoveFaults(q, cur) /\ TAILQ_REMOVE(q, cur) = q
  BY <1>3, TailQueueAssumption DEF Requeue, AfterSwitch
<1> QED
  BY <1>1, <1>2, <1>3 DEF Outgoing

\* The kernel goes on with the head of t, or stops if t is empty.
Switched(t) ==
  /\ sched' \in Queues /\ Chain(sched', t)
  /\ t = <<>> => halted' = "no runnable envs"
  /\ t # <<>> => halted' = "no" /\ curenv' = t[1] /\ t[1] \in Envs /\ count' = pri[t[1]]

LEMMA ScheduleExact ==
  ASSUME TypeOK, halted = "no",
         NEW yield \in BOOLEAN, NEW st \in [Envs -> Statuses], NEW q \in Queues,
         NEW s \in Seq(Envs), Chain(q, s), Elements(s) = {e \in Envs : st[e] = RUNNABLE},
         NEW cur \in Envs \cup {NULL}, Outgoing(st, q, s, cur),
         schedule(yield, st, q, cur), MustSwitch(yield, st, cur)
  PROVE  Switched(AfterSwitch(st, s, cur))
<1> DEFINE q1 == Requeue(st, q, cur)
           t  == AfterSwitch(st, s, cur)
           e  == TAILQ_FIRST(q1)
<1>1. CASE TAILQ_EMPTY(q)
  <2>1. sched' = q /\ halted' = "no runnable envs"
    BY <1>1 DEF schedule, halt
  <2>2. s = <<>> /\ Elements(s) = {}
    BY <1>1, FirstOfChain DEF Elements
  <2>3. t = s
    BY <2>2, TailQueueAssumption DEF AfterSwitch
  <2> QED
    BY <2>1, <2>2, <2>3 DEF Switched
<1>2. CASE ~TAILQ_EMPTY(q)
  <2>1. /\ cur # NULL => ~RemoveFaults(q, cur)
        /\ q1 \in Queues
        /\ \E u \in Seq(Envs) : Chain(q1, u) /\ Elements(u) = Elements(s)
    BY RequeueChain
  <2>2. t \in Seq(Envs) /\ Chain(q1, t)
    BY RequeueExact
  <2>3. Elements(t) = Elements(s)
    <3>1. PICK u \in Seq(Envs) : Chain(q1, u) /\ Elements(u) = Elements(s)
      BY <2>1
    <3> HIDE DEF t, q1
    <3> QED
      BY <2>1, <2>2, <3>1, SeqOfChain
  <2>4. t # <<>>
    <3>1. s # <<>>
      BY <1>2, FirstOfChain
    <3>2. s[1] \in Elements(s)
      BY <3>1 DEF Elements
    <3>3. Elements(<<>>) = {}
      BY DEF Elements
    <3> QED
      BY <2>3, <3>2, <3>3
  <2> HIDE DEF t, q1
  <2>5. e = t[1] /\ t[1] \in Envs /\ 1 \in 1 .. Len(t)
    BY <2>1, <2>2, <2>4, FirstOfChain
  <2>6. e \in Envs /\ st[e] = RUNNABLE /\ e # NULL
    BY <2>3, <2>5, TailQueueAssumption DEF Elements
  <2>7. env_run(st, q1, cur, e, pri[e])
    BY <1>2, <2>1, <2>6 DEF schedule, q1
  <2>8. sched' = q1 /\ curenv' = e /\ halted' = "no" /\ count' = pri[e]
    BY <2>6, <2>7 DEF env_run
  <2>9. Switched(t)
    BY <2>1, <2>2, <2>4, <2>5, <2>8 DEF Switched
  <2> QED
    BY <2>9 DEF t
<1> QED
  BY <1>1, <1>2

\* schedule when it goes on with the current environment.
LEMMA ScheduleStays ==
  ASSUME TypeOK, halted = "no", NEW yield \in BOOLEAN, NEW st, NEW q, NEW cur \in Envs \cup {NULL},
         schedule(yield, st, q, cur), ~MustSwitch(yield, st, cur)
  PROVE  sched' = q /\ curenv' = cur /\ halted' = "no" /\ count' = count - 1 /\ cur # NULL /\ count - 1 # 0
<1>1. cur # NULL /\ st[cur] = RUNNABLE /\ count - 1 # 0
  BY DEF MustSwitch
<1>2. env_run(st, q, cur, cur, count - 1)
  BY DEF schedule
<1> QED
  BY <1>1, <1>2 DEF env_run

-----------------------------------------------------------------------------
(***************************************************************************)
(* The round robin.  Besides the run list, the time slices must be right:  *)
(* an environment that runs has slices left, as every one in use was given *)
(* a positive priority, the boot's or its parent's.                        *)
(***************************************************************************)
SlicesOk ==
  /\ \A e \in Live : pri[e] >= 1
  /\ Running => count >= 1

RobinInd == SchedInd /\ SlicesOk

RobinStep == [RR!RRNext]_(RR!rrVars)

LEMMA RunQueue ==
  ASSUME SchedInd
  PROVE  /\ SeqOf(sched) \in Seq(Envs) /\ Chain(sched, SeqOf(sched)) /\ Elements(SeqOf(sched)) = Runnable
         /\ RR!Queued = Runnable /\ sched \in Queues
         /\ Running => /\ SeqOf(sched) # <<>> /\ curenv = SeqOf(sched)[1] /\ 1 \in 1 .. Len(SeqOf(sched))
                       /\ curenv \in Envs /\ status[curenv] = RUNNABLE
<1>1. PICK s \in Seq(Envs) :
        /\ Chain(sched, s) /\ Elements(s) = Runnable
        /\ Running => /\ s # <<>> /\ curenv = s[1] /\ 1 \in 1 .. Len(s)
                      /\ curenv \in Envs /\ status[curenv] = RUNNABLE
  BY RunList
<1>2. sched \in Queues
  BY DEF SchedInd, TableInd, TypeOK
<1>3. SeqOf(sched) = s
  BY <1>1, <1>2, SeqOfChain
<1>4. RR!Queued = Elements(SeqOf(sched))
  BY DEF RR!Queued, Elements
<1> QED
  BY <1>1, <1>2, <1>3, <1>4

\* What schedule does is a dispatch of the abstract queue.
LEMMA DispatchStep ==
  ASSUME TypeOK, NEW t \in Seq(Envs), Switched(t)
  PROVE  RR!Dispatch(t)
<1>1. SeqOf(sched') = t
  BY SeqOfChain DEF Switched
<1>2. CASE t = <<>>
  BY <1>1, <1>2 DEF Switched, RR!Dispatch, Running
<1>3. CASE t # <<>>
  <2>1. Head(t) = t[1] /\ t[1] # NULL
    BY <1>3, TailQueueAssumption DEF Switched
  <2>2. halted' = "no" /\ curenv' = t[1] /\ count' = pri[t[1]]
    BY <1>3 DEF Switched
  <2> QED
    BY <1>1, <1>3, <2>1, <2>2 DEF RR!Dispatch, Running
<1> QED
  BY <1>2, <1>3

LEMMA SlicesAfter ==
  ASSUME SlicesOk, SchedInd', UNCHANGED pri, Live' \subseteq Live, NEW t \in Seq(Envs), Switched(t)
  PROVE  SlicesOk'
<1>1. Running' => curenv' \in Live'
  BY DEF SchedInd, TableInd, CurenvLive
<1>2. Running' => count' = pri[curenv']
  BY DEF Running, Switched
<1> QED
  BY <1>1, <1>2 DEF SlicesOk

LEMMA RobinSchedule ==
  ASSUME RobinInd, SchedInd', halted = "no", NEW yield \in BOOLEAN,
         schedule(yield, status, sched, curenv), UNCHANGED <<tableVars, recving, child>>
  PROVE  SlicesOk' /\ RobinStep
<1> DEFINE s == SeqOf(sched)
           t == AfterSwitch(status, s, curenv)
<1>1. /\ s \in Seq(Envs) /\ Chain(sched, s) /\ Elements(s) = Runnable /\ sched \in Queues
      /\ Running => /\ s # <<>> /\ curenv = s[1] /\ curenv \in Envs /\ status[curenv] = RUNNABLE
  BY RunQueue DEF RobinInd
<1>2. TypeOK /\ status \in [Envs -> Statuses] /\ curenv \in Envs \cup {NULL} /\ count \in Int
      /\ UNCHANGED <<status, pri>>
  BY DEF RobinInd, SchedInd, TableInd, TypeOK, tableVars
<1>3. Outgoing(status, sched, s, curenv) /\ Elements(s) = {e \in Envs : status[e] = RUNNABLE}
  BY <1>1, <1>2 DEF Outgoing, Running, Runnable
<1>4. CASE MustSwitch(yield, status, curenv)
  <2> HIDE DEF s
  <2>1. Switched(t)
    BY <1>1, <1>2, <1>3, <1>4, ScheduleExact
  <2>2. t \in Seq(Envs)
    BY <1>1, <1>2, <1>3, RequeueExact
  <2>3. SlicesOk'
    BY <1>2, <2>1, <2>2, SlicesAfter DEF RobinInd, Live
  <2>4. RR!Dispatch(t) /\ UNCHANGED pri
    BY <1>2, <2>1, <2>2, DispatchStep
  <2>5. CASE curenv = NULL
    <3>1. t = s
      BY <2>5 DEF AfterSwitch
    <3>2. RR!Start
      BY <2>4, <2>5, <3>1 DEF RR!Start, s
    <3> QED
      BY <2>3, <3>2 DEF RobinStep, RR!RRNext
  <2>6. CASE curenv # NULL
    <3>1. t = Append(Tail(s), curenv)
      BY <1>1, <2>6 DEF AfterSwitch, Running
    <3>2. RR!Rotate
      BY <2>4, <2>6, <3>1 DEF RR!Rotate, s
    <3> QED
      BY <2>3, <3>2 DEF RobinStep, RR!RRNext
  <2> QED
    BY <2>5, <2>6
<1>5. CASE ~MustSwitch(yield, status, curenv)
  <2>1. sched' = sched /\ curenv' = curenv /\ halted' = "no" /\ count' = count - 1 /\ curenv # NULL /\ count - 1 # 0
    BY <1>2, <1>5, ScheduleStays
  <2>2. Running /\ count >= 1
    BY <2>1 DEF Running, RobinInd, SlicesOk
  <2>3. count > 1 /\ count - 1 >= 1
    BY <1>2, <2>1, <2>2
  <2>4. SlicesOk'
    BY <1>2, <2>1, <2>3 DEF RobinInd, SlicesOk, Live
  <2>5. RR!Keep
    BY <1>2, <2>1, <2>2, <2>3 DEF RR!Keep, Running
  <2> QED
    BY <2>4, <2>5 DEF RobinStep, RR!RRNext
<1> QED
  BY <1>4, <1>5

LEMMA WithoutFirst ==
  ASSUME NEW q \in Queues, NEW s \in Seq(Envs), Chain(q, s), s # <<>>
  PROVE  /\ ~RemoveFaults(q, s[1]) /\ TAILQ_REMOVE(q, s[1]) \in Queues
         /\ Tail(s) \in Seq(Envs) /\ Chain(TAILQ_REMOVE(q, s[1]), Tail(s))
         /\ Elements(Tail(s)) = Elements(s) \ {s[1]}
<1>1. 1 \in 1 .. Len(s)
  OBVIOUS
<1>2. Without(s, 1) = Tail(s)
  <2> DEFINE w == Without(s, 1)
  <2>1. w \in Seq(Envs) /\ Len(w) = Len(s) - 1 /\ \A i \in 1 .. Len(s) - 1 : w[i] = s[i + 1]
    BY <1>1, RemoveChain DEF Without
  <2>2. Tail(s) \in Seq(Envs) /\ Len(Tail(s)) = Len(s) - 1 /\ \A i \in 1 .. Len(s) - 1 : Tail(s)[i] = s[i + 1]
    OBVIOUS
  <2> HIDE DEF w
  <2>3. w = Tail(s)
    BY <2>1, <2>2
  <2> QED
    BY <2>3 DEF w
<1> QED
  BY <1>1, <1>2, RemoveChain

LEMMA RobinExit ==
  ASSUME RobinInd, SchedInd', exit
  PROVE  SlicesOk' /\ RobinStep
<1> DEFINE s  == SeqOf(sched)
           st == [status EXCEPT ![curenv] = FREE]
           q  == TAILQ_REMOVE(sched, curenv)
<1>1. Running /\ envid2env(ZERO, TRUE) = {curenv}
  BY DEF exit, sys_env_destroy, envid2env
<1>2. /\ s \in Seq(Envs) /\ Chain(sched, s) /\ Elements(s) = Runnable /\ sched \in Queues
      /\ s # <<>> /\ curenv = s[1] /\ curenv \in Envs /\ status[curenv] = RUNNABLE
  BY <1>1, RunQueue DEF RobinInd
<1>3. /\ status' = st /\ UNCHANGED pri
      /\ ~RemoveFaults(sched, curenv) => schedule(TRUE, st, q, NULL)
  <2>1. {curenv} # {}
    OBVIOUS
  <2> QED
    BY <1>1, <2>1 DEF exit, sys_env_destroy
<1>4. TypeOK /\ status \in [Envs -> Statuses] /\ halted = "no"
  BY <1>1 DEF RobinInd, SchedInd, TableInd, TypeOK, Running
<1> HIDE DEF s
<1>5. /\ ~RemoveFaults(sched, curenv) /\ q \in Queues /\ Tail(s) \in Seq(Envs) /\ Chain(q, Tail(s))
      /\ Elements(Tail(s)) = Elements(s) \ {curenv}
  BY <1>2, WithoutFirst
<1>6. st \in [Envs -> Statuses] /\ Elements(Tail(s)) = {e \in Envs : st[e] = RUNNABLE}
  BY <1>2, <1>4, <1>5 DEF Runnable, Statuses
<1>7. Switched(Tail(s))
  <2>1. Outgoing(st, q, Tail(s), NULL) /\ MustSwitch(TRUE, st, NULL) /\ AfterSwitch(st, Tail(s), NULL) = Tail(s)
    BY DEF Outgoing, MustSwitch, AfterSwitch
  <2> HIDE DEF st, q
  <2> QED
    BY <1>3, <1>4, <1>5, <1>6, <2>1, ScheduleExact
<1>8. SlicesOk'
  <2>1. Live' \subseteq Live
    BY <1>3, <1>4 DEF Live
  <2> QED
    BY <1>3, <1>5, <1>7, <2>1, SlicesAfter DEF RobinInd
<1>9. RR!Leave
  <2>1. RR!Dispatch(Tail(s))
    BY <1>4, <1>5, <1>7, DispatchStep
  <2> QED
    BY <1>1, <1>3, <2>1 DEF RR!Leave, Running, s
<1> QED
  BY <1>4, <1>8, <1>9 DEF RobinStep, RR!RRNext

LEMMA RobinRecv ==
  ASSUME RobinInd, SchedInd', NEW legal \in BOOLEAN, sys_ipc_recv(legal)
  PROVE  SlicesOk' /\ RobinStep
<1> DEFINE s  == SeqOf(sched)
           st == [status EXCEPT ![curenv] = NOT_RUNNABLE]
           q  == TAILQ_REMOVE(sched, curenv)
<1>1. Running /\ halted = "no" /\ UNCHANGED pri
  BY DEF sys_ipc_recv, Running
<1>2. /\ s \in Seq(Envs) /\ Chain(sched, s) /\ Elements(s) = Runnable /\ sched \in Queues
      /\ s # <<>> /\ curenv = s[1] /\ 1 \in 1 .. Len(s) /\ curenv \in Envs /\ status[curenv] = RUNNABLE
  BY <1>1, RunQueue DEF RobinInd
<1>3. TypeOK /\ status \in [Envs -> Statuses]
  BY DEF RobinInd, SchedInd, TableInd, TypeOK
<1>4. CASE ~legal
  <2>1. UNCHANGED <<status, sched, curenv, count, halted>>
    BY <1>4 DEF sys_ipc_recv, schedVars
  <2>2. SlicesOk'
    BY <1>1, <2>1 DEF RobinInd, SlicesOk, Live, Running
  <2>3. UNCHANGED RR!rrVars
    BY <1>1, <2>1 DEF RR!rrVars, Running
  <2> QED
    BY <2>2, <2>3 DEF RobinStep
<1>5. CASE legal
  <2> HIDE DEF s
  <2>1. /\ ~RemoveFaults(sched, curenv) /\ q \in Queues /\ Tail(s) \in Seq(Envs) /\ Chain(q, Tail(s))
        /\ Elements(Tail(s)) = Elements(s) \ {curenv}
    BY <1>2, WithoutFirst
  <2>2. ~RemoveFaults(q, curenv) /\ TAILQ_REMOVE(q, curenv) = q
    BY <1>2, RemoveTwice
  <2>3. status' = st /\ schedule(TRUE, st, q, curenv)
    BY <1>5, <2>1 DEF sys_ipc_recv
  <2>4. st \in [Envs -> Statuses] /\ Elements(Tail(s)) = {e \in Envs : st[e] = RUNNABLE}
    BY <1>2, <1>3, <2>1 DEF Runnable, Statuses
  <2>5. Switched(Tail(s))
    <3>1. /\ Outgoing(st, q, Tail(s), curenv) /\ MustSwitch(TRUE, st, curenv)
          /\ AfterSwitch(st, Tail(s), curenv) = Tail(s) /\ curenv \in Envs \cup {NULL}
      BY <1>2, <1>3, <2>2 DEF Outgoing, MustSwitch, AfterSwitch
    <3> DEFINE w == Tail(s)
    <3>2. /\ w \in Seq(Envs) /\ Chain(q, w) /\ q \in Queues /\ st \in [Envs -> Statuses]
          /\ Elements(w) = {e \in Envs : st[e] = RUNNABLE} /\ Outgoing(st, q, w, curenv)
          /\ schedule(TRUE, st, q, curenv) /\ AfterSwitch(st, w, curenv) = w
      BY <2>1, <2>3, <2>4, <3>1
    <3>3. TypeOK /\ halted = "no" /\ curenv \in Envs \cup {NULL} /\ MustSwitch(TRUE, st, curenv)
      BY <1>1, <1>3, <3>1
    <3> HIDE DEF st, q, w
    <3>4. Switched(AfterSwitch(st, w, curenv))
      BY <3>2, <3>3, ScheduleExact
    <3>5. Switched(w)
      BY <3>2, <3>4
    <3> QED
      BY <3>5 DEF w
  <2>6. SlicesOk'
    <3>1. Live' \subseteq Live
      BY <1>2, <1>3, <2>3 DEF Live
    <3> QED
      BY <1>1, <2>1, <2>5, <3>1, SlicesAfter DEF RobinInd
  <2>7. RR!Leave
    <3>1. RR!Dispatch(Tail(s))
      BY <1>3, <2>1, <2>5, DispatchStep
    <3> QED
      BY <1>1, <3>1 DEF RR!Leave, Running, s
  <2> QED
    BY <1>1, <2>6, <2>7 DEF RobinStep, RR!RRNext
<1> QED
  BY <1>4, <1>5

\* The end of a fork, and a message, link an environment at the back.
LEMMA RobinAdmit ==
  ASSUME RobinInd, SchedInd', Running, NEW e \in Envs, status[e] = NOT_RUNNABLE,
         status' = [status EXCEPT ![e] = RUNNABLE], sched' = TAILQ_INSERT_TAIL(sched, e),
         UNCHANGED <<curenv, halted, count, pri>>
  PROVE  SlicesOk' /\ RobinStep
<1> DEFINE s == SeqOf(sched)
<1>1. /\ s \in Seq(Envs) /\ Chain(sched, s) /\ Elements(s) = Runnable /\ sched \in Queues
      /\ RR!Queued = Runnable
  BY RunQueue DEF RobinInd
<1>2. e \notin Runnable /\ status \in [Envs -> Statuses]
  BY DEF Runnable, RobinInd, SchedInd, TableInd, TypeOK
<1>3. SeqOf(sched') = Append(s, e)
  <2> HIDE DEF s
  <2>1. sched' \in Queues /\ Chain(sched', Append(s, e)) /\ Append(s, e) \in Seq(Envs)
    BY <1>1, <1>2, InsertTailChain
  <2> QED
    BY <2>1, SeqOfChain
<1>4. SlicesOk'
  <2>1. Live' = Live
    BY <1>2 DEF Live
  <2> QED
    BY <2>1 DEF RobinInd, SlicesOk, Running
<1>5. RR!Admit(e)
  BY <1>1, <1>2, <1>3 DEF RR!Admit, Running
<1> QED
  BY <1>4, <1>5 DEF RobinStep, RR!RRNext, Running

LEMMA RobinCreate ==
  ASSUME RobinInd, SchedInd', NEW p \in Priorities, env_create(p)
  PROVE  SlicesOk' /\ RobinStep
<1> DEFINE e == Head(freeList)
           s == SeqOf(sched)
<1>1. freeList # <<>> /\ env_alloc(e, ZERO) /\ curenv = NULL /\ halted = "no"
  BY DEF env_create, CanAlloc
<1>2. e \in Envs /\ e \notin Live
  BY <1>1, EnvAlloc, EnvsFacts DEF RobinInd, SchedInd
<1>3. /\ status' = [status EXCEPT ![e] = RUNNABLE] /\ pri' = [pri EXCEPT ![e] = p]
      /\ sched' = TAILQ_INSERT_HEAD(sched, e) /\ UNCHANGED <<curenv, count, halted>>
  BY DEF env_create
<1> HIDE DEF e
<1>4. /\ s \in Seq(Envs) /\ Chain(sched, s) /\ Elements(s) = Runnable /\ sched \in Queues
      /\ RR!Queued = Runnable
  BY RunQueue DEF RobinInd
<1>5. /\ status \in [Envs -> Statuses] /\ pri \in [Envs -> Nat] /\ p \in Nat /\ p >= 1
      /\ e \notin Runnable
  <2>1. p \in Nat /\ p >= 1
    BY EnvAssumption
  <2>2. e \notin Runnable
    BY <1>2 DEF Live, Runnable
  <2> QED
    BY <2>1, <2>2 DEF RobinInd, SchedInd, TableInd, TypeOK
<1>6. SeqOf(sched') = <<e>> \o s
  <2> HIDE DEF s
  <2>1. sched' \in Queues /\ Chain(sched', <<e>> \o s) /\ <<e>> \o s \in Seq(Envs)
    <3>1. e \notin Elements(s) /\ NoDuplicates(s)
      BY <1>4, <1>5 DEF Chain
    <3> QED
      BY <1>2, <1>3, <1>4, <3>1, InsertHeadChain, ConsOfList
  <2> QED
    BY <2>1, SeqOfChain
<1>7. SlicesOk'
  BY <1>1, <1>2, <1>3, <1>5 DEF RobinInd, SlicesOk, Running, Live
<1>8. RR!SetPrio
  BY <1>2, <1>3, <1>4, <1>5 DEF RR!SetPrio
<1>9. RR!Boot(e)
  BY <1>1, <1>3, <1>4, <1>5, <1>6, <1>8 DEF RR!Boot, Running
<1> QED
  BY <1>1, <1>2, <1>7, <1>9 DEF RobinStep, RR!RRNext

\* A fork sets the priority of a slot that is not queued.
LEMMA RobinFork ==
  ASSUME RobinInd, SchedInd', NEW mem \in BOOLEAN, sys_exofork(mem)
  PROVE  SlicesOk' /\ RobinStep
<1> DEFINE e == Head(freeList)
<1>1. /\ Running /\ UNCHANGED <<sched, curenv, count, halted>>
      /\ status \in [Envs -> Statuses] /\ pri \in [Envs -> Nat] /\ curenv \in Live /\ curenv \in Envs
      /\ RR!Queued = Runnable
  BY RunQueue DEF sys_exofork, schedVars, RobinInd, SchedInd, TableInd, TypeOK, CurenvLive, Live
<1>2. CASE CanAlloc(mem)
  <2>1. freeList # <<>> /\ env_alloc(e, envId[curenv]) /\ envId[curenv] \in Ids
    BY <1>1, <1>2 DEF sys_exofork, CanAlloc, RobinInd, SchedInd, TableInd, TypeOK
  <2>2. e \in Envs /\ e \notin Live
    BY <2>1, EnvAlloc DEF RobinInd, SchedInd
  <2>3. status' = [status EXCEPT ![e] = NOT_RUNNABLE] /\ pri' = [pri EXCEPT ![e] = pri[curenv]]
    BY <1>2 DEF sys_exofork
  <2> HIDE DEF e
  <2>4. SlicesOk'
    BY <1>1, <2>2, <2>3 DEF RobinInd, SlicesOk, Running, Live
  <2>5. RR!SetPrio
    BY <1>1, <2>2, <2>3 DEF RR!SetPrio, Live, Runnable
  <2>6. RR!Prepare
    BY <1>1, <2>5 DEF RR!Prepare, Running
  <2> QED
    BY <1>1, <2>4, <2>6 DEF RobinStep, RR!RRNext, Running
<1>3. CASE ~CanAlloc(mem)
  <2>1. UNCHANGED <<status, pri>>
    BY <1>3 DEF sys_exofork
  <2>2. SlicesOk'
    BY <1>1, <2>1 DEF RobinInd, SlicesOk, Running, Live
  <2>3. UNCHANGED RR!rrVars
    BY <1>1, <2>1 DEF RR!rrVars, Running
  <2> QED
    BY <2>2, <2>3 DEF RobinStep
<1> QED
  BY <1>2, <1>3

LEMMA RobinForkEnd ==
  ASSUME RobinInd, SchedInd', fork_end
  PROVE  SlicesOk' /\ RobinStep
<1> DEFINE id == child[curenv]
           c  == ENVX(id)
<1>1. Running /\ id # ZERO /\ sys_set_env_status(id, RUNNABLE)
  BY DEF fork_end
<1>2. child \in [Envs -> Ids] /\ curenv \in Envs /\ c \in Envs
  BY <1>1 DEF RobinInd, SchedInd, TableInd, TypeOK, CurenvLive, Live, ENVX, Ids
<1>3. status[c] = NOT_RUNNABLE /\ envId[c] = id
  BY <1>1, <1>2 DEF RobinInd, SchedInd, ForksUnderWay
<1>4. envid2env(id, FALSE) = {c}
  BY <1>1, <1>3 DEF envid2env
<1>5. /\ sched' = TAILQ_INSERT_TAIL(sched, c) /\ status' = [status EXCEPT ![c] = RUNNABLE]
      /\ UNCHANGED <<curenv, halted, count, pri>>
  BY <1>1, <1>3, <1>4 DEF sys_set_env_status
<1> HIDE DEF c
<1> QED
  BY <1>1, <1>2, <1>3, <1>5, RobinAdmit

LEMMA RobinSend ==
  ASSUME RobinInd, SchedInd', NEW id \in Ids, NEW legal \in BOOLEAN, sys_ipc_try_send(id, legal)
  PROVE  SlicesOk' /\ RobinStep
<1>1. Running /\ UNCHANGED <<curenv, halted, count, pri>>
  BY DEF sys_ipc_try_send
<1>2. CASE UNCHANGED <<status, recving, sched>>
  <2>1. SlicesOk'
    BY <1>1, <1>2 DEF RobinInd, SlicesOk, Running, Live
  <2>2. UNCHANGED RR!rrVars
    BY <1>1, <1>2 DEF RR!rrVars, Running
  <2> QED
    BY <2>1, <2>2 DEF RobinStep
<1>3. ASSUME NEW e \in Receivers(id), Wake(e)
      PROVE  SlicesOk' /\ RobinStep
  <2>1. e \in envid2env(id, FALSE) /\ recving[e] = 1
    BY DEF Receivers
  <2>2. e \in Envs
    BY <1>1, <2>1, Resolved DEF RobinInd, SchedInd
  <2>3. status[e] = NOT_RUNNABLE
    BY <2>1, <2>2 DEF RobinInd, SchedInd, ReceiversAreBlocked
  <2>4. status' = [status EXCEPT ![e] = RUNNABLE] /\ sched' = TAILQ_INSERT_TAIL(sched, e)
    BY <1>3 DEF Wake
  <2> QED
    BY <1>1, <2>2, <2>3, <2>4, RobinAdmit
<1> QED
  BY <1>2, <1>3 DEF sys_ipc_try_send

LEMMA RobinRefined ==
  ASSUME Extra = {}, RobinInd, [Next]_vars
  PROVE  RobinInd' /\ RobinStep
<1>1. SchedInd'
  BY SchedStep DEF RobinInd
<1>2. KnownIds \subseteq Ids
  BY EnvsFacts DEF KnownIds, RobinInd, SchedInd, TableInd, TypeOK
<1>3. SlicesOk' /\ RobinStep
  <2>1. ASSUME NEW p \in Priorities, env_create(p) PROVE SlicesOk' /\ RobinStep
    BY <1>1, <2>1, RobinCreate
  <2>2. CASE Tick
    BY <1>1, <2>2, RobinSchedule DEF Tick
  <2>3. CASE sys_yield
    BY <1>1, <2>3, RobinSchedule DEF sys_yield, Running
  <2>4. CASE exit
    BY <1>1, <2>4, RobinExit
  <2>5. CASE fork_begin
    BY <1>1, <2>5, RobinFork DEF fork_begin
  <2>6. CASE fork_end
    BY <1>1, <2>6, RobinForkEnd
  <2>7. CASE spawn_err \/ kill \/ set_status
    BY <2>7 DEF spawn_err, kill, set_status
  <2>8. CASE receive
    BY <1>1, <2>8, RobinRecv DEF receive
  <2>9. CASE send
    BY <1>1, <1>2, <2>9, RobinSend DEF send
  <2>10. CASE UNCHANGED vars
    <3>1. UNCHANGED <<status, pri, sched, curenv, count, halted>>
      BY <2>10 DEF vars, tableVars, schedVars
    <3>2. SlicesOk'
      BY <3>1 DEF RobinInd, SlicesOk, Running, Live
    <3>3. UNCHANGED RR!rrVars
      BY <3>1 DEF RR!rrVars, Running
    <3> QED
      BY <3>2, <3>3 DEF RobinStep
  <2> QED
    BY <2>1, <2>2, <2>3, <2>4, <2>5, <2>6, <2>7, <2>8, <2>9, <2>10 DEF Next
<1> QED
  BY <1>1, <1>3 DEF RobinInd

\* kern/sched.c keeps its promise for programs that use the library: with its
\* pointers, its slice counter and its double removals, schedule is the round
\* robin in which the head runs for its priority and then goes to the back.
THEOREM RoundRobinImplemented == Extra = {} => (Spec => ImplementsRoundRobin)
<1> SUFFICES ASSUME Extra = {} PROVE Spec => ImplementsRoundRobin
  OBVIOUS
<1>1. Init => RobinInd
  <2>1. ASSUME Init PROVE SlicesOk
    BY <2>1 DEF Init, SlicesOk, Live, Running
  <2> QED
    BY <2>1, SchedInit DEF RobinInd
<1>2. Init => RR!RRInit
  <2>1. ASSUME Init PROVE RR!RRInit
    <3>1. SeqOf(sched) = <<>>
      <4>1. sched = TAILQ_INIT /\ <<>> \in Seq(Envs)
        BY <2>1 DEF Init
      <4> QED
        BY <4>1, InitChain, SeqOfChain
    <3>2. pri \in [Envs -> Nat]
      BY <2>1 DEF Init
    <3> QED
      BY <2>1, <3>1, <3>2 DEF Init, RR!RRInit, Running
  <2> QED
    BY <2>1
<1>3. RobinInd /\ [Next]_vars => RobinInd' /\ [RR!RRNext]_(RR!rrVars)
  BY RobinRefined DEF RobinStep
<1> QED
  BY <1>1, <1>2, <1>3, PTL DEF Spec, ImplementsRoundRobin, RR!RRSpec
=============================================================================
