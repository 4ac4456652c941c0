------------------------------ MODULE PipeProofs ------------------------------
(***************************************************************************)
(* Proofs about Pipe, for every size of the buffer, range of the positions *)
(* and length of the calls and time slices: the types, that a pipe is      *)
(* found closed only when it is, and that it implements Fifo.              *)
(***************************************************************************)
EXTENDS Pipe, FiniteSetTheorems, TLAPS

-----------------------------------------------------------------------------
(***************************************************************************)
(* Remainders.                                                             *)
(***************************************************************************)
LEMMA DivMod ==
  ASSUME NEW a \in Int, NEW b \in Nat \ {0}
  PROVE  \E q \in Int, r \in 0 .. b - 1 : a = b * q + r /\ a % b = r
<1>1. a = b * (a \div b) + (a % b)
  OBVIOUS
<1>2. a % b \in 0 .. b - 1 /\ a \div b \in Int
  OBVIOUS
<1> QED
  BY <1>1, <1>2

LEMMA ModIs ==
  ASSUME NEW b \in Nat \ {0}, NEW q \in Int, NEW r \in 0 .. b - 1
  PROVE  (b * q + r) % b = r
  OBVIOUS

LEMMA Distributes ==
  ASSUME NEW b \in Int, NEW q \in Int, NEW s \in Int
  PROVE  b * (q + s) = b * q + b * s /\ b * (s - q) = b * s - b * q /\ b * q \in Int
  OBVIOUS

\* A multiple of b makes no difference.
LEMMA ModPlus ==
  ASSUME NEW a \in Int, NEW b \in Nat \ {0}, NEW m \in Int, m % b = 0
  PROVE  (a + m) % b = a % b
<1>1. PICK q \in Int, r \in 0 .. b - 1 : a = b * q + r /\ a % b = r
  BY DivMod
<1>2. PICK s \in Int, t \in 0 .. b - 1 : m = b * s + t /\ m % b = t
  BY DivMod
<1>3. b * q \in Int /\ b * s \in Int /\ b * (q + s) = b * q + b * s
  BY Distributes
<1>4. a + m = b * (q + s) + r
  BY <1>1, <1>2, <1>3
<1>5. (b * (q + s) + r) % b = r
  BY ModIs
<1> QED
  BY <1>1, <1>4, <1>5

\* Less than b apart, two numbers have different remainders.
LEMMA ModDiffers ==
  ASSUME NEW a \in Int, NEW b \in Nat \ {0}, NEW c \in Int, a < c, c < a + b
  PROVE  c % b # a % b
<1> SUFFICES ASSUME c % b = a % b PROVE FALSE
  OBVIOUS
<1>1. PICK q \in Int, r \in 0 .. b - 1 : a = b * q + r /\ a % b = r
  BY DivMod
<1>2. PICK s \in Int, t \in 0 .. b - 1 : c = b * s + t /\ c % b = t
  BY DivMod
<1>3. b * q \in Int /\ b * s \in Int /\ b * (s - q) = b * s - b * q
  BY Distributes
<1>4. c - a = b * (s - q)
  BY <1>1, <1>2, <1>3
<1>5. s - q \in Int /\ s - q >= 1
  BY <1>4
<1>6. b * (s - q) >= b
  BY <1>5
<1> QED
  BY <1>4, <1>6

LEMMA ModSmall ==
  ASSUME NEW a \in Int, NEW b \in Nat \ {0}
  PROVE  /\ a % b \in 0 .. b - 1
         /\ a \in 0 .. b - 1 => a % b = a
         /\ a = b => a % b = 0
         /\ a \in (0 - b) .. (0 - 1) => a % b = a + b
  OBVIOUS

\* How many bytes are between two positions, and how that changes.
Between(r, w) == (w - r) % PosMod
Positions     == 0 .. PosMod - 1

LEMMA Sizes ==
  /\ Parent # Child
  /\ BY2PIPE \in Nat \ {0} /\ PosMod \in Nat \ {0} /\ PosMod > BY2PIPE
  /\ MaxN \in Nat \ {0} /\ MaxBytes \in Nat /\ Quanta \subseteq Nat
  BY PipeAssumption

LEMMA Distance ==
  ASSUME NEW r \in Positions, NEW w \in Positions
  PROVE  /\ Between(r, w) \in Positions /\ (Between(r, w) = 0 <=> r = w)
         /\ Between(r, w) = IF w >= r THEN w - r ELSE w - r + PosMod
<1>1. PICK d \in Int : d = w - r
  BY Sizes DEF Positions
<1>2. /\ d % PosMod \in 0 .. PosMod - 1
      /\ d \in 0 .. PosMod - 1 => d % PosMod = d
      /\ d \in (0 - PosMod) .. (0 - 1) => d % PosMod = d + PosMod
  BY ModSmall, Sizes
<1>3. Between(r, w) = d % PosMod
  BY <1>1 DEF Between
<1> QED
  BY <1>1, <1>2, <1>3, Sizes DEF Positions

LEMMA NextPosition ==
  ASSUME NEW r \in Positions
  PROVE  (r + 1) % PosMod \in Positions /\ (r + 1) % PosMod = IF r + 1 = PosMod THEN 0 ELSE r + 1
<1>1. PICK d \in Int : d = r + 1
  BY Sizes DEF Positions
<1>2. /\ d % PosMod \in 0 .. PosMod - 1
      /\ d \in 0 .. PosMod - 1 => d % PosMod = d
      /\ d = PosMod => d % PosMod = 0
  BY ModSmall, Sizes
<1> QED
  BY <1>1, <1>2, Sizes DEF Positions

\* The arithmetic of Advances, with names for the remainders.
LEMMA RoundTheCircle ==
  ASSUME NEW m \in Nat, NEW r \in 0 .. m - 1, NEW w \in 0 .. m - 1,
         NEW s \in Int, s = IF r + 1 = m THEN 0 ELSE r + 1,
         NEW v \in Int, v = IF w + 1 = m THEN 0 ELSE w + 1,
         NEW d \in Int, d = IF w >= r THEN w - r ELSE w - r + m,
         NEW e \in Int, e = IF w >= s THEN w - s ELSE w - s + m,
         NEW f \in Int, f = IF v >= r THEN v - r ELSE v - r + m
  PROVE  (d > 0 => e = d - 1) /\ (d < m - 1 => f = d + 1)
  OBVIOUS

LEMMA Advances ==
  ASSUME NEW r \in Positions, NEW w \in Positions
  PROVE  /\ Between(r, w) > 0 => Between((r + 1) % PosMod, w) = Between(r, w) - 1
         /\ Between(r, w) < BY2PIPE => Between(r, (w + 1) % PosMod) = Between(r, w) + 1
<1>1. PICK s \in Positions : s = (r + 1) % PosMod /\ s = IF r + 1 = PosMod THEN 0 ELSE r + 1
  BY NextPosition
<1>2. PICK v \in Positions : v = (w + 1) % PosMod /\ v = IF w + 1 = PosMod THEN 0 ELSE w + 1
  BY NextPosition
<1>3. PICK d \in Positions : d = Between(r, w) /\ d = IF w >= r THEN w - r ELSE w - r + PosMod
  BY Distance
<1>4. PICK e \in Positions : e = Between(s, w) /\ e = IF w >= s THEN w - s ELSE w - s + PosMod
  BY Distance
<1>5. PICK f \in Positions : f = Between(r, v) /\ f = IF v >= r THEN v - r ELSE v - r + PosMod
  BY Distance
<1>6. PosMod \in Nat /\ BY2PIPE \in Nat /\ PosMod > BY2PIPE
  BY Sizes
<1>7. (d > 0 => e = d - 1) /\ (d < PosMod - 1 => f = d + 1)
  BY <1>1, <1>2, <1>3, <1>4, <1>5, <1>6, RoundTheCircle DEF Positions
<1>8. d < BY2PIPE => d < PosMod - 1
  BY <1>6 DEF Positions
<1>9. Between((r + 1) % PosMod, w) = e /\ Between(r, (w + 1) % PosMod) = f
  BY <1>1, <1>2, <1>4, <1>5
<1> QED
  BY <1>3, <1>7, <1>8, <1>9

-----------------------------------------------------------------------------
(***************************************************************************)
(* The inductive type invariant.                                           *)
(***************************************************************************)
Labels == {"pipe", "fork", "unborn", "close other", "close other 2", "idle", "wait", "transfer",
           "advance", "runs", "fd_ref", "pipe_ref", "compare", "closed", "close 2", "done"}
InCall == {"wait", "transfer", "advance", "runs", "fd_ref", "pipe_ref", "compare"}
Moves  == {"transfer", "advance"}
Under  == Between(rpos, wpos)

\* During a call the counter has not passed its end, what a writer has still to
\* write is within the bound, and a process that moves a byte has one to move.
CallOk(p) ==
  /\ pc[p] \in InCall => i[p] <= n[p] /\ (end[p] = "w" => sent + (n[p] - i[p]) <= MaxBytes)
  /\ pc[p] \in Moves => i[p] < n[p] /\ (end[p] = "r" => Under > 0) /\ (end[p] = "w" => Under < BY2PIPE)

EndsDiffer == end[Parent] # end[Child]
Ind        == TypeOK /\ EndsDiffer /\ \A p \in Procs : CallOk(p)

\* One of them reads and the other writes.
LEMMA Roles ==
  ASSUME end \in [Procs -> Ends], EndsDiffer, NEW p \in Procs
  PROVE  (p = Reader <=> end[p] = "r") /\ (p # Reader <=> end[p] = "w") /\ (p = Writer <=> end[p] = "w")
<1>1. Reader \in Procs /\ end[Reader] = "r" /\ Writer \in Procs /\ end[Writer] = "w"
  BY DEF EndsDiffer, Reader, Writer, Procs, Ends
<1> QED
  BY <1>1 DEF EndsDiffer, Procs, Ends

LEMMA GoType ==
  ASSUME Ind, NEW p \in Procs, NEW next \in Labels, Go(p, next)
  PROVE  /\ pc' = [pc EXCEPT ![p] = next] /\ pc' \in [Procs -> Labels]
         /\ cur = p /\ cur' = cur /\ end' = end
         /\ quantum' = quantum /\ since' \in 0 .. quantum
<1>1. pc \in [Procs -> Labels] /\ quantum \in Nat /\ since \in 0 .. quantum
  BY Sizes DEF Ind, TypeOK, Labels
<1> QED
  BY <1>1 DEF Go

LEMMA LeaveType ==
  ASSUME Ind, NEW p \in Procs, NEW next \in Labels, Leave(p, next)
  PROVE  /\ pc' = [pc EXCEPT ![p] = next] /\ pc' \in [Procs -> Labels]
         /\ cur = p /\ cur' \in Procs /\ end' = end
         /\ quantum' = quantum /\ since' \in 0 .. quantum
         /\ sameRuns' \in [Procs -> BOOLEAN]
         /\ \A x \in Procs : sameRuns'[x] => sameRuns[x]
<1>0. pc \in [Procs -> Labels] /\ quantum \in Nat /\ since \in 0 .. quantum
  BY Sizes DEF Ind, TypeOK, Labels
<1>1. /\ pc' = [pc EXCEPT ![p] = next] /\ pc' \in [Procs -> Labels]
      /\ cur = p /\ end' = end /\ quantum' = quantum /\ since' \in 0 .. quantum
  BY <1>0 DEF Leave
<1>2. (\E x \in Procs : env_run(x)) \/ UNCHANGED <<cur, sameRuns>>
  BY DEF Leave
<1>3. /\ cur' \in Procs /\ sameRuns' \in [Procs -> BOOLEAN]
      /\ \A x \in Procs : sameRuns'[x] => sameRuns[x]
  BY <1>2 DEF Ind, TypeOK, env_run
<1> QED
  BY <1>1, <1>3

LEMMA TwoElements ==
  ASSUME NEW x, NEW y, x # y
  PROVE  IsFiniteSet({x} \cup {y}) /\ Cardinality({x} \cup {y}) = 2
<1>1. IsFiniteSet({x}) /\ Cardinality({x}) = 1
  BY FS_Singleton
<1> QED
  BY <1>1, FS_AddElement

LEMMA TwoProcs ==
  IsFiniteSet(Procs) /\ Cardinality(Procs) = 2
<1>2. IsFiniteSet({Parent} \cup {Child}) /\ Cardinality({Parent} \cup {Child}) = 2
  BY TwoElements, Sizes
<1>3. Procs = {Parent} \cup {Child}
  BY DEF Procs
<1> QED
  BY <1>2, <1>3

LEMMA FdRefType ==
  ASSUME NEW e \in Ends
  PROVE  FdRef(e) \in 0 .. 2
<1> DEFINE S == {p \in Procs : fd(e) \in maps[p]}
<1>2. S \subseteq Procs
  OBVIOUS
<1>3. IsFiniteSet(S) /\ Cardinality(S) <= 2 /\ Cardinality(S) \in Nat
  BY <1>2, TwoProcs, FS_Subset, FS_CardinalityType
<1> QED
  BY <1>3 DEF FdRef

LEMMA PipeRefType == PipeRef \in 0 .. 4
<1> DEFINE S == {x \in Procs \X Ends : data(x[2]) \in maps[x[1]]}
<1>2. IsFiniteSet({"r"} \cup {"w"}) /\ Cardinality({"r"} \cup {"w"}) = 2
  BY TwoElements
<1>3. Ends = {"r"} \cup {"w"}
  BY DEF Ends
<1>4. IsFiniteSet(Procs \X Ends) /\ Cardinality(Procs \X Ends) = 4
  BY <1>2, <1>3, TwoProcs, FS_Product
<1>5. S \subseteq Procs \X Ends
  OBVIOUS
<1>6. IsFiniteSet(S) /\ Cardinality(S) <= 4 /\ Cardinality(S) \in Nat
  BY <1>4, <1>5, FS_Subset, FS_CardinalityType
<1> QED
  BY <1>6 DEF PipeRef

\* The parts of TypeOK, for one action at a time.
MemoryType  == /\ buf \in [0 .. BY2PIPE - 1 -> 0 .. MaxBytes] /\ rpos \in Positions /\ wpos \in Positions
               /\ Under <= BY2PIPE
CounterType == /\ n \in [Procs -> 0 .. MaxN] /\ i \in [Procs -> 0 .. MaxN]
               /\ rbuf \in 0 .. MaxBytes /\ sent \in 0 .. MaxBytes /\ taken \in 0 .. MaxBytes
CheckType   == /\ fdRef \in [Procs -> 0 .. 2] /\ pipeRef \in [Procs -> 0 .. 4]
               /\ sameRuns \in [Procs -> BOOLEAN]
MapType     == maps \in [Procs -> SUBSET PipePages]
SchedType   == /\ end \in [Procs -> Ends] /\ pc \in [Procs -> Labels]
               /\ cur \in Procs /\ quantum \in Quanta /\ since \in 0 .. quantum

LEMMA TypeParts ==
  /\ TypeOK <=> MemoryType /\ CounterType /\ CheckType /\ MapType /\ SchedType
  /\ TypeOK' <=> MemoryType' /\ CounterType' /\ CheckType' /\ MapType' /\ SchedType'
  BY DEF TypeOK, MemoryType, CounterType, CheckType, MapType, SchedType, Under, Between, Positions, Labels

\* A step of p that changes no counter and no position.
LEMMA CallsKept ==
  ASSUME Ind, NEW p \in Procs, NEW next \in Labels, pc' = [pc EXCEPT ![p] = next], end' = end,
         UNCHANGED <<n, i, sent, rpos, wpos>>,
         next \in InCall => pc[p] \in InCall,
         next \in Moves => pc[p] \in Moves \/ (i[p] < n[p] /\ (end[p] = "r" => Under > 0)
                                                /\ (end[p] = "w" => Under < BY2PIPE))
  PROVE  EndsDiffer' /\ \A q \in Procs : CallOk(q)'
<1>1. Under' = Under /\ pc \in [Procs -> Labels]
  BY TypeParts DEF Under, Ind, SchedType
<1>2. EndsDiffer'
  BY DEF Ind, EndsDiffer
<1>3. ASSUME NEW q \in Procs PROVE CallOk(q)'
  <2>1. CallOk(q)
    BY DEF Ind
  <2>2. CASE q = p
    BY <1>1, <2>1, <2>2 DEF CallOk
  <2>3. CASE q # p
    <3>1. pc'[q] = pc[q]
      BY <1>1, <2>3
    <3> QED
      BY <1>1, <2>1, <3>1 DEF CallOk
  <2> QED
    BY <2>2, <2>3
<1> QED
  BY <1>2, <1>3

\* A reader is held up by an empty buffer, a writer by a full one.
LEMMA WhenBlocked ==
  ASSUME Ind, NEW p \in Procs
  PROVE  /\ end[p] = "r" => (Blocked(p) <=> Under = 0)
         /\ end[p] = "w" => (Blocked(p) <=> Under = BY2PIPE)
         /\ Under \in Nat /\ Under <= BY2PIPE
<1>1. rpos \in Positions /\ wpos \in Positions /\ Under <= BY2PIPE /\ end \in [Procs -> Ends]
  BY TypeParts DEF Ind, MemoryType, SchedType
<1>2. Under \in Positions /\ (Under = 0 <=> rpos = wpos)
  BY <1>1, Distance DEF Under
<1>3. (p = Reader <=> end[p] = "r") /\ (p # Reader <=> end[p] = "w")
  BY <1>1, Roles DEF Ind
<1>4. Blocked(p) <=> IF p = Reader THEN rpos = wpos ELSE Under = BY2PIPE
  BY DEF Blocked, Under, Between
<1> QED
  BY <1>1, <1>2, <1>3, <1>4, Sizes DEF Positions

\* The steps that move no byte.
Quiet(p) ==
  \/ pipe(p) \/ fork_dup(p) \/ fork_end(p) \/ close_other(p) \/ close(p)
  \/ wait(p) \/ read_runs(p) \/ read_fd_ref(p) \/ read_pipe_ref(p) \/ compare(p)

LEMMA QuietStep ==
  ASSUME Ind, NEW p \in Procs, Quiet(p)
  PROVE  Ind'
<1>1. MemoryType /\ CounterType /\ CheckType /\ MapType /\ SchedType
  BY TypeParts DEF Ind
<1>2. MemoryType' /\ CounterType'
  <2>1. UNCHANGED <<pipeVars, callVars, ghosts>>
    BY DEF Quiet, pipe, fork_dup, fork_end, close_other, close, wait, read_runs, read_fd_ref,
           read_pipe_ref, compare
  <2> QED
    BY <1>1, <2>1 DEF MemoryType, CounterType, Under, pipeVars, callVars, ghosts
<1>3. ASSUME NEW next \in Labels, Go(p, next), UNCHANGED sameRuns \/ sameRuns' = [sameRuns EXCEPT ![p] = TRUE],
             next \in InCall => pc[p] \in InCall,
             next \in Moves => (i[p] < n[p] /\ (end[p] = "r" => Under > 0) /\ (end[p] = "w" => Under < BY2PIPE)),
             MapType', UNCHANGED <<n, i, sent, rpos, wpos>>,
             fdRef' \in [Procs -> 0 .. 2] /\ pipeRef' \in [Procs -> 0 .. 4]
      PROVE  Ind'
  <2>1. SchedType'
    BY <1>1, <1>3, GoType DEF SchedType
  <2>2. CheckType'
    BY <1>1, <1>3 DEF CheckType
  <2>3. EndsDiffer' /\ \A q \in Procs : CallOk(q)'
    BY <1>3, GoType, CallsKept
  <2> QED
    BY <1>2, <1>3, <2>1, <2>2, <2>3, TypeParts DEF Ind
<1>4. ASSUME NEW next \in Labels, Leave(p, next), next \in InCall => pc[p] \in InCall, next \notin Moves,
             MapType', UNCHANGED <<n, i, sent, rpos, wpos, fdRef, pipeRef>>
      PROVE  Ind'
  <2>1. SchedType' /\ CheckType'
    BY <1>1, <1>4, LeaveType DEF SchedType, CheckType
  <2>3. EndsDiffer' /\ \A q \in Procs : CallOk(q)'
    BY <1>4, LeaveType, CallsKept
  <2> QED
    BY <1>2, <1>4, <2>1, <2>3, TypeParts DEF Ind
<1>5. ASSUME pipe(p) PROVE Ind'
  <2>1. UNCHANGED <<n, i, sent, rpos, wpos, fdRef, pipeRef>> /\ MapType'
    BY <1>1, <1>5 DEF pipe, MapType, pipeVars, callVars, ghosts, checkVars
  <2>2. (Go(p, "fork") /\ UNCHANGED sameRuns) \/ Leave(p, "done")
    BY <1>5 DEF pipe
  <2> QED
    BY <1>1, <1>3, <1>4, <2>1, <2>2 DEF Labels, InCall, Moves, CheckType
<1>6. ASSUME fork_dup(p) PROVE Ind'
  <2>1. UNCHANGED <<n, i, sent, rpos, wpos, fdRef, pipeRef, sameRuns>> /\ Go(p, "fork")
    BY <1>1, <1>6 DEF fork_dup, pipeVars, callVars, ghosts, checkVars
  <2>2. PICK k \in 1 .. 4 : maps' = [maps EXCEPT ![Child] = @ \cup {PageOrder[k]}]
    BY <1>6 DEF fork_dup
  <2>3. PageOrder[k] \in PipePages
    BY DEF PipePages
  <2>4. MapType'
    BY <1>1, <2>2, <2>3 DEF MapType
  <2> QED
    BY <1>1, <1>3, <2>1, <2>4 DEF Labels, InCall, Moves, CheckType
<1>7. ASSUME fork_end(p) PROVE Ind'
  <2>1. /\ UNCHANGED <<maps, pipeVars, end, callVars, checkVars, sameRuns, cur, quantum, since, ghosts>>
        /\ pc' = [x \in Procs |-> "close other"]
    BY <1>7 DEF fork_end
  <2>2. CheckType' /\ MapType' /\ SchedType'
    BY <1>1, <2>1 DEF CheckType, MapType, SchedType, Labels, checkVars
  <2>3. EndsDiffer' /\ \A q \in Procs : CallOk(q)'
    BY <2>1 DEF Ind, EndsDiffer, CallOk, InCall, Moves
  <2> QED
    BY <1>2, <2>2, <2>3, TypeParts DEF Ind
<1>8. ASSUME close_other(p) PROVE Ind'
  <2>1. UNCHANGED <<n, i, sent, rpos, wpos, fdRef, pipeRef, sameRuns>> /\ MapType'
    BY <1>1, <1>8 DEF close_other, unmap, MapType, pipeVars, callVars, ghosts, checkVars
  <2>2. Go(p, "close other 2") \/ Go(p, "idle")
    BY <1>8 DEF close_other
  <2> QED
    BY <1>1, <1>3, <2>1, <2>2 DEF Labels, InCall, Moves, CheckType
<1>9. ASSUME close(p) PROVE Ind'
  <2>1. UNCHANGED <<n, i, sent, rpos, wpos, fdRef, pipeRef>> /\ MapType'
    BY <1>1, <1>9 DEF close, unmap, MapType, pipeVars, callVars, ghosts, checkVars
  <2>2. (Go(p, "close 2") /\ UNCHANGED sameRuns) \/ Leave(p, "done")
    BY <1>9 DEF close
  <2> QED
    BY <1>1, <1>3, <1>4, <2>1, <2>2 DEF Labels, InCall, Moves, CheckType
<1>10. ASSUME wait(p) PROVE Ind'
  <2>1. UNCHANGED <<n, i, sent, rpos, wpos, fdRef, pipeRef, sameRuns>> /\ MapType' /\ pc[p] = "wait"
    BY <1>1, <1>10 DEF wait, MapType, pipeVars, callVars, ghosts, checkVars
  <2>2. \/ Go(p, "idle") \/ Go(p, "runs")
        \/ Go(p, "transfer") /\ i[p] # n[p] /\ ~Blocked(p)
    BY <1>10 DEF wait
  <2>3. Go(p, "transfer") /\ i[p] # n[p] /\ ~Blocked(p) =>
          i[p] < n[p] /\ (end[p] = "r" => Under > 0) /\ (end[p] = "w" => Under < BY2PIPE)
    <3>1. i[p] <= n[p] /\ i[p] \in Nat /\ n[p] \in Nat
      BY <1>1, <2>1, Sizes DEF Ind, CallOk, InCall, CounterType
    <3> QED
      BY <3>1, WhenBlocked, Sizes
  <2> QED
    BY <1>1, <1>3, <2>1, <2>2, <2>3 DEF Labels, InCall, Moves, CheckType
<1>11. ASSUME read_runs(p) \/ read_fd_ref(p) \/ read_pipe_ref(p) PROVE Ind'
  <2>1. UNCHANGED <<n, i, sent, rpos, wpos>> /\ MapType' /\ pc[p] \in InCall
    BY <1>1, <1>11 DEF read_runs, read_fd_ref, read_pipe_ref, MapType, pipeVars, callVars, ghosts, InCall
  <2>2. end[p] \in Ends
    BY <1>1 DEF SchedType
  <2>3. fdRef' \in [Procs -> 0 .. 2] /\ pipeRef' \in [Procs -> 0 .. 4]
    <3>1. FdRef(end[p]) \in 0 .. 2 /\ PipeRef \in 0 .. 4
      BY <2>2, FdRefType, PipeRefType
    <3> QED
      BY <1>1, <1>11, <3>1 DEF read_runs, read_fd_ref, read_pipe_ref, checkVars, CheckType
  <2>4. /\ Go(p, "fd_ref") \/ Go(p, "pipe_ref") \/ Go(p, "compare")
        /\ UNCHANGED sameRuns \/ sameRuns' = [sameRuns EXCEPT ![p] = TRUE]
    BY <1>11 DEF read_runs, read_fd_ref, read_pipe_ref
  <2> QED
    BY <1>3, <2>1, <2>3, <2>4 DEF Labels, InCall, Moves
<1>12. ASSUME compare(p) PROVE Ind'
  <2>1. UNCHANGED <<n, i, sent, rpos, wpos, fdRef, pipeRef>> /\ MapType' /\ pc[p] = "compare"
    BY <1>1, <1>12 DEF compare, MapType, pipeVars, callVars, ghosts, checkVars
  <2>2. ((Go(p, "runs") \/ Go(p, "closed")) /\ UNCHANGED sameRuns) \/ Leave(p, "wait")
    BY <1>12 DEF compare
  <2> QED
    BY <1>1, <1>3, <1>4, <2>1, <2>2 DEF Labels, InCall, Moves, CheckType
<1> QED
  BY <1>5, <1>6, <1>7, <1>8, <1>9, <1>10, <1>11, <1>12 DEF Quiet

\* Begin, transfer and advance change a counter, the buffer or a position.
LEMMA BeginStep ==
  ASSUME Ind, NEW p \in Procs, Begin(p)
  PROVE  Ind'
<1>1. MemoryType /\ CounterType /\ CheckType /\ MapType /\ SchedType
  BY TypeParts DEF Ind
<1>2. PICK k \in 1 .. MaxN : (p = Writer => sent + k <= MaxBytes) /\ n' = [n EXCEPT ![p] = k]
  BY DEF Begin
<1>3. /\ i' = [i EXCEPT ![p] = 0] /\ Go(p, "wait") /\ "wait" \in Labels
      /\ UNCHANGED <<maps, buf, rpos, wpos, rbuf, fdRef, pipeRef, sameRuns, sent, taken>>
  BY DEF Begin, Labels, pipeVars, checkVars, ghosts
<1>4. MemoryType' /\ CounterType' /\ CheckType' /\ MapType'
  BY <1>1, <1>2, <1>3, Sizes DEF MemoryType, CounterType, CheckType, MapType, Under
<1>5. SchedType' /\ end' = end /\ pc' = [pc EXCEPT ![p] = "wait"]
  BY <1>1, <1>3, GoType DEF SchedType
<1>6. ASSUME NEW q \in Procs PROVE CallOk(q)'
  <2>1. CallOk(q) /\ Under' = Under
    BY <1>3 DEF Ind, Under
  <2>2. CASE q = p
    <3>1. pc'[q] = "wait" /\ n'[q] = k /\ i'[q] = 0
      BY <1>1, <1>2, <1>3, <1>5, <2>2 DEF SchedType, CounterType
    <3>2. end[q] = "w" => sent + k <= MaxBytes
      BY <1>1, <1>2, <2>2, Roles DEF Ind, SchedType
    <3> QED
      BY <1>3, <1>5, <3>1, <3>2, Sizes DEF CallOk, Moves
  <2>3. CASE q # p
    <3>1. pc'[q] = pc[q] /\ n'[q] = n[q] /\ i'[q] = i[q]
      BY <1>1, <1>2, <1>3, <1>5, <2>3 DEF SchedType, CounterType
    <3> QED
      BY <1>3, <1>5, <2>1, <3>1 DEF CallOk
  <2> QED
    BY <2>2, <2>3
<1> QED
  BY <1>4, <1>5, <1>6, TypeParts DEF Ind, EndsDiffer

LEMMA Places ==
  ASSUME NEW k \in Int
  PROVE  k % BY2PIPE \in 0 .. BY2PIPE - 1
  BY Sizes, ModSmall

\* What transfer does, by the role of p.
LEMMA TransferCases ==
  ASSUME Ind, NEW p \in Procs, transfer(p)
  PROVE  /\ pc[p] = "transfer" /\ Go(p, "advance")
         /\ UNCHANGED <<maps, rpos, wpos, n, i, fdRef, pipeRef, sameRuns, sent, taken>>
         /\ i[p] < n[p]
         /\ end[p] = "r" => Under > 0 /\ rbuf' = buf[rpos % BY2PIPE] /\ buf' = buf
         /\ end[p] = "w" => /\ Under < BY2PIPE /\ sent + 1 <= MaxBytes
                            /\ buf' = [buf EXCEPT ![wpos % BY2PIPE] = sent + 1] /\ rbuf' = rbuf
         /\ rpos % BY2PIPE \in 0 .. BY2PIPE - 1 /\ wpos % BY2PIPE \in 0 .. BY2PIPE - 1
<1>1. MemoryType /\ CounterType /\ SchedType
  BY TypeParts DEF Ind
<1>2. /\ pc[p] = "transfer" /\ Go(p, "advance")
      /\ UNCHANGED <<maps, rpos, wpos, n, i, fdRef, pipeRef, sameRuns, sent, taken>>
      /\ p = Reader => rbuf' = buf[rpos % BY2PIPE] /\ buf' = buf
      /\ p # Reader => buf' = [buf EXCEPT ![wpos % BY2PIPE] = sent + 1] /\ rbuf' = rbuf
  BY DEF transfer, checkVars, ghosts
<1>3. (p = Reader <=> end[p] = "r") /\ (p # Reader <=> end[p] = "w")
  BY <1>1, Roles DEF Ind, SchedType
<1>4. /\ i[p] < n[p] /\ (end[p] = "r" => Under > 0) /\ (end[p] = "w" => Under < BY2PIPE)
      /\ end[p] = "w" => sent + (n[p] - i[p]) <= MaxBytes
  BY <1>2 DEF Ind, CallOk, InCall, Moves
<1>5. sent \in Nat /\ n[p] \in Nat /\ i[p] \in Nat
  BY <1>1, Sizes DEF CounterType
<1>6. end[p] = "w" => sent + 1 <= MaxBytes
  BY <1>4, <1>5, Sizes
<1>7. rpos \in Int /\ wpos \in Int
  BY <1>1, Sizes DEF MemoryType, Positions
<1> QED
  BY <1>2, <1>3, <1>4, <1>6, <1>7, Places

LEMMA TransferStep ==
  ASSUME Ind, NEW p \in Procs, transfer(p)
  PROVE  Ind'
<1>1. MemoryType /\ CounterType /\ CheckType /\ MapType /\ SchedType
  BY TypeParts DEF Ind
<1>2. "advance" \in Labels /\ "advance" \in InCall /\ pc[p] \in InCall /\ pc[p] \in Moves
  BY TransferCases DEF Labels, InCall, Moves
<1>3. SchedType' /\ end' = end /\ pc' = [pc EXCEPT ![p] = "advance"]
  BY <1>1, <1>2, TransferCases, GoType DEF SchedType
<1>4. CheckType' /\ MapType'
  BY <1>1, TransferCases DEF CheckType, MapType
<1>5. end[p] = "r" \/ end[p] = "w"
  BY <1>1 DEF SchedType, Ends
<1>6. MemoryType' /\ CounterType'
  <2>1. sent + 1 \in Nat
    BY <1>1, Sizes DEF CounterType
  <2>2. buf \in [0 .. BY2PIPE - 1 -> 0 .. MaxBytes] /\ rbuf \in 0 .. MaxBytes
    BY <1>1 DEF MemoryType, CounterType
  <2>3. ASSUME end[p] = "r" PROVE buf' \in [0 .. BY2PIPE - 1 -> 0 .. MaxBytes] /\ rbuf' \in 0 .. MaxBytes
    <3>1. PICK k \in 0 .. BY2PIPE - 1 : k = rpos % BY2PIPE
      BY TransferCases
    <3>2. rbuf' = buf[k] /\ buf' = buf
      BY <2>3, <3>1, TransferCases
    <3> QED
      BY <2>2, <3>2, Sizes
  <2>4. ASSUME end[p] = "w" PROVE buf' \in [0 .. BY2PIPE - 1 -> 0 .. MaxBytes] /\ rbuf' \in 0 .. MaxBytes
    <3>1. sent + 1 \in 0 .. MaxBytes
      BY <2>1, <2>4, TransferCases, Sizes
    <3>2. PICK k \in 0 .. BY2PIPE - 1 : k = wpos % BY2PIPE
      BY TransferCases
    <3>3. buf' = [buf EXCEPT ![k] = sent + 1] /\ rbuf' = rbuf
      BY <2>4, <3>2, TransferCases
    <3> QED
      BY <2>2, <3>1, <3>3, Sizes
  <2>5. buf' \in [0 .. BY2PIPE - 1 -> 0 .. MaxBytes] /\ rbuf' \in 0 .. MaxBytes
    BY <1>5, <2>3, <2>4
  <2>6. UNCHANGED <<rpos, wpos, n, i, sent, taken>>
    BY TransferCases
  <2> QED
    BY <1>1, <2>5, <2>6 DEF MemoryType, CounterType, Under
<1>7. EndsDiffer' /\ \A q \in Procs : CallOk(q)'
  BY <1>2, <1>3, TransferCases, CallsKept
<1> QED
  BY <1>3, <1>4, <1>6, <1>7, TypeParts DEF Ind

LEMMA AdvanceCases ==
  ASSUME Ind, NEW p \in Procs, advance(p)
  PROVE  /\ pc[p] = "advance" /\ Go(p, "wait")
         /\ UNCHANGED <<maps, buf, n, rbuf, fdRef, pipeRef, sameRuns>>
         /\ i' = [i EXCEPT ![p] = @ + 1] /\ i[p] < n[p]
         /\ end[p] = "r" => /\ Under > 0 /\ rpos' = (rpos + 1) % PosMod /\ rpos' \in Positions
                            /\ taken' = rbuf /\ UNCHANGED <<wpos, sent>> /\ Under' = Under - 1
         /\ end[p] = "w" => /\ Under < BY2PIPE /\ wpos' = (wpos + 1) % PosMod /\ wpos' \in Positions
                            /\ sent' = sent + 1 /\ sent + (n[p] - i[p]) <= MaxBytes
                            /\ UNCHANGED <<rpos, taken>> /\ Under' = Under + 1
<1>1. MemoryType /\ CounterType /\ SchedType
  BY TypeParts DEF Ind
<1>2. /\ pc[p] = "advance" /\ Go(p, "wait") /\ i' = [i EXCEPT ![p] = @ + 1]
      /\ UNCHANGED <<maps, buf, n, rbuf, fdRef, pipeRef, sameRuns>>
      /\ p = Reader => rpos' = (rpos + 1) % PosMod /\ taken' = rbuf /\ UNCHANGED <<wpos, sent>>
      /\ p # Reader => wpos' = (wpos + 1) % PosMod /\ sent' = sent + 1 /\ UNCHANGED <<rpos, taken>>
  BY DEF advance, checkVars
<1>3. (p = Reader <=> end[p] = "r") /\ (p # Reader <=> end[p] = "w")
  BY <1>1, Roles DEF Ind, SchedType
<1>4. /\ i[p] < n[p] /\ (end[p] = "r" => Under > 0) /\ (end[p] = "w" => Under < BY2PIPE)
      /\ end[p] = "w" => sent + (n[p] - i[p]) <= MaxBytes
  BY <1>2 DEF Ind, CallOk, InCall, Moves
<1>5. /\ rpos \in Positions /\ wpos \in Positions
      /\ (rpos + 1) % PosMod \in Positions /\ (wpos + 1) % PosMod \in Positions
  BY <1>1, NextPosition DEF MemoryType
<1>6. /\ Under > 0 => Between((rpos + 1) % PosMod, wpos) = Under - 1
      /\ Under < BY2PIPE => Between(rpos, (wpos + 1) % PosMod) = Under + 1
  BY <1>5, Advances DEF Under
<1>7. end[p] = "r" => Under' = Under - 1
  BY <1>2, <1>3, <1>4, <1>6 DEF Under
<1>8. end[p] = "w" => Under' = Under + 1
  BY <1>2, <1>3, <1>4, <1>6 DEF Under
<1> QED
  BY <1>2, <1>3, <1>4, <1>5, <1>7, <1>8

LEMMA AdvanceStep ==
  ASSUME Ind, NEW p \in Procs, advance(p)
  PROVE  Ind'
<1>1. MemoryType /\ CounterType /\ CheckType /\ MapType /\ SchedType
  BY TypeParts DEF Ind
<1>2. SchedType' /\ end' = end /\ pc' = [pc EXCEPT ![p] = "wait"]
  <2>1. "wait" \in Labels
    BY DEF Labels
  <2> QED
    BY <1>1, <2>1, AdvanceCases, GoType DEF SchedType
<1>3. CheckType' /\ MapType'
  BY <1>1, AdvanceCases DEF CheckType, MapType
<1>4. end[p] = "r" \/ end[p] = "w"
  BY <1>1 DEF SchedType, Ends
<1>5. Under \in Nat /\ Under <= BY2PIPE
  BY WhenBlocked
<1>6. MemoryType'
  BY <1>1, <1>4, <1>5, AdvanceCases, Sizes DEF MemoryType
<1>7. n[p] \in 0 .. MaxN /\ i[p] \in 0 .. MaxN /\ sent \in 0 .. MaxBytes
  BY <1>1 DEF CounterType
<1>8. CounterType'
  BY <1>1, <1>4, <1>7, AdvanceCases, Sizes DEF CounterType
<1>9. ASSUME NEW q \in Procs PROVE CallOk(q)'
  <2>1. CallOk(q) /\ end[q] \in Ends
    BY <1>1 DEF Ind, SchedType
  <2>2. CASE q = p
    <3>1. pc'[q] = "wait" /\ i'[q] = i[q] + 1 /\ n'[q] = n[q]
      BY <1>1, <1>2, <2>2, AdvanceCases DEF SchedType, CounterType
    <3>2. i'[q] <= n'[q] /\ (end[q] = "w" => sent' + (n'[q] - i'[q]) <= MaxBytes)
      BY <1>7, <2>2, <3>1, AdvanceCases, Sizes
    <3> QED
      BY <1>2, <3>1, <3>2 DEF CallOk, Moves
  <2>3. CASE q # p
    <3>1. pc'[q] = pc[q] /\ i'[q] = i[q] /\ n'[q] = n[q]
      BY <1>1, <1>2, <2>3, AdvanceCases DEF SchedType, CounterType
    <3>2. end[q] # end[p]
      BY <2>3 DEF Ind, EndsDiffer, Procs
    <3>3. (end[q] = "r" => Under' >= Under) /\ (end[q] = "w" => Under' <= Under /\ sent' = sent)
      BY <1>4, <1>5, <3>2, AdvanceCases
    <3>4. n[q] \in 0 .. MaxN /\ i[q] \in 0 .. MaxN /\ Under' \in Int
      BY <1>1, <1>4, <1>5, AdvanceCases DEF CounterType
    <3> QED
      BY <1>2, <1>5, <2>1, <3>1, <3>3, <3>4, Sizes DEF CallOk
  <2> QED
    BY <2>2, <2>3
<1>10. EndsDiffer'
  BY <1>2 DEF Ind, EndsDiffer
<1> QED
  BY <1>2, <1>3, <1>6, <1>8, <1>9, <1>10, TypeParts DEF Ind

LEMMA TimerStep ==
  ASSUME Ind, Timer
  PROVE  Ind'
<1>1. MemoryType /\ CounterType /\ CheckType /\ MapType /\ SchedType
  BY TypeParts DEF Ind
<1>2. PICK p \in Procs : env_run(p)
  BY DEF Timer
<1>3. /\ since' = 0
      /\ UNCHANGED <<maps, buf, rpos, wpos, quantum, end, pc, n, i, rbuf, fdRef, pipeRef, sent, taken>>
  BY DEF Timer, pipeVars, callVars, checkVars, ghosts
<1>4. quantum \in Nat
  BY <1>1, Sizes DEF SchedType
<1>5. MemoryType' /\ CounterType' /\ CheckType' /\ MapType' /\ SchedType'
  BY <1>1, <1>2, <1>3, <1>4 DEF MemoryType, CounterType, CheckType, MapType, SchedType, env_run, Under
<1>6. EndsDiffer' /\ \A q \in Procs : CallOk(q)'
  BY <1>3 DEF Ind, EndsDiffer, CallOk, Under
<1> QED
  BY <1>5, <1>6, TypeParts DEF Ind

LEMMA StutterStep ==
  ASSUME Ind, UNCHANGED vars
  PROVE  Ind'
<1>1. MemoryType /\ CounterType /\ CheckType /\ MapType /\ SchedType
  BY TypeParts DEF Ind
<1>2. UNCHANGED <<maps, buf, rpos, wpos, end, pc, n, i, rbuf, fdRef, pipeRef, sameRuns, cur, quantum,
                  since, sent, taken>>
  BY DEF vars, pipeVars, callVars, checkVars, ghosts
<1>3. MemoryType' /\ CounterType' /\ CheckType' /\ MapType' /\ SchedType'
  BY <1>1, <1>2 DEF MemoryType, CounterType, CheckType, MapType, SchedType, Under
<1>4. EndsDiffer' /\ \A q \in Procs : CallOk(q)'
  BY <1>2 DEF Ind, EndsDiffer, CallOk, Under
<1> QED
  BY <1>3, <1>4, TypeParts DEF Ind

LEMMA ByAction ==
  ASSUME Next
  PROVE  \/ \E p \in Procs : Quiet(p) \/ Begin(p) \/ transfer(p) \/ advance(p)
         \/ Timer
  BY DEF Next, UserStep, Quiet, Procs

LEMMA IndStep ==
  ASSUME Ind, [Next]_vars
  PROVE  Ind'
<1>1. ASSUME Next PROVE Ind'
  BY <1>1, ByAction, QuietStep, BeginStep, TransferStep, AdvanceStep, TimerStep
<1> QED
  BY <1>1, StutterStep

LEMMA IndInit ==
  ASSUME Init
  PROVE  Ind
<1>1. rpos \in Positions /\ wpos \in Positions /\ Under = 0
  <2>1. 0 \in Positions /\ Between(0, 0) = 0
    <3>1. 0 \in Positions
      BY Sizes DEF Positions
    <3> QED
      BY <3>1, Distance
  <2> QED
    BY <2>1 DEF Init, Under
<1>2. MemoryType
  BY <1>1, Sizes DEF Init, MemoryType
<1>3. CounterType /\ CheckType /\ MapType
  BY Sizes DEF Init, CounterType, CheckType, MapType
<1>4. SchedType
  BY Sizes DEF Init, SchedType, Procs, Labels
<1>5. EndsDiffer /\ \A p \in Procs : CallOk(p)
  BY DEF Init, EndsDiffer, CallOk, InCall, Moves, Procs
<1> QED
  BY <1>2, <1>3, <1>4, <1>5, TypeParts DEF Ind

LEMMA IndHolds == Spec => []Ind
  BY IndInit, IndStep, PTL DEF Spec

\* p_rpos and p_wpos, the counters of the calls and the contents of the buffer
\* stay in range, wherever the timer interrupts pipe_read and pipe_write, and
\* the positions never get more than BY2PIPE apart, also when they wrap around.
THEOREM TypeSafe == Spec => []TypeOK
<1>1. Ind => TypeOK
  BY DEF Ind
<1> QED
  BY <1>1, IndHolds, PTL

-----------------------------------------------------------------------------
(***************************************************************************)
(* A pipe found closed is closed.  What a process has mapped follows from  *)
(* where it is, except that the child's space is filled before it is born; *)
(* the counts a process has read are still right while it has the CPU      *)
(* since; and as long as the other process is not done, it has a page of   *)
(* the buffer mapped that keeps the counts apart.                          *)
(***************************************************************************)
Own(p) == {fd(end[p]), data(end[p])}

MapsOf(p) ==
  /\ pc[p] \in {"fork", "close other"} => maps[p] = PipePages
  /\ pc[p] = "close other 2" => maps[p] = PipePages \ {fd(Other(end[p]))}
  /\ pc[p] \in InCall \cup {"idle", "closed"} => maps[p] = Own(p)
  /\ pc[p] = "close 2" => maps[p] = {data(end[p])}
  /\ pc[p] = "done" => maps[p] = {}

Phases ==
  /\ pc[Child] \notin {"pipe", "fork"} /\ pc[Parent] # "unborn"
  /\ pc[Parent] \in {"pipe", "fork"} => pc[Child] = "unborn"
  /\ pc[Child] = "unborn" => pc[Parent] \in {"pipe", "fork", "done"}

Fresh(p) ==
  cur = p /\ sameRuns[p] =>
    /\ pc[p] \in {"pipe_ref", "compare"} => fdRef[p] = FdRef(end[p])
    /\ pc[p] = "compare" => pipeRef[p] = PipeRef

LastOne(p) == pc[p] = "closed" => \A q \in Procs \ {p} : pc[q] = "done"

ClosedInd == Ind /\ Phases /\ \A p \in Procs : MapsOf(p) /\ Fresh(p) /\ LastOne(p)

LEMMA Pages ==
  /\ PipePages = {fd("r"), fd("w"), data("r"), data("w")}
  /\ \A e \in Ends, f \in Ends : fd(e) # data(f) /\ (fd(e) = fd(f) => e = f) /\ (data(e) = data(f) => e = f)
  /\ \A e \in Ends : Other(e) \in Ends /\ Other(e) # e /\ PipePages = {fd(e), fd(Other(e)), data(e), data(Other(e))}
<1>1. PipePages = {fd("r"), fd("w"), data("r"), data("w")}
  <2>1. PipePages = {PageOrder[1], PageOrder[2], PageOrder[3], PageOrder[4]}
    BY DEF PipePages
  <2> QED
    BY <2>1 DEF PageOrder
<1>2. \A e \in Ends, f \in Ends : fd(e) # data(f) /\ (fd(e) = fd(f) => e = f) /\ (data(e) = data(f) => e = f)
  BY DEF fd, data
<1>3. \A e \in Ends : Other(e) \in Ends /\ Other(e) # e /\ Ends = {e, Other(e)}
  BY DEF Ends, Other
<1>4. PipePages = {fd(e) : e \in Ends} \cup {data(e) : e \in Ends}
  BY <1>1 DEF Ends
<1> QED
  BY <1>1, <1>2, <1>3, <1>4

LEMMA Counts ==
  ASSUME ClosedInd, NEW p \in Procs, NEW q \in Procs, p # q, pc[p] \in InCall, pc[q] # "done"
  PROVE  FdRef(end[p]) # PipeRef
<1>1. /\ end[p] \in Ends /\ end[q] \in Ends /\ end[p] # end[q] /\ end[q] = Other(end[p]) /\ end[p] = Other(end[q])
      /\ Procs = {p, q} /\ pc \in [Procs -> Labels]
  BY TypeParts DEF ClosedInd, Ind, SchedType, EndsDiffer, Procs, Ends, Other
<1>2. maps[p] = Own(p)
  BY DEF ClosedInd, MapsOf
<1>3. pc[q] \in {"close other", "close other 2", "idle", "closed", "close 2"} \cup InCall
  <2>1. Phases /\ ((p = Parent /\ q = Child) \/ (p = Child /\ q = Parent))
    BY DEF ClosedInd, Procs
  <2>2. pc[q] \notin {"pipe", "fork", "unborn"}
    BY <2>1 DEF Phases, InCall
  <2> QED
    BY <1>1, <2>2 DEF Labels, InCall
<1>4. data(end[q]) \in maps[q]
  <2>1. MapsOf(q)
    BY DEF ClosedInd
  <2>2. data(end[q]) \in PipePages /\ data(end[q]) # fd(Other(end[q]))
    BY <1>1, Pages
  <2>3. maps[q] = PipePages \/ maps[q] = PipePages \ {fd(Other(end[q]))} \/ maps[q] = Own(q)
        \/ maps[q] = {data(end[q])}
    BY <1>3, <2>1 DEF MapsOf
  <2> QED
    BY <2>2, <2>3 DEF Own
<1> DEFINE F == {x \in Procs : fd(end[p]) \in maps[x]}
           D == {x \in Procs \X Ends : data(x[2]) \in maps[x[1]]}
           A == {<<p, end[p]>>} \cup {<<q, end[q]>>}
<1>5. IsFiniteSet(A) /\ Cardinality(A) = 2
  <2>1. <<p, end[p]>> # <<q, end[q]>>
    OBVIOUS
  <2> QED
    BY <2>1, TwoElements
<1>6. A \subseteq D
  BY <1>1, <1>2, <1>4 DEF Own
<1>7. IsFiniteSet(D) /\ PipeRef = Cardinality(D) /\ PipeRef \in Nat
  <2>1. IsFiniteSet(Procs \X Ends) /\ D \subseteq Procs \X Ends
    <3>1. IsFiniteSet({"r"} \cup {"w"})
      BY FS_Singleton, FS_AddElement
    <3>2. Ends = {"r"} \cup {"w"}
      BY DEF Ends
    <3> QED
      BY <3>1, <3>2, TwoProcs, FS_Product
  <2> QED
    BY <2>1, FS_Subset, FS_CardinalityType DEF PipeRef
<1>8. PipeRef >= 2
  BY <1>5, <1>6, <1>7, FS_Subset
<1>9. FdRef(end[p]) = Cardinality(F)
  BY DEF FdRef
<1>10. CASE pc[q] = "close other"
  <2>1. maps[q] = PipePages
    BY <1>10 DEF ClosedInd, MapsOf
  <2>2. <<q, end[p]>> \in D /\ <<q, end[p]>> \notin A
    BY <1>1, <2>1, Pages
  <2>3. IsFiniteSet(A \cup {<<q, end[p]>>}) /\ Cardinality(A \cup {<<q, end[p]>>}) = 3
    <3> HIDE DEF A
    <3> QED
      BY <1>5, <2>2, FS_AddElement
  <2>4. A \cup {<<q, end[p]>>} \subseteq D
    BY <1>6, <2>2
  <2>5. PipeRef >= 3
    BY <1>7, <2>3, <2>4, FS_Subset
  <2>6. FdRef(end[p]) <= 2
    BY <1>1, FdRefType
  <2> QED
    BY <1>1, <1>7, <2>5, <2>6, FdRefType
<1>11. CASE pc[q] # "close other"
  <2>1. fd(end[p]) \notin maps[q]
    <3>1. MapsOf(q)
      BY DEF ClosedInd
    <3>2. maps[q] = PipePages \ {fd(end[p])} \/ maps[q] = Own(q) \/ maps[q] = {data(end[q])}
      BY <1>1, <1>3, <1>11, <3>1 DEF MapsOf
    <3>3. fd(end[p]) # fd(end[q]) /\ fd(end[p]) # data(end[q])
      BY <1>1, Pages
    <3> QED
      BY <3>2, <3>3 DEF Own
  <2>2. F = {p}
    BY <1>1, <1>2, <2>1 DEF Own
  <2> QED
    <3>1. FdRef(end[p]) = Cardinality({p}) /\ Cardinality({p}) = 1
      BY <1>9, <2>2, FS_Singleton
    <3> QED
      BY <1>7, <1>8, <3>1
<1> QED
  BY <1>10, <1>11

\* A step of p alone keeps what holds of the other process.
LEMMA AloneStep ==
  ASSUME ClosedInd, NEW p \in Procs, NEW next \in Labels, pc' = [pc EXCEPT ![p] = next], end' = end,
         pc[p] \notin {"unborn", "done"}, next \notin {"pipe", "unborn"},
         next = "fork" => pc[p] \in {"pipe", "fork"},
         \A q \in Procs \ {p} : maps'[q] = maps[q] \/ pc[q] = "unborn",
         MapsOf(p)',
         next = "closed" => pc[p] = "closed" \/ \A q \in Procs \ {p} : pc[q] = "done",
         pc[p] \in {"pipe", "fork"} => next \in {"pipe", "fork", "done"}
  PROVE  Phases' /\ \A q \in Procs : MapsOf(q)' /\ LastOne(q)'
<1>1. pc \in [Procs -> Labels]
  BY TypeParts DEF ClosedInd, Ind, SchedType
<1>2. pc'[p] = next /\ \A q \in Procs \ {p} : pc'[q] = pc[q]
  BY <1>1
<1>3. Phases'
  BY <1>2 DEF ClosedInd, Phases, Procs
<1>4. ASSUME NEW q \in Procs \ {p} PROVE MapsOf(q)'
  <2>1. MapsOf(q) /\ pc'[q] = pc[q] /\ (maps'[q] = maps[q] \/ pc[q] = "unborn")
    BY <1>2 DEF ClosedInd
  <2> QED
    BY <2>1 DEF MapsOf, Own, InCall
<1>5. ASSUME NEW q \in Procs PROVE LastOne(q)'
  <2>1. LastOne(q)
    BY DEF ClosedInd
  <2>2. CASE q = p
    BY <1>2, <2>1, <2>2 DEF LastOne
  <2>3. CASE q # p
    BY <1>2, <2>1, <2>3 DEF LastOne
  <2> QED
    BY <2>2, <2>3
<1> QED
  BY <1>3, <1>4, <1>5

LEMMA GoFresh ==
  ASSUME ClosedInd, NEW p \in Procs, NEW next \in Labels, Go(p, next), Fresh(p)'
  PROVE  \A q \in Procs : Fresh(q)'
  BY DEF Go, Fresh

LEMMA LeaveFresh ==
  ASSUME ClosedInd, NEW p \in Procs, NEW next \in {"done", "wait"}, Leave(p, next)
  PROVE  \A q \in Procs : Fresh(q)'
<1>1. pc \in [Procs -> Labels] /\ sameRuns \in [Procs -> BOOLEAN]
  BY TypeParts DEF ClosedInd, Ind, SchedType, CheckType
<1>2. pc'[p] = next /\ cur = p
  BY <1>1 DEF Leave
<1>3. (\E x \in Procs : env_run(x)) \/ (UNCHANGED <<cur, sameRuns>> /\ next = "done")
  BY DEF Leave
<1>4. CASE \E x \in Procs : env_run(x)
  BY <1>1, <1>4 DEF env_run, Fresh
<1>5. CASE UNCHANGED <<cur, sameRuns>> /\ next = "done"
  BY <1>2, <1>5 DEF Fresh
<1> QED
  BY <1>3, <1>4, <1>5

LEMMA CountsUnchanged ==
  ASSUME maps' = maps, end' = end
  PROVE  PipeRef' = PipeRef /\ \A p \in Procs : FdRef(end[p])' = FdRef(end[p])
  BY DEF PipeRef, FdRef

LEMMA ClosedStep ==
  ASSUME ClosedInd, [Next]_vars
  PROVE  ClosedInd'
<1>1. Ind'
  BY IndStep DEF ClosedInd
<1>2. Ind /\ pc \in [Procs -> Labels] /\ maps \in [Procs -> SUBSET PipePages] /\ end \in [Procs -> Ends]
  BY TypeParts DEF ClosedInd, Ind, SchedType, MapType
<1>3. sameRuns \in [Procs -> BOOLEAN] /\ fdRef \in [Procs -> 0 .. 2] /\ pipeRef \in [Procs -> 0 .. 4]
  BY <1>2, TypeParts DEF Ind, CheckType
<1>4. ASSUME NEW p \in Procs
      PROVE  end[p] \in Ends /\ maps[p] \subseteq PipePages /\ MapsOf(p) /\ Fresh(p) /\ LastOne(p)
  BY <1>2 DEF ClosedInd
\* A step from one point of a call to another, or out of it, changes no mapping.
<1>5. ASSUME NEW p \in Procs, NEW next \in InCall \cup {"idle", "closed"}, Go(p, next), UNCHANGED maps,
             pc[p] \in InCall \cup {"idle"}, Fresh(p)',
             next = "closed" => \A q \in Procs \ {p} : pc[q] = "done"
      PROVE  ClosedInd'
  <2>1. next \in Labels
    BY DEF Labels, InCall
  <2>2. pc' = [pc EXCEPT ![p] = next] /\ end' = end
    BY <1>2, <1>5, <2>1, GoType
  <2>3. MapsOf(p)'
    BY <1>2, <1>4, <1>5, <2>2 DEF MapsOf, Own, InCall
  <2>4. Phases' /\ \A q \in Procs : MapsOf(q)' /\ LastOne(q)'
    BY <1>5, <2>1, <2>2, <2>3, AloneStep DEF InCall
  <2> QED
    BY <1>1, <1>5, <2>1, <2>4, GoFresh DEF ClosedInd
\* A step outside the calls changes the mappings of the process.
<1>6. ASSUME NEW p \in Procs, NEW next \in {"fork", "close other 2", "idle", "close 2"}, Go(p, next),
             pc[p] \notin {"unborn", "done"}, next = "fork" => pc[p] \in {"pipe", "fork"},
             pc[p] \in {"pipe", "fork"} => next = "fork",
             \A q \in Procs \ {p} : maps'[q] = maps[q] \/ pc[q] = "unborn",
             next = "fork" => maps'[p] = PipePages,
             next = "close other 2" => maps'[p] = PipePages \ {fd(Other(end[p]))},
             next = "idle" => maps'[p] = Own(p),
             next = "close 2" => maps'[p] = {data(end[p])}
      PROVE  ClosedInd'
  <2>1. next \in Labels
    BY DEF Labels
  <2>2. pc' = [pc EXCEPT ![p] = next] /\ end' = end /\ pc'[p] = next
    BY <1>2, <1>6, <2>1, GoType
  <2>3. MapsOf(p)' /\ Fresh(p)'
    BY <1>6, <2>2 DEF MapsOf, Own, InCall, Fresh
  <2>4. Phases' /\ \A q \in Procs : MapsOf(q)' /\ LastOne(q)'
    BY <1>6, <2>1, <2>2, <2>3, AloneStep
  <2> QED
    BY <1>1, <1>6, <2>1, <2>3, <2>4, GoFresh DEF ClosedInd
\* A process that ends has nothing mapped.
<1>7. ASSUME NEW p \in Procs, Leave(p, "done"), pc[p] \notin {"unborn", "done"}, maps'[p] = {},
             \A q \in Procs \ {p} : maps'[q] = maps[q]
      PROVE  ClosedInd'
  <2>1. "done" \in Labels
    BY DEF Labels
  <2>2. pc' = [pc EXCEPT ![p] = "done"] /\ end' = end /\ pc'[p] = "done"
    BY <1>2, <1>7, <2>1, LeaveType
  <2>3. MapsOf(p)'
    BY <1>7, <2>2 DEF MapsOf, InCall
  <2>4. Phases' /\ \A q \in Procs : MapsOf(q)' /\ LastOne(q)'
    BY <1>7, <2>1, <2>2, <2>3, AloneStep
  <2> QED
    BY <1>1, <1>7, <2>4, LeaveFresh DEF ClosedInd
<1>8. ASSUME pipe(Parent) PROVE ClosedInd'
  <2>1. Parent \in Procs /\ pc[Parent] = "pipe"
    BY <1>8 DEF pipe, Procs
  <2>2. \/ maps' = [maps EXCEPT ![Parent] = PipePages] /\ Go(Parent, "fork")
        \/ maps' = [maps EXCEPT ![Parent] = {}] /\ Leave(Parent, "done")
    BY <1>8 DEF pipe
  <2>3. CASE maps' = [maps EXCEPT ![Parent] = PipePages] /\ Go(Parent, "fork")
    <3>1. maps'[Parent] = PipePages /\ \A q \in Procs \ {Parent} : maps'[q] = maps[q]
      BY <1>2, <2>1, <2>3
    <3> QED
      BY <1>6, <2>1, <2>3, <3>1
  <2>4. CASE maps' = [maps EXCEPT ![Parent] = {}] /\ Leave(Parent, "done")
    <3>1. maps'[Parent] = {} /\ \A q \in Procs \ {Parent} : maps'[q] = maps[q]
      BY <1>2, <2>1, <2>4
    <3> QED
      BY <1>7, <2>1, <2>4, <3>1
  <2> QED
    BY <2>2, <2>3, <2>4
<1>9. ASSUME fork_dup(Parent) PROVE ClosedInd'
  <2>1. Parent \in Procs /\ pc[Parent] = "fork" /\ Go(Parent, "fork") /\ pc[Child] = "unborn"
    BY <1>9 DEF fork_dup, Procs, ClosedInd, Phases
  <2>2. maps[Parent] = PipePages
    BY <1>4, <2>1 DEF MapsOf
  <2>3. PICK k \in 1 .. 4 : maps' = [maps EXCEPT ![Child] = @ \cup {PageOrder[k]}]
    BY <1>9 DEF fork_dup
  <2>4. maps'[Parent] = PipePages
    BY <1>2, <2>1, <2>2, <2>3, Sizes
  <2>5. \A q \in Procs \ {Parent} : pc[q] = "unborn"
    BY <2>1 DEF Procs
  <2> QED
    BY <1>6, <2>1, <2>4, <2>5
<1>10. ASSUME fork_end(Parent) PROVE ClosedInd'
  <2>1. /\ pc' = [x \in Procs |-> "close other"] /\ UNCHANGED <<maps, end, fdRef, pipeRef, sameRuns, cur>>
        /\ maps[Parent] \subseteq maps[Child] /\ pc[Parent] = "fork" /\ Parent \in Procs /\ Child \in Procs
    BY <1>10 DEF fork_end, checkVars, Procs
  <2>2. maps[Parent] = PipePages /\ maps[Child] = PipePages
    BY <1>4, <2>1 DEF MapsOf
  <2>3. Phases'
    BY <2>1 DEF Phases
  <2>4. \A q \in Procs : MapsOf(q)' /\ Fresh(q)' /\ LastOne(q)'
    BY <2>1, <2>2 DEF MapsOf, Fresh, LastOne, InCall, Procs
  <2> QED
    BY <1>1, <2>3, <2>4 DEF ClosedInd
<1>11. ASSUME NEW p \in Procs, close_other(p) PROVE ClosedInd'
  <2>1. CASE pc[p] = "close other"
    <3>1. maps' = [maps EXCEPT ![p] = @ \ {fd(Other(end[p]))}] /\ Go(p, "close other 2")
      BY <1>11, <2>1 DEF close_other, unmap, CloseOrder
    <3>2. maps'[p] = PipePages \ {fd(Other(end[p]))} /\ \A q \in Procs \ {p} : maps'[q] = maps[q]
      BY <1>2, <1>4, <2>1, <3>1 DEF MapsOf
    <3> QED
      BY <1>6, <2>1, <3>1, <3>2
  <2>2. CASE pc[p] = "close other 2"
    <3>1. maps' = [maps EXCEPT ![p] = @ \ {data(Other(end[p]))}] /\ Go(p, "idle")
      BY <1>11, <2>2 DEF close_other, unmap, CloseOrder
    <3>2. maps[p] = PipePages \ {fd(Other(end[p]))}
      BY <1>4, <2>2 DEF MapsOf
    <3>3. PipePages \ {fd(Other(end[p])), data(Other(end[p]))} = Own(p)
      BY <1>4, Pages DEF Own
    <3>4. maps'[p] = Own(p) /\ \A q \in Procs \ {p} : maps'[q] = maps[q]
      BY <1>2, <3>1, <3>2, <3>3
    <3> QED
      BY <1>6, <2>2, <3>1, <3>4
  <2> QED
    BY <1>11, <2>1, <2>2 DEF close_other
<1>12. ASSUME NEW p \in Procs, close(p) PROVE ClosedInd'
  <2>1. CASE pc[p] \in {"idle", "closed"}
    <3>1. maps' = [maps EXCEPT ![p] = @ \ {fd(end[p])}] /\ Go(p, "close 2")
      BY <1>12, <2>1 DEF close, unmap, CloseOrder
    <3>2. maps[p] = Own(p) /\ fd(end[p]) # data(end[p])
      BY <1>4, <2>1, Pages DEF MapsOf
    <3>3. maps'[p] = {data(end[p])} /\ \A q \in Procs \ {p} : maps'[q] = maps[q]
      BY <1>2, <3>1, <3>2 DEF Own
    <3> QED
      BY <1>6, <2>1, <3>1, <3>3
  <2>2. CASE pc[p] = "close 2"
    <3>1. maps' = [maps EXCEPT ![p] = @ \ {data(end[p])}] /\ Leave(p, "done")
      BY <1>12, <2>2 DEF close, unmap, CloseOrder
    <3>2. maps[p] = {data(end[p])}
      BY <1>4, <2>2 DEF MapsOf
    <3>3. maps'[p] = {} /\ \A q \in Procs \ {p} : maps'[q] = maps[q]
      BY <1>2, <3>1, <3>2
    <3> QED
      BY <1>7, <2>2, <3>1, <3>3
  <2> QED
    BY <1>12, <2>1, <2>2 DEF close
<1>13. ASSUME NEW p \in Procs, Begin(p) \/ wait(p) \/ transfer(p) \/ advance(p) PROVE ClosedInd'
  <2>1. pc[p] \in InCall \cup {"idle"} /\ UNCHANGED maps
    BY <1>13 DEF Begin, wait, transfer, advance, InCall
  <2>2. Go(p, "wait") \/ Go(p, "idle") \/ Go(p, "transfer") \/ Go(p, "runs") \/ Go(p, "advance")
    BY <1>13 DEF Begin, wait, transfer, advance
  <2>3. PICK next \in {"wait", "idle", "transfer", "runs", "advance"} : Go(p, next)
    BY <2>2
  <2>4. next \in InCall \cup {"idle", "closed"} /\ Fresh(p)'
    BY <1>2, <2>3 DEF InCall, Fresh, Go
  <2> QED
    BY <1>5, <2>1, <2>3, <2>4
<1>14. ASSUME NEW p \in Procs, read_runs(p) PROVE ClosedInd'
  <2>1. pc[p] = "runs" /\ Go(p, "fd_ref") /\ UNCHANGED maps
    BY <1>14 DEF read_runs
  <2>2. Fresh(p)'
    BY <1>2, <2>1 DEF Fresh, Go
  <2> QED
    BY <1>5, <2>1, <2>2 DEF InCall
<1>15. ASSUME NEW p \in Procs, read_fd_ref(p) PROVE ClosedInd'
  <2>1. /\ pc[p] = "fd_ref" /\ Go(p, "pipe_ref") /\ UNCHANGED maps
        /\ fdRef' = [fdRef EXCEPT ![p] = FdRef(end[p])]
    BY <1>15 DEF read_fd_ref
  <2>2. end' = end /\ pc'[p] = "pipe_ref" /\ fdRef'[p] = FdRef(end[p])
    BY <1>2, <1>3, <2>1 DEF Go
  <2>3. Fresh(p)'
    BY <2>1, <2>2, CountsUnchanged DEF Fresh
  <2> QED
    BY <1>5, <2>1, <2>3 DEF InCall
<1>16. ASSUME NEW p \in Procs, read_pipe_ref(p) PROVE ClosedInd'
  <2>1. /\ pc[p] = "pipe_ref" /\ Go(p, "compare") /\ UNCHANGED <<maps, fdRef, sameRuns>>
        /\ pipeRef' = [pipeRef EXCEPT ![p] = PipeRef]
    BY <1>16 DEF read_pipe_ref
  <2>2. end' = end /\ pc'[p] = "compare" /\ pipeRef'[p] = PipeRef /\ cur' = cur
    BY <1>2, <1>3, <2>1 DEF Go
  <2>3. Fresh(p)'
    BY <1>4, <2>1, <2>2, CountsUnchanged DEF Fresh
  <2> QED
    BY <1>5, <2>1, <2>3 DEF InCall
<1>17. ASSUME NEW p \in Procs, cur = p, compare(p) PROVE ClosedInd'
  <2>1. pc[p] = "compare" /\ UNCHANGED <<maps, fdRef, pipeRef>> /\ pc[p] \in InCall
    BY <1>17 DEF compare, checkVars, InCall
  <2>2. \/ Go(p, "runs")
        \/ Go(p, "closed") /\ sameRuns[p] /\ fdRef[p] = pipeRef[p]
        \/ Leave(p, "wait")
    BY <1>17 DEF compare, MustRetry
  <2>3. CASE Go(p, "runs")
    <3>1. Fresh(p)'
      BY <1>2, <2>3 DEF Fresh, Go
    <3> QED
      BY <1>5, <2>1, <2>3, <3>1 DEF InCall
  <2>4. CASE Go(p, "closed") /\ sameRuns[p] /\ fdRef[p] = pipeRef[p]
    <3>1. FdRef(end[p]) = PipeRef
      BY <1>4, <1>17, <2>1, <2>4 DEF Fresh
    <3>2. \A q \in Procs \ {p} : pc[q] = "done"
      BY <2>1, <3>1, Counts
    <3>3. Fresh(p)'
      BY <1>2, <2>4 DEF Fresh, Go
    <3> QED
      BY <1>5, <2>1, <2>4, <3>2, <3>3
  <2>5. CASE Leave(p, "wait")
    <3>1. "wait" \in Labels
      BY DEF Labels
    <3>2. pc' = [pc EXCEPT ![p] = "wait"] /\ end' = end /\ pc'[p] = "wait"
      BY <1>2, <2>5, <3>1, LeaveType
    <3>3. MapsOf(p)'
      BY <1>4, <2>1, <3>2 DEF MapsOf, Own, InCall
    <3>4. Phases' /\ \A q \in Procs : MapsOf(q)' /\ LastOne(q)'
      BY <2>1, <3>1, <3>2, <3>3, AloneStep
    <3> QED
      BY <1>1, <2>5, <3>4, LeaveFresh DEF ClosedInd
  <2> QED
    BY <2>2, <2>3, <2>4, <2>5
<1>18. ASSUME Timer PROVE ClosedInd'
  <2>1. UNCHANGED <<maps, end, pc, fdRef, pipeRef>>
    BY <1>18 DEF Timer, checkVars
  <2>2. PICK p \in Procs : env_run(p)
    BY <1>18 DEF Timer
  <2>3. \A q \in Procs : Fresh(q)'
    BY <1>3, <2>2 DEF env_run, Fresh
  <2>4. Phases' /\ \A q \in Procs : MapsOf(q)' /\ LastOne(q)'
    BY <1>4, <2>1 DEF ClosedInd, Phases, MapsOf, Own, LastOne
  <2> QED
    BY <1>1, <2>3, <2>4 DEF ClosedInd
<1>19. ASSUME UNCHANGED vars PROVE ClosedInd'
  <2>1. UNCHANGED <<maps, end, pc, fdRef, pipeRef, sameRuns, cur>>
    BY <1>19 DEF vars, checkVars
  <2>2. \A q \in Procs : Fresh(q)'
    BY <1>4, <2>1, CountsUnchanged DEF Fresh
  <2>3. Phases' /\ \A q \in Procs : MapsOf(q)' /\ LastOne(q)'
    BY <1>4, <2>1 DEF ClosedInd, Phases, MapsOf, Own, LastOne
  <2> QED
    BY <1>1, <2>2, <2>3 DEF ClosedInd
<1>20. CASE UserStep
  BY <1>8, <1>9, <1>10, <1>11, <1>12, <1>13, <1>14, <1>15, <1>16, <1>17, <1>20 DEF UserStep
<1> QED
  BY <1>18, <1>19, <1>20 DEF Next

LEMMA ClosedInit ==
  ASSUME Init
  PROVE  ClosedInd
<1>1. Ind
  BY IndInit
<1>2. \A p \in Procs : pc[p] = IF p = Parent THEN "pipe" ELSE "unborn"
  BY DEF Init
<1>3. Phases
  BY <1>2, Sizes DEF Phases, Procs
<1>4. \A p \in Procs : MapsOf(p) /\ Fresh(p) /\ LastOne(p)
  BY <1>2 DEF MapsOf, Fresh, LastOne, InCall
<1> QED
  BY <1>1, <1>3, <1>4 DEF ClosedInd

LEMMA ClosedFollows ==
  ASSUME ClosedInd
  PROVE  ClosedIsTrue
<1> SUFFICES ASSUME NEW p \in Procs, pc[p] = "closed", NEW q \in Procs
             PROVE  fd(Other(end[p])) \notin maps[q] /\ data(Other(end[p])) \notin maps[q]
  BY DEF ClosedIsTrue
<1>1. end[p] \in Ends /\ MapsOf(p) /\ MapsOf(q) /\ LastOne(p)
  BY TypeParts DEF ClosedInd, Ind, SchedType
<1>2. CASE q = p
  <2>1. maps[q] = {fd(end[p]), data(end[p])}
    BY <1>1, <1>2 DEF MapsOf, Own
  <2>2. Other(end[p]) \in Ends /\ Other(end[p]) # end[p]
    BY <1>1, Pages
  <2> QED
    BY <1>1, <2>1, <2>2, Pages
<1>3. CASE q # p
  BY <1>1, <1>3 DEF MapsOf, LastOne
<1> QED
  BY <1>2, <1>3

\* _pipe_is_closed compares two counts that other processes change one system
\* call at a time, and fork fills the child's space one page at a time.  When it
\* says "closed", the other end is mapped nowhere: a count that is stale makes
\* env_runs differ and is read again, and two counts read without a switch
\* between them differ as long as the other process has not let go of the buffer.
THEOREM ClosedSafe == Spec => []ClosedIsTrue
<1>1. Spec => []ClosedInd
  BY ClosedInit, ClosedStep, PTL DEF Spec
<1> QED
  BY <1>1, ClosedFollows, PTL

-----------------------------------------------------------------------------
(***************************************************************************)
(* The bytes between the positions are a FIFO queue.                       *)
(***************************************************************************)
\* What the reader has fetched is the byte at p_rpos, and what the writer has
\* stored is the next one.
FifoInd ==
  Ind /\ \A p \in Procs : pc[p] = "advance" =>
           /\ end[p] = "r" => rbuf = buf[rpos % BY2PIPE]
           /\ end[p] = "w" => buf[wpos % BY2PIPE] = sent + 1

Chan == [k \in 1 .. Under |-> buf[(rpos + k - 1) % BY2PIPE]]

\* A position as a place in the buffer: the modulus of the positions is a multiple
\* of the size of the buffer, so nothing breaks when they wrap around.
LEMMA Wraps ==
  ASSUME NEW r \in Positions, NEW j \in Int
  PROVE  /\ (((r + 1) % PosMod) + j) % BY2PIPE = (r + 1 + j) % BY2PIPE
         /\ \A w \in Positions : (r + Between(r, w) + j) % BY2PIPE = (w + j) % BY2PIPE
<1>0. PosMod % BY2PIPE = 0
  BY PipeAssumption, Zenon
<1>1. BY2PIPE \in Nat \ {0} /\ PosMod \in Nat /\ PosMod \in Int
  BY Sizes
<1>2. \A a \in Int : (a + PosMod) % BY2PIPE = a % BY2PIPE
  BY <1>0, <1>1, ModPlus, Zenon
<1>3. (((r + 1) % PosMod) + j) % BY2PIPE = (r + 1 + j) % BY2PIPE
  <2>1. (r + 1) % PosMod = IF r + 1 = PosMod THEN 0 ELSE r + 1
    BY NextPosition
  <2>2. CASE r + 1 = PosMod
    <3>1. ((r + 1) % PosMod) + j = j /\ r + 1 + j = j + PosMod
      BY <1>1, <2>1, <2>2
    <3> QED
      BY <1>2, <3>1
  <2>3. CASE r + 1 # PosMod
    BY <2>1, <2>3
  <2> QED
    BY <2>2, <2>3
<1>4. ASSUME NEW w \in Positions PROVE (r + Between(r, w) + j) % BY2PIPE = (w + j) % BY2PIPE
  <2>1. Between(r, w) = (IF w >= r THEN w - r ELSE w - r + PosMod) /\ Between(r, w) \in Positions
    BY Distance
  <2>2. r \in Int /\ w \in Int
    BY Sizes DEF Positions
  <2>3. PICK d \in Int : d = r + Between(r, w) + j
    BY <2>1, <2>2, Sizes DEF Positions
  <2>4. d = w + j \/ d = w + j + PosMod
    BY <1>1, <2>1, <2>2, <2>3
  <2>5. PICK a \in Int : a = w + j
    BY <2>2
  <2>6. d % BY2PIPE = a % BY2PIPE
    BY <1>2, <2>4, <2>5
  <2> QED
    BY <2>3, <2>5, <2>6
<1> QED
  BY <1>3, <1>4

LEMMA HeadAndTail ==
  ASSUME NEW S, NEW m \in Nat, m > 0, NEW f \in [1 .. m -> S], NEW g \in [1 .. m - 1 -> S],
         \A k \in 1 .. m - 1 : g[k] = f[k + 1]
  PROVE  f # <<>> /\ Head(f) = f[1] /\ Tail(f) = g
<1>1. f \in Seq(S) /\ Len(f) = m /\ g \in Seq(S) /\ Len(g) = m - 1
  OBVIOUS
<1>2. f # <<>> /\ Head(f) = f[1]
  BY <1>1
<1>3. Tail(f) \in Seq(S) /\ Len(Tail(f)) = m - 1 /\ \A k \in 1 .. m - 1 : Tail(f)[k] = f[k + 1]
  BY <1>1
<1> QED
  BY <1>1, <1>2, <1>3

LEMMA OneMore ==
  ASSUME NEW S, NEW m \in Nat, NEW f \in [1 .. m -> S], NEW g \in [1 .. m + 1 -> S],
         \A k \in 1 .. m : g[k] = f[k]
  PROVE  Len(f) = m /\ g = Append(f, g[m + 1])
<1>1. f \in Seq(S) /\ Len(f) = m /\ g \in Seq(S) /\ Len(g) = m + 1 /\ g[m + 1] \in S
  OBVIOUS
<1>2. /\ Append(f, g[m + 1]) \in Seq(S) /\ Len(Append(f, g[m + 1])) = m + 1
      /\ \A k \in 1 .. m + 1 : Append(f, g[m + 1])[k] = g[k]
  BY <1>1
<1> QED
  BY <1>1, <1>2

\* The places of the bytes under way, and that of the next byte.
LEMMA ChanPlaces ==
  ASSUME Ind
  PROVE  /\ Under \in Nat /\ Chan \in [1 .. Under -> 0 .. MaxBytes]
         /\ \A k \in 1 .. Under : (rpos + k - 1) % BY2PIPE \in 0 .. BY2PIPE - 1
         /\ (rpos + Under) % BY2PIPE = wpos % BY2PIPE
         /\ Under < BY2PIPE => \A k \in 1 .. Under : (rpos + k - 1) % BY2PIPE # wpos % BY2PIPE
         /\ Under > 0 /\ Under < BY2PIPE => rpos % BY2PIPE # wpos % BY2PIPE
<1>1. MemoryType /\ rpos \in Int /\ wpos \in Int
  BY TypeParts, Sizes DEF Ind, MemoryType, Positions
<1>2. Under \in Nat
  BY <1>1, Distance, Sizes DEF MemoryType, Under, Positions
<1>3. \A k \in 1 .. Under : (rpos + k - 1) % BY2PIPE \in 0 .. BY2PIPE - 1
  BY <1>1, <1>2, Places
<1>4. Chan \in [1 .. Under -> 0 .. MaxBytes]
  BY <1>1, <1>3 DEF Chan, MemoryType
<1>5. (rpos + Under) % BY2PIPE = wpos % BY2PIPE
  <2>1. (rpos + Under + 0) % BY2PIPE = (wpos + 0) % BY2PIPE
    BY <1>1, Wraps DEF MemoryType, Under
  <2>2. rpos + Under + 0 = rpos + Under /\ wpos + 0 = wpos
    BY <1>1, <1>2
  <2> QED
    BY <2>1, <2>2
<1>6. ASSUME Under < BY2PIPE, NEW k \in 1 .. Under
      PROVE  (rpos + k - 1) % BY2PIPE # wpos % BY2PIPE
  <2>1. PICK a \in Int, c \in Int : a = rpos + k - 1 /\ c = rpos + Under
    BY <1>1, <1>2
  <2>2. a < c /\ c < a + BY2PIPE
    BY <1>1, <1>2, <1>6, <2>1, Sizes
  <2>3. c % BY2PIPE # a % BY2PIPE
    BY <2>2, ModDiffers, Sizes
  <2> QED
    BY <1>5, <2>1, <2>3
<1>7. Under > 0 /\ Under < BY2PIPE => rpos % BY2PIPE # wpos % BY2PIPE
  <2>1. rpos + 1 - 1 = rpos
    BY <1>1
  <2>2. Under > 0 => 1 \in 1 .. Under
    BY <1>2
  <2> QED
    BY <1>6, <2>1, <2>2
<1> QED
  BY <1>2, <1>3, <1>4, <1>5, <1>6, <1>7

FifoStep == FIFO!Send \/ FIFO!Receive \/ UNCHANGED FIFO!fifoVars

LEMMA ChanIs ==
  /\ [k \in 1 .. (wpos - rpos) % PosMod |-> buf[(rpos + k - 1) % BY2PIPE]] = Chan
  /\ [k \in 1 .. (wpos' - rpos') % PosMod |-> buf'[(rpos' + k - 1) % BY2PIPE]] = Chan'
  BY DEF Chan, Under, Between

\* A step that leaves the contents alone leaves the queue alone.
LEMMA SameFifo ==
  ASSUME UNCHANGED <<buf, rpos, wpos, sent, taken>>
  PROVE  FifoStep
  BY DEF FifoStep, FIFO!fifoVars

LEMMA TransferFifo ==
  ASSUME FifoInd, NEW p \in Procs, transfer(p)
  PROVE  Chan' = Chan /\ UNCHANGED <<sent, taken>> /\ FifoInd'
<1>1. Ind /\ Ind'
  BY TransferStep DEF FifoInd
<1>2. MemoryType /\ SchedType
  BY <1>1, TypeParts DEF Ind
<1>3. UNCHANGED <<rpos, wpos, sent, taken>> /\ Under' = Under /\ end' = end /\ pc' = [pc EXCEPT ![p] = "advance"]
  <2>1. "advance" \in Labels
    BY DEF Labels
  <2> QED
    BY <1>1, <2>1, TransferCases, GoType DEF Under
<1>4. end[p] = "r" \/ end[p] = "w"
  BY <1>2 DEF SchedType, Ends
<1>5. PICK w \in 0 .. BY2PIPE - 1 : w = wpos % BY2PIPE
  BY <1>1, TransferCases
<1>6. ASSUME NEW k \in 1 .. Under
      PROVE  buf'[(rpos + k - 1) % BY2PIPE] = buf[(rpos + k - 1) % BY2PIPE]
  <2>1. PICK x \in 0 .. BY2PIPE - 1 : x = (rpos + k - 1) % BY2PIPE
    BY <1>1, ChanPlaces
  <2>2. CASE end[p] = "r"
    BY <1>1, <2>2, TransferCases
  <2>3. CASE end[p] = "w"
    <3>1. buf' = [buf EXCEPT ![w] = sent + 1] /\ Under < BY2PIPE
      BY <1>1, <1>5, <2>3, TransferCases
    <3>2. x # w
      BY <1>1, <1>5, <2>1, <3>1, ChanPlaces
    <3> QED
      BY <1>2, <2>1, <3>1, <3>2 DEF MemoryType
  <2> QED
    BY <1>4, <2>2, <2>3
<1>7. Chan' = Chan
  BY <1>3, <1>6 DEF Chan
<1>8. ASSUME NEW q \in Procs, pc'[q] = "advance"
      PROVE  (end[q] = "r" => rbuf' = buf'[rpos % BY2PIPE]) /\ (end[q] = "w" => buf'[wpos % BY2PIPE] = sent + 1)
  <2>1. CASE q = p
    <3>1. end[p] = "r" => rbuf' = buf'[rpos % BY2PIPE]
      BY <1>1, TransferCases
    <3>2. end[p] = "w" => buf' = [buf EXCEPT ![w] = sent + 1]
      BY <1>1, <1>5, TransferCases
    <3>3. end[p] = "w" => buf'[w] = sent + 1
      BY <1>2, <3>2 DEF MemoryType
    <3> QED
      BY <1>5, <2>1, <3>1, <3>3
  <2>2. CASE q # p
    <3>1. pc[q] = "advance"
      BY <1>2, <1>3, <1>8, <2>2 DEF SchedType
    <3>2. (end[q] = "r" => rbuf = buf[rpos % BY2PIPE]) /\ (end[q] = "w" => buf[wpos % BY2PIPE] = sent + 1)
      BY <3>1 DEF FifoInd
    <3>3. CASE end[p] = "r"
      BY <1>1, <2>2, <3>2, <3>3, TransferCases DEF Ind, EndsDiffer, Procs
    <3>4. CASE end[p] = "w"
      <4>1. end[q] = "r"
        BY <1>1, <1>2, <2>2, <3>4 DEF Ind, EndsDiffer, Procs, SchedType, Ends
      <4>2. Under > 0
        BY <1>1, <3>1, <4>1 DEF Ind, CallOk, Moves
      <4>3. buf' = [buf EXCEPT ![w] = sent + 1] /\ rbuf' = rbuf /\ Under < BY2PIPE
        BY <1>1, <1>5, <3>4, TransferCases
      <4>4. PICK x \in 0 .. BY2PIPE - 1 : x = rpos % BY2PIPE
        BY <1>1, TransferCases
      <4>5. x # w
        BY <1>1, <1>5, <4>2, <4>3, <4>4, ChanPlaces
      <4> QED
        BY <1>2, <3>2, <4>1, <4>3, <4>4, <4>5 DEF MemoryType
    <3> QED
      BY <1>4, <3>3, <3>4
  <2> QED
    BY <2>1, <2>2
<1> QED
  BY <1>1, <1>3, <1>7, <1>8 DEF FifoInd

LEMMA AdvanceFifo ==
  ASSUME FifoInd, NEW p \in Procs, advance(p)
  PROVE  FifoStep
<1>1. Ind /\ Ind'
  BY AdvanceStep DEF FifoInd
<1>2. MemoryType /\ MemoryType' /\ SchedType
  BY <1>1, TypeParts DEF Ind
<1>3. end[p] = "r" \/ end[p] = "w"
  BY <1>2 DEF SchedType, Ends
<1>4. Under \in Nat /\ Chan \in [1 .. Under -> 0 .. MaxBytes]
  BY <1>1, ChanPlaces
<1>5. Under' \in Nat /\ Chan' \in [1 .. Under' -> 0 .. MaxBytes]
  <2>1. Under' \in Nat
    BY <1>1, <1>3, <1>4, AdvanceCases
  <2>2. rpos' \in Int
    BY <1>2, Sizes DEF MemoryType, Positions
  <2>3. \A k \in 1 .. Under' : (rpos' + k - 1) % BY2PIPE \in 0 .. BY2PIPE - 1
    BY <2>1, <2>2, Places
  <2> QED
    BY <1>2, <2>1, <2>3 DEF Chan, MemoryType
<1>6. UNCHANGED buf /\ pc[p] = "advance"
  BY <1>1, AdvanceCases
<1>7. CASE end[p] = "r"
  <2>1. /\ Under > 0 /\ Under' = Under - 1 /\ rpos' = (rpos + 1) % PosMod /\ taken' = rbuf /\ sent' = sent
        /\ rbuf = buf[rpos % BY2PIPE]
    BY <1>1, <1>6, <1>7, AdvanceCases DEF FifoInd
  <2>2. ASSUME NEW k \in 1 .. Under - 1 PROVE Chan'[k] = Chan[k + 1]
    <3>1. rpos \in Positions /\ k - 1 \in Int
      BY <1>2, <1>4 DEF MemoryType
    <3>2. (((rpos + 1) % PosMod) + (k - 1)) % BY2PIPE = (rpos + 1 + (k - 1)) % BY2PIPE
      BY <3>1, Wraps
    <3>3. rpos \in Int /\ rpos' \in Int /\ k \in Int
      BY <1>2, <1>4, Sizes DEF MemoryType, Positions
    <3>4. rpos' + k - 1 = rpos' + (k - 1) /\ rpos + 1 + (k - 1) = rpos + (k + 1) - 1
      BY <3>3
    <3>5. (rpos' + k - 1) % BY2PIPE = (rpos + (k + 1) - 1) % BY2PIPE
      BY <2>1, <3>2, <3>4
    <3>6. k \in 1 .. Under' /\ k + 1 \in 1 .. Under
      BY <1>4, <2>1
    <3> QED
      BY <1>6, <3>5, <3>6 DEF Chan
  <2>3. Chan # <<>> /\ Head(Chan) = Chan[1] /\ Tail(Chan) = Chan'
    BY <1>4, <1>5, <2>1, <2>2, HeadAndTail
  <2>4. Chan[1] = rbuf
    <3>1. rpos + 1 - 1 = rpos /\ 1 \in 1 .. Under
      BY <1>2, <1>4, <2>1, Sizes DEF MemoryType, Positions
    <3> QED
      BY <2>1, <3>1 DEF Chan
  <2>5. FIFO!Receive
    BY <2>1, <2>3, <2>4, ChanIs DEF FIFO!Receive
  <2> QED
    BY <2>5 DEF FifoStep
<1>8. CASE end[p] = "w"
  <2>1. /\ Under < BY2PIPE /\ Under' = Under + 1 /\ rpos' = rpos /\ taken' = taken /\ sent' = sent + 1
        /\ buf[wpos % BY2PIPE] = sent + 1
    BY <1>1, <1>6, <1>8, AdvanceCases DEF FifoInd
  <2>2. \A k \in 1 .. Under : Chan'[k] = Chan[k]
    BY <1>4, <1>6, <2>1 DEF Chan
  <2>3. Chan'[Under + 1] = sent + 1
    <3>1. (rpos + Under) % BY2PIPE = wpos % BY2PIPE
      BY <1>1, ChanPlaces
    <3>2. rpos + (Under + 1) - 1 = rpos + Under /\ Under + 1 \in 1 .. Under'
      BY <1>2, <1>4, <2>1, Sizes DEF MemoryType, Positions
    <3> QED
      BY <1>6, <2>1, <3>1, <3>2 DEF Chan
  <2>4. Len(Chan) = Under /\ Chan' = Append(Chan, Chan'[Under + 1])
    BY <1>4, <1>5, <2>1, <2>2, OneMore
  <2>5. FIFO!Send
    BY <2>1, <2>3, <2>4, ChanIs DEF FIFO!Send
  <2> QED
    BY <2>5 DEF FifoStep
<1> QED
  BY <1>3, <1>7, <1>8

LEMMA FifoIndStep ==
  ASSUME FifoInd, [Next]_vars
  PROVE  FifoInd' /\ [FIFO!Send \/ FIFO!Receive]_(FIFO!fifoVars)
<1>1. Ind /\ Ind' /\ pc \in [Procs -> Labels]
  BY IndStep, TypeParts DEF FifoInd, Ind, SchedType
\* Nothing but transfer gets a process to advance.
<1>2. ASSUME NEW p \in Procs, NEW next \in Labels \ {"advance"}, Go(p, next) \/ Leave(p, next),
             UNCHANGED <<buf, rpos, wpos, sent>>, rbuf' = rbuf
      PROVE  FifoInd'
  BY <1>1, <1>2 DEF FifoInd, Go, Leave
<1>3. ASSUME NEW p \in Procs, Quiet(p) PROVE FifoInd' /\ FifoStep
  <2>1. UNCHANGED <<buf, rpos, wpos, sent, taken, rbuf>>
    BY <1>3 DEF Quiet, pipe, fork_dup, fork_end, close_other, close, wait, read_runs, read_fd_ref,
           read_pipe_ref, compare, pipeVars, callVars, ghosts
  <2>2. ASSUME fork_end(p) PROVE FifoInd'
    <3>1. pc' = [x \in Procs |-> "close other"]
      BY <2>2 DEF fork_end
    <3> QED
      BY <1>1, <3>1 DEF FifoInd
  <2>3. ASSUME ~fork_end(p) PROVE FifoInd'
    <3>1. PICK next \in {"fork", "done", "close other 2", "idle", "close 2", "transfer", "runs",
                         "fd_ref", "pipe_ref", "compare", "closed", "wait"} : Go(p, next) \/ Leave(p, next)
      BY <1>3, <2>3 DEF Quiet, pipe, fork_dup, close_other, close, wait, read_runs, read_fd_ref,
           read_pipe_ref, compare
    <3>2. next \in Labels \ {"advance"}
      BY DEF Labels
    <3> QED
      BY <1>2, <2>1, <3>1, <3>2
  <2> QED
    BY <2>1, <2>2, <2>3, SameFifo
<1>4. ASSUME NEW p \in Procs, Begin(p) PROVE FifoInd' /\ FifoStep
  <2>1. UNCHANGED <<buf, rpos, wpos, sent, taken, rbuf>> /\ Go(p, "wait") /\ "wait" \in Labels \ {"advance"}
    BY <1>4 DEF Begin, pipeVars, ghosts, Labels
  <2> QED
    BY <1>2, <2>1, SameFifo
<1>5. ASSUME NEW p \in Procs, transfer(p) PROVE FifoInd' /\ FifoStep
  <2>1. Chan' = Chan /\ UNCHANGED <<sent, taken>> /\ FifoInd'
    BY <1>5, TransferFifo
  <2> QED
    BY <2>1, ChanIs DEF FifoStep, FIFO!fifoVars
<1>6. ASSUME NEW p \in Procs, advance(p) PROVE FifoInd' /\ FifoStep
  <2>1. Go(p, "wait") /\ UNCHANGED <<buf, rbuf>> /\ pc' = [pc EXCEPT ![p] = "wait"] /\ end' = end
    BY <1>6 DEF advance, Go
  <2>2. ASSUME NEW q \in Procs, pc'[q] = "advance"
        PROVE  (end[q] = "r" => rbuf = buf[rpos' % BY2PIPE]) /\ (end[q] = "w" => buf[wpos' % BY2PIPE] = sent' + 1)
    <3>1. q # p /\ pc[q] = "advance" /\ end[q] # end[p] /\ end[q] \in Ends /\ end[p] \in Ends
      BY <1>1, <2>1, <2>2, TypeParts DEF Ind, EndsDiffer, Procs, SchedType
    <3>2. (end[q] = "r" => rpos' = rpos) /\ (end[q] = "w" => wpos' = wpos /\ sent' = sent)
      BY <1>1, <1>6, <3>1, AdvanceCases DEF Ends
    <3>3. (end[q] = "r" => rbuf = buf[rpos % BY2PIPE]) /\ (end[q] = "w" => buf[wpos % BY2PIPE] = sent + 1)
      BY <3>1 DEF FifoInd
    <3> QED
      BY <3>2, <3>3
  <2>3. FifoInd'
    BY <1>1, <2>1, <2>2 DEF FifoInd
  <2> QED
    BY <1>6, <2>3, AdvanceFifo
<1>7. ASSUME Timer \/ UNCHANGED vars PROVE FifoInd' /\ FifoStep
  <2>1. UNCHANGED <<buf, rpos, wpos, sent, taken, rbuf, pc, end>>
    BY <1>7 DEF Timer, vars, pipeVars, callVars, ghosts
  <2> QED
    BY <1>1, <2>1, SameFifo DEF FifoInd
<1>8. FifoInd' /\ FifoStep
  BY <1>3, <1>4, <1>5, <1>6, <1>7, ByAction
<1> QED
  BY <1>8 DEF FifoStep

LEMMA FifoIndInit ==
  ASSUME Init
  PROVE  FifoInd /\ FIFO!FifoInit
<1>1. Ind /\ sent = 0 /\ taken = 0 /\ rpos = wpos
  BY IndInit DEF Init
<1>2. Under = 0
  BY <1>1, TypeParts, Distance DEF Ind, MemoryType, Under
<1>3. Chan = <<>>
  BY <1>2 DEF Chan
<1>4. FifoInd
  BY <1>1 DEF Init, FifoInd
<1> QED
  BY <1>1, <1>3, <1>4, ChanIs DEF FIFO!FifoInit

\* The two ends share nothing but the buffer and the two positions.  Whatever the
\* order of the stores to p_buf, p_rpos and p_wpos, the bytes that pipe_write
\* accepts are the ones pipe_read delivers, in the same order, none lost or
\* doubled, and at most BY2PIPE of them are under way, also when the positions
\* wrap around.
THEOREM FifoImplemented == Spec => ImplementsFifo
<1>1. Init => FifoInd /\ FIFO!FifoInit
  BY FifoIndInit
<1>2. FifoInd /\ [Next]_vars => FifoInd' /\ [FIFO!Send \/ FIFO!Receive]_(FIFO!fifoVars)
  BY FifoIndStep
<1> QED
  BY <1>1, <1>2, PTL DEF Spec, ImplementsFifo, FIFO!FifoSpec

=============================================================================
