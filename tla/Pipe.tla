-------------------------------- MODULE Pipe --------------------------------
(***************************************************************************)
(* Pipes between a parent and its child: user/lib/pipe.c, with the parts   *)
(* of user/lib/pageref.c, fd.c and fork.c it rests on.                     *)
(*                                                                         *)
(* A pipe is three shared pages: the Fd of the read end, the Fd of the     *)
(* write end, and the buffer, which is mapped once for each end.  There is *)
(* no record of who has the pipe open: _pipe_is_closed compares the        *)
(* reference count of its own Fd with that of the buffer, while others     *)
(* map and unmap these pages one system call at a time.                    *)
(*                                                                         *)
(* All of this is user code on one CPU.  A step is one access to shared    *)
(* memory or one system call of the process that runs; the timer may       *)
(* switch processes between any two steps.                                 *)
(***************************************************************************)
EXTENDS Integers, Sequences, FiniteSets

CONSTANTS Parent, Child,
          BY2PIPE,   \* size of the buffer
          PosMod,    \* p_rpos and p_wpos count modulo this (2^32)
          MaxN,      \* bound: bytes asked for in one call
          MaxBytes,  \* bound: bytes written altogether
          Quanta     \* lengths of a time slice, in steps, to consider

ASSUME PipeAssumption ==
  /\ Parent # Child
  /\ BY2PIPE \in Nat \ {0} /\ PosMod \in Nat /\ PosMod > BY2PIPE /\ PosMod % BY2PIPE = 0
  /\ MaxN \in Nat \ {0} /\ MaxBytes \in Nat /\ Quanta \subseteq Nat

Procs == {Parent, Child}

\* The pages a process can have mapped, and the order of their addresses.
fd(end)   == <<"fd", end>>
data(end) == <<"data", end>>
Ends      == {"r", "w"}
PageOrder == <<fd("r"), fd("w"), data("r"), data("w")>>
PipePages == {PageOrder[k] : k \in 1 .. 4}

VARIABLES
  maps,    \* which of them each process has mapped
  buf, rpos, wpos,
  end,     \* the end each process is going to use
  pc,      \* where in its program each process is
  n, i,    \* arguments and loop counters of pipe_read and pipe_write
  rbuf,    \* the byte pipe_read has fetched
  fdRef, pipeRef,  \* locals of _pipe_is_closed
  sameRuns,        \* env_runs is what _pipe_is_closed read into `runs'
  cur,     \* the process that runs
  quantum, \* at least this many steps are between two timer interrupts
  since,   \* steps since the last one, up to quantum
  sent, taken      \* how many bytes were written, and the last one read

pipeVars  == <<buf, rpos, wpos>>
callVars  == <<n, i, rbuf>>
checkVars == <<fdRef, pipeRef>>
ghosts    == <<sent, taken>>
vars == <<maps, pipeVars, end, pc, callVars, checkVars, sameRuns, cur, quantum, since, ghosts>>

Other(e) == IF e = "r" THEN "w" ELSE "r"
Reader == CHOOSE p \in Procs : end[p] = "r"
Writer == CHOOSE p \in Procs : end[p] = "w"

\* pageref: pp_ref of the page.  Each Fd is mapped once per process, the
\* buffer once per end.
FdRef(e) == Cardinality({p \in Procs : fd(e) \in maps[p]})
PipeRef  == Cardinality({x \in Procs \X Ends : data(x[2]) \in maps[x[1]]})

-----------------------------------------------------------------------------
(***************************************************************************)
(* Scheduling.  env_run increments env_runs of the process it switches to. *)
(***************************************************************************)
Runs(p) == pc[p] \notin {"unborn", "done"}

env_run(p) ==
  /\ cur' = p
  /\ sameRuns' = [sameRuns EXCEPT ![p] = FALSE]

Timer ==
  /\ since = quantum
  /\ \E p \in Procs : Runs(p) /\ env_run(p)
  /\ since' = 0
  /\ UNCHANGED <<maps, pipeVars, quantum, end, pc, callVars, checkVars, ghosts>>

\* A step of p that goes on at `next' without giving up the CPU.
Go(p, next) ==
  /\ cur = p
  /\ pc' = [pc EXCEPT ![p] = next]
  /\ since' = IF since < quantum THEN since + 1 ELSE since
  /\ UNCHANGED <<cur, quantum, end>>

\* A step of p that gives it up: syscall_yield, or the end of p.
Leave(p, next) ==
  /\ cur = p
  /\ pc' = [pc EXCEPT ![p] = next]
  /\ since' = IF since < quantum THEN since + 1 ELSE since
  /\ UNCHANGED <<quantum, end>>
  /\ LET q == {x \in Procs \ {p} : Runs(x)} IN
     IF q # {} THEN \E x \in q : env_run(x)
     ELSE IF next # "done" THEN env_run(p)
     ELSE UNCHANGED <<cur, sameRuns>>

-----------------------------------------------------------------------------
(***************************************************************************)
(* pipe and fork, by the parent.                                           *)
(***************************************************************************)
\* pipe: maps the four pages in order; if the k-th call fails, the labels err
\* to err3 unmap what is there.
pipe(p) ==
  /\ pc[p] = "pipe"
  /\ \E k \in 1 .. 5 :
       IF k = 5
       THEN /\ maps' = [maps EXCEPT ![p] = PipePages]
            /\ Go(p, "fork") /\ UNCHANGED sameRuns
       ELSE /\ maps' = [maps EXCEPT ![p] = {}]
            /\ Leave(p, "done")
  /\ UNCHANGED <<pipeVars, callVars, checkVars, ghosts>>

\* fork: duppage shares the next page in address order that the child lacks.
fork_dup(p) ==
  /\ pc[p] = "fork"
  /\ maps[p] \ maps[Child] # {}
  /\ \E k \in 1 .. 4 :
       /\ PageOrder[k] \in maps[p] \ maps[Child]
       /\ \A j \in 1 .. k - 1 : PageOrder[j] \notin maps[p] \ maps[Child]
       /\ maps' = [maps EXCEPT ![Child] = @ \cup {PageOrder[k]}]
  /\ Go(p, "fork")
  /\ UNCHANGED <<pipeVars, callVars, checkVars, sameRuns, ghosts>>

\* The end of fork: both processes start to close the end they do not use.
fork_end(p) ==
  /\ pc[p] = "fork"
  /\ maps[p] \subseteq maps[Child]
  /\ cur = p
  /\ pc' = [x \in Procs |-> "close other"]
  /\ UNCHANGED <<maps, pipeVars, end, callVars, checkVars, sameRuns, cur, quantum, since, ghosts>>

-----------------------------------------------------------------------------
(***************************************************************************)
(* close: pipe_close unmaps the Fd, then the buffer.                       *)
(***************************************************************************)
unmap(p, page) == maps' = [maps EXCEPT ![p] = @ \ {page}]

CloseOrder(e) == <<fd(e), data(e)>>

close_other(p) ==
  /\ \/ /\ pc[p] = "close other"
        /\ unmap(p, CloseOrder(Other(end[p]))[1])
        /\ Go(p, "close other 2")
     \/ /\ pc[p] = "close other 2"
        /\ unmap(p, CloseOrder(Other(end[p]))[2])
        /\ Go(p, "idle")
  /\ UNCHANGED <<pipeVars, callVars, checkVars, sameRuns, ghosts>>

\* A process that has enough, or that got less than it asked for, closes its end.
close(p) ==
  /\ \/ /\ pc[p] \in {"idle", "closed"}
        /\ unmap(p, CloseOrder(end[p])[1])
        /\ Go(p, "close 2")
        /\ UNCHANGED sameRuns
     \/ /\ pc[p] = "close 2"
        /\ unmap(p, CloseOrder(end[p])[2])
        /\ Leave(p, "done")
  /\ UNCHANGED <<pipeVars, callVars, checkVars, ghosts>>

-----------------------------------------------------------------------------
(***************************************************************************)
(* pipe_read and pipe_write share their shape: a loop over the n bytes, in *)
(* it a loop that waits while the buffer is empty or full.                 *)
(***************************************************************************)
Begin(p) ==
  /\ pc[p] = "idle"
  /\ \E k \in 1 .. MaxN :
       /\ p = Writer => sent + k <= MaxBytes
       /\ n' = [n EXCEPT ![p] = k]
  /\ i' = [i EXCEPT ![p] = 0]
  /\ Go(p, "wait")
  /\ UNCHANGED <<maps, pipeVars, rbuf, checkVars, sameRuns, ghosts>>

\* Mutant: the buffer counts as full one byte late.
BlockedLate(p) == IF p = Reader THEN rpos = wpos ELSE (wpos - rpos) % PosMod = BY2PIPE + 1

Blocked(p) == IF p = Reader THEN rpos = wpos ELSE (wpos - rpos) % PosMod = BY2PIPE

\* The loop conditions.  A reader that has something returns instead of waiting.
wait(p) ==
  /\ pc[p] = "wait"
  /\ IF i[p] = n[p] THEN Go(p, "idle")
     ELSE IF ~Blocked(p) THEN Go(p, "transfer")
     ELSE IF p = Reader /\ i[p] > 0 THEN Go(p, "idle")
     ELSE Go(p, "runs")
  /\ UNCHANGED <<maps, pipeVars, callVars, checkVars, sameRuns, ghosts>>

\* Mutant: the writer stores one place ahead of p_wpos.
transfer_ahead(p) ==
  /\ pc[p] = "transfer"
  /\ IF p = Reader
     THEN rbuf' = buf[rpos % BY2PIPE] /\ UNCHANGED buf
     ELSE buf' = [buf EXCEPT ![(wpos + 1) % BY2PIPE] = sent + 1] /\ UNCHANGED rbuf
  /\ Go(p, "advance")
  /\ UNCHANGED <<maps, rpos, wpos, n, i, checkVars, sameRuns, ghosts>>

\* One byte is copied between the caller's buffer and p_buf.
transfer(p) ==
  /\ pc[p] = "transfer"
  /\ IF p = Reader
     THEN rbuf' = buf[rpos % BY2PIPE] /\ UNCHANGED buf
     ELSE buf' = [buf EXCEPT ![wpos % BY2PIPE] = sent + 1] /\ UNCHANGED rbuf
  /\ Go(p, "advance")
  /\ UNCHANGED <<maps, rpos, wpos, n, i, checkVars, sameRuns, ghosts>>

\* p_rpos++ or p_wpos++, and i++.
advance(p) ==
  /\ pc[p] = "advance"
  /\ IF p = Reader
     THEN /\ rpos' = (rpos + 1) % PosMod
          /\ taken' = rbuf
          /\ UNCHANGED <<wpos, sent>>
     ELSE /\ wpos' = (wpos + 1) % PosMod
          /\ sent' = sent + 1
          /\ UNCHANGED <<rpos, taken>>
  /\ i' = [i EXCEPT ![p] = @ + 1]
  /\ Go(p, "wait")
  /\ UNCHANGED <<maps, buf, n, rbuf, checkVars, sameRuns>>

-----------------------------------------------------------------------------
(***************************************************************************)
(* _pipe_is_closed, one access at a time.                                  *)
(***************************************************************************)
read_runs(p) ==
  /\ pc[p] = "runs"
  /\ sameRuns' = [sameRuns EXCEPT ![p] = TRUE]
  /\ Go(p, "fd_ref")
  /\ UNCHANGED <<maps, pipeVars, callVars, checkVars, ghosts>>

read_fd_ref(p) ==
  /\ pc[p] = "fd_ref"
  /\ fdRef' = [fdRef EXCEPT ![p] = FdRef(end[p])]
  /\ Go(p, "pipe_ref")
  /\ UNCHANGED <<maps, pipeVars, callVars, pipeRef, sameRuns, ghosts>>

read_pipe_ref(p) ==
  /\ pc[p] = "pipe_ref"
  /\ pipeRef' = [pipeRef EXCEPT ![p] = PipeRef]
  /\ Go(p, "compare")
  /\ UNCHANGED <<maps, pipeVars, callVars, fdRef, sameRuns, ghosts>>

\* Mutants: the counts are believed even if the process was switched out
\* between them; the counts are never believed.
MustRetryNever(p) == FALSE
MustRetryAlways(p) == TRUE

MustRetry(p) == ~sameRuns[p]

\* Retry, or return: the call is over if the pipe is closed (with i bytes, 0 for
\* a reader), and otherwise waits by yielding.
compare(p) ==
  /\ pc[p] = "compare"
  /\ IF MustRetry(p) THEN Go(p, "runs") /\ UNCHANGED sameRuns
     ELSE IF fdRef[p] = pipeRef[p] THEN Go(p, "closed") /\ UNCHANGED sameRuns
     ELSE Leave(p, "wait")
  /\ UNCHANGED <<maps, pipeVars, callVars, checkVars, ghosts>>

-----------------------------------------------------------------------------
UserStep ==
  \/ pipe(Parent) \/ fork_dup(Parent) \/ fork_end(Parent)
  \/ \E p \in Procs :
       \/ cur = p /\ close_other(p)
       \/ cur = p /\ close(p)
       \/ cur = p /\ Begin(p)
       \/ cur = p /\ wait(p)
       \/ cur = p /\ transfer(p)
       \/ cur = p /\ advance(p)
       \/ cur = p /\ read_runs(p)
       \/ cur = p /\ read_fd_ref(p)
       \/ cur = p /\ read_pipe_ref(p)
       \/ cur = p /\ compare(p)

Next == UserStep \/ Timer

Init ==
  /\ maps = [p \in Procs |-> {}]
  /\ buf = [k \in 0 .. BY2PIPE - 1 |-> 0] /\ rpos = 0 /\ wpos = 0
  /\ end \in {f \in [Procs -> Ends] : f[Parent] # f[Child]}
  /\ pc = [p \in Procs |-> IF p = Parent THEN "pipe" ELSE "unborn"]
  /\ n = [p \in Procs |-> 0] /\ i = [p \in Procs |-> 0] /\ rbuf = 0
  /\ fdRef = [p \in Procs |-> 0] /\ pipeRef = [p \in Procs |-> 0]
  /\ sameRuns = [p \in Procs |-> FALSE]
  /\ cur = Parent
  /\ quantum \in Quanta /\ since = 0
  /\ sent = 0 /\ taken = 0

Spec == Init /\ [][Next]_vars

\* The CPU does not stop executing the process that runs.
FairSpec == Spec /\ WF_vars(UserStep)

-----------------------------------------------------------------------------
(***************************************************************************)
(* Properties.                                                             *)
(***************************************************************************)
\* Both the positions and the counters stay in range, and the buffer never
\* holds more than it has room for.
TypeOK ==
  /\ maps \in [Procs -> SUBSET PipePages]
  /\ buf \in [0 .. BY2PIPE - 1 -> 0 .. MaxBytes]
  /\ rpos \in 0 .. PosMod - 1 /\ wpos \in 0 .. PosMod - 1
  /\ (wpos - rpos) % PosMod <= BY2PIPE
  /\ end \in [Procs -> Ends]
  /\ pc \in [Procs -> {"pipe", "fork", "unborn", "close other", "close other 2", "idle", "wait",
                       "transfer", "advance", "runs", "fd_ref", "pipe_ref", "compare", "closed",
                       "close 2", "done"}]
  /\ n \in [Procs -> 0 .. MaxN] /\ i \in [Procs -> 0 .. MaxN] /\ rbuf \in 0 .. MaxBytes
  /\ fdRef \in [Procs -> 0 .. 2] /\ pipeRef \in [Procs -> 0 .. 4]
  /\ sameRuns \in [Procs -> BOOLEAN]
  /\ cur \in Procs /\ quantum \in Quanta /\ since \in 0 .. quantum
  /\ sent \in 0 .. MaxBytes /\ taken \in 0 .. MaxBytes

\* Bytes come out of the pipe in the order they went in, whatever the timer
\* does between the store to p_buf and the increment of p_wpos, and when the
\* positions wrap around.
FIFO == INSTANCE Fifo WITH
          N    <- BY2PIPE,
          chan <- [k \in 1 .. (wpos - rpos) % PosMod |-> buf[(rpos + k - 1) % BY2PIPE]],
          in   <- sent,
          out  <- taken

ImplementsFifo == FIFO!FifoSpec

\* _pipe_is_closed says "closed" only if nobody has the other end any more: no
\* order of the two processes' unmaps and reads of the counts, and no fork that
\* is half done, makes the counts agree by accident.
ClosedIsTrue ==
  \A p \in Procs : pc[p] = "closed" =>
    \A q \in Procs : fd(Other(end[p])) \notin maps[q] /\ data(Other(end[p])) \notin maps[q]

\* pipe.c:122: pipe_read returns 0 only if the pipe is closed and nothing has
\* been written since the last read.
EofMeansEmpty ==
  pc[Reader] = "closed" => rpos = wpos

\* Every program of reads or writes comes to an end, if a time slice is long
\* enough for a round of the loops: no process waits for ever for a byte, for
\* room or for the other to close, nor retries for ever.
AllDone == quantum > 0 => <>(\A p \in Procs : ~Runs(p))
=============================================================================
