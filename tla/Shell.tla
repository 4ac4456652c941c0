-------------------------------- MODULE Shell --------------------------------
(***************************************************************************)
(* The shell: user/sh.c, with fork, spawn and wait of user/lib, the        *)
(* descriptors that the processes of one command line share, and the       *)
(* programs at the ends of its pipes.                                      *)
(*                                                                         *)
(* For every command line the shell forks.  The child reads the line from  *)
(* left to right, changes its own descriptors 0 and 1 and forks again as   *)
(* the symbols tell it, and spawns what it has read up to there; whoever   *)
(* forked waits.  The end of a pipe's input is not sent by anyone: a pipe  *)
(* is closed when the mappings of an end's Fd page and of the buffer have  *)
(* become equally many (_pipe_is_closed), with all the processes of the    *)
(* line mapping and unmapping these pages one system call at a time.       *)
(*                                                                         *)
(* Module Pipe looks into pipe_read and pipe_write of two processes; here  *)
(* a pipe is the number of bytes in it, and there are many processes.      *)
(***************************************************************************)
EXTENDS Integers, Sequences, FiniteSets, SequencesExt, FiniteSetsExt

CONSTANTS MaxProcs,  \* bound: environments that are ever created
          MAXFD,     \* descriptors of a process
          BY2PIPE,   \* size of a pipe's buffer
          Bytes,     \* what a program reads from the console or a file, in bytes
          Lines,     \* the command lines, as sequences of tokens
          NIL

Symbols  == {"<", ">", "|", ";", "&"}
\* A program that only writes, one that copies descriptor 0 to 1, a command
\* that does not exist, and a file.
Words    == {"echo", "cat", "none", "file"}

ASSUME ShellAssumption ==
  /\ MaxProcs \in Nat \ {0} /\ MAXFD \in Nat /\ MAXFD > 5
  /\ BY2PIPE \in Nat \ {0} /\ Bytes \in Nat
  /\ Lines \subseteq Seq(Symbols \union Words)

Procs == 1 .. MaxProcs      \* in the order of their creation
Root  == 1                  \* the shell that reads the lines
Fds   == 0 .. MAXFD - 1

\* Where the pages behind descriptor n of a process are: INDEX2FD and INDEX2DATA,
\* numbered in the order of their addresses.
fd(n)   == n
data(n) == MAXFD + n
Slots   == 0 .. 2 * MAXFD - 1

\* What can be mapped there: the Fd page of an end of a pipe, its buffer, the
\* Fd of the console, and that of a file, whose data pages are left out.
Page(k, what) == [pipe |-> k, what |-> what]
Ends          == {"r", "w"}
Other(e)      == IF e = "r" THEN "w" ELSE "r"
Pages         == [pipe : 0 .. MaxProcs, what : Ends \union {"buf", "cons", "file"}]

ASSUME NilAssumption == NIL \notin Procs /\ NIL \notin Words /\ NIL \notin Pages

VARIABLES
  map,      \* map[p]: the page in each slot of process p, or NIL
  used,     \* used[k]: bytes in the buffer of pipe k
  status,   \* "free", "new" (not yet runnable), "run" or "gone"
  proc      \* what each process is doing

vars == <<map, used, status, proc>>

(* proc[p] has the fields                                                  *)
(*   at     where p is in its program                                      *)
(*   line   the tokens gettoken has still to return                        *)
(*   word   argv[0], NIL while argc is 0; of a program, which one it is    *)
(*   kid    the environment that spawn returned                            *)
(*   right  *rightpipe: the environment fork returned, NIL for 0           *)
(*   todo   the system calls on pages p is about to make, one after another *)
(*   left, hold   of a program: bytes it will still produce, and whether   *)
(*          it has one to write                                            *)
Fresh(where, tokens, word, todo) ==
  [at |-> where, line |-> tokens, word |-> word, kid |-> NIL, right |-> NIL,
   todo |-> todo, left |-> Bytes, hold |-> FALSE]

At(p, where) == status[p] = "run" /\ proc[p].todo = <<>> /\ proc[p].at = where
Gone(p)      == IF p = NIL THEN TRUE ELSE status[p] = "gone"
NextId       == Min({q \in Procs : status[q] = "free"})   \* sys_exofork's answer
Room         == \E q \in Procs : status[q] = "free"       \* bound: see MaxProcs

-----------------------------------------------------------------------------
(* Sequences of system calls, computed for the mappings m of the process   *)
(* that makes them.                                                        *)

Map(q, slot, page)   == [call |-> "map", who |-> q, slot |-> slot, page |-> page]
Unmap(q, slot, page) == [call |-> "unmap", who |-> q, slot |-> slot, page |-> page]
Start(q)             == [call |-> "start", who |-> q, slot |-> fd(0), page |-> NIL]

IsPipe(page) == page # NIL /\ page.what \in Ends
\* Nobody counts the mappings of the other pages.
Silent(c)    == c.call # "start" /\ c.page.pipe = 0

\* Mutant: the buffer is unmapped before the Fd page.
close_data_first(p, m, n) ==
  CASE m[fd(n)] = NIL    -> <<>>
    [] IsPipe(m[fd(n)])  -> <<Unmap(p, data(n), m[data(n)]), Unmap(p, fd(n), m[fd(n)])>>
    [] OTHER             -> <<Unmap(p, fd(n), m[fd(n)])>>

\* close: pipe_close unmaps the Fd page and then the buffer.
close(p, m, n) ==
  CASE m[fd(n)] = NIL    -> <<>>
    [] IsPipe(m[fd(n)])  -> <<Unmap(p, fd(n), m[fd(n)]), Unmap(p, data(n), m[data(n)])>>
    [] OTHER             -> <<Unmap(p, fd(n), m[fd(n)])>>

close_all(p, m) == FlattenSeq([k \in 1 .. MAXFD |-> close(p, m, k - 1)])

\* dup: the data page before the Fd page.
dup(p, m, old, new) ==
  close(p, m, new) \o
  (IF m[data(old)] = NIL THEN <<>> ELSE <<Map(p, data(new), m[data(old)])>>) \o
  <<Map(p, fd(new), m[fd(old)])>>

\* What fork and spawn do for child q: the shared pages by address, then the status.
Share(q, m) ==
  FlattenSeq([k \in 1 .. 2 * MAXFD |-> IF m[k - 1] = NIL THEN <<>> ELSE <<Map(q, k - 1, m[k - 1])>>])
    \o <<Start(q)>>

\* The lowest descriptor that is not in use; the last one is never tried.
fd_alloc(m) == Min({n \in Fds \ {MAXFD - 1} : m[fd(n)] = NIL})

Effect(m, c) == CASE c.call = "map"   -> [m EXCEPT ![c.who][c.slot] = c.page]
                  [] c.call = "unmap" -> [m EXCEPT ![c.who][c.slot] = NIL]
                  [] OTHER            -> m

\* One of these calls, and in the same step those after it that are silent.
Syscall(p) ==
  /\ status[p] = "run" /\ proc[p].todo # <<>>
  /\ LET calls == proc[p].todo
         n     == Max({k \in DOMAIN calls : \A j \in 2 .. k : Silent(calls[j])})
         after[k \in 0 .. n] == IF k = 0 THEN map ELSE Effect(after[k - 1], calls[k])
     IN  /\ map' = after[n]
         /\ status' = IF calls[1].call = "start"
                        THEN [status EXCEPT ![calls[1].who] = "run"] ELSE status
         /\ proc' = [proc EXCEPT ![p].todo = SubSeq(calls, n + 1, Len(calls))]
  /\ UNCHANGED used

-----------------------------------------------------------------------------
(* main, parsecmd and runcmd.                                              *)

\* Process p forks: p goes on as `parent', with the calls that fork makes
\* before those it has to do, and the child as `child'.
fork(p, m, parent, child) ==
  /\ Room
  /\ status' = [status EXCEPT ![NextId] = "new"]
  /\ proc' = [proc EXCEPT ![p] = [parent EXCEPT !.right = NextId, !.todo = Share(NextId, m) \o @],
                          ![NextId] = child]

\* main reads a line, forks a child for it and waits.
Command(line) ==
  /\ At(Root, "main") /\ proc[Root].line = <<>>
  /\ fork(Root, map[Root], [proc[Root] EXCEPT !.at = "wait_line", !.line = line],
          Fresh("parse", line, NIL, <<>>))
  /\ UNCHANGED <<map, used>>

\* The words up to the next symbol, the symbol, and what is behind it.  Only the
\* first word of a command matters here.
Parsing(p)  == At(p, "parse")
NextSym(p)  == SelectInSeq(proc[p].line, LAMBDA t : t \in Symbols)
Token(p)    == IF NextSym(p) = 0 THEN "end" ELSE proc[p].line[NextSym(p)]
Rest(p)     == SubSeq(proc[p].line, NextSym(p) + 1, Len(proc[p].line))
Argv0(p)    == IF proc[p].word # NIL \/ NextSym(p) = 1 \/ proc[p].line = <<>>
                 THEN proc[p].word ELSE Head(proc[p].line)

\* '<' and '>': open the file, or create it and open it again, dup it onto 0 or 1, and
\* close the first descriptor.  If the file cannot be opened even then, dup and close
\* get an error for a descriptor and do nothing; if it cannot be created, or no word
\* follows, exit.
Redirect(p) ==
  /\ Parsing(p) /\ Token(p) \in {"<", ">"}
  /\ LET words == Rest(p)
         named == words # <<>> /\ Head(words) \in Words
         n     == fd_alloc(map[p])
         m     == [map[p] EXCEPT ![fd(n)] = Page(0, "file")]
     IN  \/ /\ named
            /\ map' = [map EXCEPT ![p] = m]
            /\ proc' = [proc EXCEPT ![p].line = Tail(words), ![p].word = Argv0(p),
                 ![p].todo = dup(p, m, n, IF Token(p) = "<" THEN 0 ELSE 1) \o close(p, m, n)]
         \/ /\ named
            /\ proc' = [proc EXCEPT ![p].line = Tail(words), ![p].word = Argv0(p)]
            /\ UNCHANGED map
         \/ /\ proc' = [proc EXCEPT ![p].at = "exit", ![p].todo = close_all(p, map[p])]
            /\ UNCHANGED map
  /\ UNCHANGED <<used, status>>

\* pipe(): two descriptors and the buffer.  Nobody else can see them yet.
NewPipe(k, m, r, w) ==
  [m EXCEPT ![fd(r)] = Page(k, "r"), ![fd(w)] = Page(k, "w"),
            ![data(r)] = Page(k, "buf"), ![data(w)] = Page(k, "buf")]

\* '|': the child takes the read end as 0 and goes on with the line, the parent
\* takes the write end as 1 and runs what it has read.
Pipeline(p) ==
  /\ Parsing(p) /\ Token(p) = "|"
  /\ LET r    == fd_alloc(map[p])
         w    == fd_alloc([map[p] EXCEPT ![fd(r)] = Page(0, "file")])
         m    == NewPipe(Len(used) + 1, map[p], r, w)
     IN  /\ map' = [map EXCEPT ![p] = m]
         /\ used' = Append(used, 0)
         /\ fork(p, m,
                 [proc[p] EXCEPT !.at = "spawn", !.line = Rest(p), !.word = Argv0(p),
                    !.todo = dup(p, m, w, 1) \o close(p, m, w) \o close(p, m, r)],
                 Fresh("parse", Rest(p), NIL,
                    dup(NextId, m, r, 0) \o close(NextId, m, r) \o close(NextId, m, w)))

\* ';' and '&': the child runs what was read; the parent goes on with the line,
\* after the child has ended or at once.
Sequence(p) ==
  /\ Parsing(p) /\ Token(p) \in {";", "&"}
  /\ fork(p, map[p],
          [proc[p] EXCEPT !.at = IF Token(p) = ";" THEN "wait_then" ELSE "parse",
                          !.line = Rest(p), !.word = NIL],
          Fresh("spawn", Rest(p), Argv0(p), <<>>))
  /\ UNCHANGED <<map, used>>

\* spawn opens the program and reads its header before it creates an environment.
Runs(w) == w \in {"echo", "cat"}

\* Mutant: runcmd waits for its program before it closes its descriptors.
Spawn_keep_open(p) ==
  /\ At(p, "spawn") \/ (Parsing(p) /\ Token(p) = "end")
  /\ LET w == IF proc[p].at = "parse" THEN Argv0(p) ELSE proc[p].word IN
       IF ~ Runs(w)
         THEN /\ proc' = [proc EXCEPT ![p].at = "exit", ![p].todo = close_all(p, map[p])]
              /\ UNCHANGED status
         ELSE /\ status' = [status EXCEPT ![NextId] = "new"]
              /\ proc' = [proc EXCEPT ![p].at = "wait_kid", ![p].kid = NextId,
                                      ![p].todo = Share(NextId, map[p]),
                                      ![NextId] = Fresh("program", <<>>, w, <<>>)]
  /\ UNCHANGED <<map, used>>

\* runcmd after parsecmd, also at the end of the line: nothing to run, or spawn and
\* close_all, and wait for the program if there is one.
Spawn(p) ==
  /\ At(p, "spawn") \/ (Parsing(p) /\ Token(p) = "end")
  /\ LET w == IF proc[p].at = "parse" THEN Argv0(p) ELSE proc[p].word IN
       IF Runs(w)
         THEN /\ Room
              /\ status' = [status EXCEPT ![NextId] = "new"]
              /\ proc' = [proc EXCEPT
                            ![p].at = "wait_kid", ![p].kid = NextId,
                            ![p].todo = Share(NextId, map[p]) \o close_all(p, map[p]),
                            ![NextId] = Fresh("program", <<>>, w, <<>>)]
         ELSE /\ proc' = [proc EXCEPT ![p].at = IF w = NIL THEN "exit" ELSE "wait_right",
                                      ![p].todo = close_all(p, map[p])]
              /\ UNCHANGED status
  /\ UNCHANGED <<map, used>>

\* wait: until the environment is free.
wait(p, from, envid, to) ==
  /\ At(p, from) /\ Gone(envid)
  /\ proc' = [proc EXCEPT ![p].at = to,
                          ![p].todo = IF to = "exit" THEN close_all(p, map[p]) ELSE <<>>]
  /\ UNCHANGED <<map, used, status>>

\* Mutant: runcmd waits for its program only.
Wait_kid_only(p) ==
  \/ wait(p, "wait_line", proc[p].right, "main")
  \/ wait(p, "wait_then", proc[p].right, "parse")
  \/ wait(p, "wait_kid", proc[p].kid, "exit")
  \/ wait(p, "wait_right", proc[p].right, "exit")

\* For the line, at a ';', for the program, and for the right side of a pipe.
Wait(p) ==
  \/ wait(p, "wait_line", proc[p].right, "main")
  \/ wait(p, "wait_then", proc[p].right, "parse")
  \/ wait(p, "wait_kid", proc[p].kid, "wait_right")
  \/ wait(p, "wait_right", proc[p].right, "exit")

\* exit, after its close_all: env_free unmaps whatever is left.
Exit(p) ==
  /\ At(p, "exit")
  /\ status' = [status EXCEPT ![p] = "gone"]
  /\ map' = [map EXCEPT ![p] = [s \in Slots |-> NIL]]
  /\ proc' = [proc EXCEPT ![p] = Fresh("none", <<>>, NIL, <<>>)]
  /\ UNCHANGED used

-----------------------------------------------------------------------------
(* The programs: a byte is fetched, then written to descriptor 1.          *)

Refs(page) == Cardinality({x \in Procs \X Slots : map[x[1]][x[2]] = page})

\* _pipe_is_closed of the pipe behind descriptor n.
Closed(p, n) == Refs(map[p][fd(n)]) = Refs(map[p][data(n)])

Pipe(p, n)   == map[p][fd(n)].pipe
Stop(p)      == [proc EXCEPT ![p].at = "exit", ![p].todo = close_all(p, map[p])]
Source(p)    == proc[p].word = "echo" \/ ~ IsPipe(map[p][fd(0)])

\* A byte to write: one of its own, from the console or a file (up to Bytes of
\* them), or the one fetched from the pipe.
HasByte(p) == proc[p].hold \/ (Source(p) /\ proc[p].left > 0)

\* read, when there is nothing left to write: no more from a source; with an empty
\* buffer, pipe_read asks whether to go on.
Fetch(p) ==
  /\ At(p, "program") /\ ~ HasByte(p)
  /\ IF Source(p) \/ used[Pipe(p, 0)] = 0
       THEN /\ proc' = IF Source(p) THEN Stop(p) ELSE [proc EXCEPT ![p].at = "ask"]
            /\ UNCHANGED used
       ELSE /\ proc' = [proc EXCEPT ![p].hold = TRUE]
            /\ used' = [used EXCEPT ![Pipe(p, 0)] = @ - 1]
  /\ UNCHANGED <<map, status>>

\* Mutant: pipe_write does not look whether the buffer is full.
Put_overfull(p) ==
  /\ At(p, "program") /\ HasByte(p)
  /\ LET piped == IsPipe(map[p][fd(1)]) IN
       /\ proc' = IF proc[p].hold THEN [proc EXCEPT ![p].hold = FALSE]
                                  ELSE [proc EXCEPT ![p].left = @ - 1]
       /\ used' = IF piped THEN [used EXCEPT ![Pipe(p, 1)] = @ + 1] ELSE used
  /\ UNCHANGED <<map, status>>

\* write of one byte.  With the buffer full, pipe_write asks whether to go on.
Put(p) ==
  /\ At(p, "program") /\ HasByte(p)
  /\ LET piped == IsPipe(map[p][fd(1)]) IN
       IF piped /\ used[Pipe(p, 1)] = BY2PIPE
         THEN proc' = [proc EXCEPT ![p].at = "ask"] /\ UNCHANGED used
         ELSE /\ proc' = IF proc[p].hold THEN [proc EXCEPT ![p].hold = FALSE]
                                         ELSE [proc EXCEPT ![p].left = @ - 1]
              /\ used' = IF piped THEN [used EXCEPT ![Pipe(p, 1)] = @ + 1] ELSE used
  /\ UNCHANGED <<map, status>>

\* A closed pipe ends the program, a reader with the end of its input and a
\* writer with a short count.  Otherwise it yields and looks at the buffer again,
\* until there is something for it to do.
Ask(p) ==
  /\ At(p, "ask")
  /\ LET n == IF HasByte(p) THEN 1 ELSE 0
         k == Pipe(p, n)
     IN  IF Closed(p, n)
           THEN proc' = Stop(p)
           ELSE /\ used[k] # (IF HasByte(p) THEN BY2PIPE ELSE 0)
                /\ proc' = [proc EXCEPT ![p].at = "program"]
  /\ UNCHANGED <<map, used, status>>

-----------------------------------------------------------------------------
\* init has opened the console as 0 and duplicated it as 1, and spawned the shell,
\* which keeps .history open as 2 (init_history), as everybody it forks does.
Init ==
  /\ map = [p \in Procs |-> [s \in Slots |->
              CASE p = Root /\ s \in {fd(0), fd(1)} -> Page(0, "cons")
                [] p = Root /\ s = fd(2)            -> Page(0, "file")
                [] OTHER                            -> NIL]]
  /\ used = <<>>
  /\ status = [p \in Procs |-> IF p = Root THEN "run" ELSE "free"]
  /\ proc = [p \in Procs |-> Fresh(IF p = Root THEN "main" ELSE "none", <<>>, NIL, <<>>)]

Step(p) ==
  \/ Syscall(p) \/ Redirect(p) \/ Pipeline(p) \/ Sequence(p) \/ Spawn(p)
  \/ Wait(p) \/ Exit(p) \/ Fetch(p) \/ Put(p) \/ Ask(p)

Next == (\E line \in Lines : Command(line)) \/ \E p \in Procs : Step(p)

\* A line is typed, and while some process has a step to take, one is taken: much
\* less than the turns that every environment gets (NoStarvation of module Env).
Spec == Init /\ [][Next]_vars /\ WF_vars(Next)

-----------------------------------------------------------------------------
\* The types of the variables.
TypeOK ==
  /\ map \in [Procs -> [Slots -> Pages \union {NIL}]]
  /\ \A k \in DOMAIN used : used[k] \in 0 .. BY2PIPE
  /\ status \in [Procs -> {"free", "new", "run", "gone"}]
  /\ \A p \in Procs : /\ proc[p].word \in Words \union {NIL}
                       /\ proc[p].kid \in Procs \union {NIL} /\ proc[p].right \in Procs \union {NIL}
                       /\ proc[p].left \in 0 .. Bytes /\ proc[p].hold \in BOOLEAN

\* A program that asks whether its pipe is closed is told so only if nobody has
\* the other end any more, however the line's other processes are just passing
\* descriptors on and closing them (fork.c:132, spawn.c:203, fd.c:136, pipe.c:241).
\* It is about lines without a '&' behind a '|': at the right of a pipe a '&' passes
\* the read end on while the program before it reads, and the two counts are equal
\* in between although a writer is there (AmpLines of MCShell).
ClosedIsTrue ==
  \A p \in Procs, n \in {0, 1} :
    status[p] = "run" /\ proc[p].at \in {"program", "ask"} /\ IsPipe(map[p][fd(n)]) /\ Closed(p, n)
      => Refs(Page(Pipe(p, n), Other(map[p][fd(n)].what))) = 0

\* When the shell is back at its prompt, every process of the line has ended, at
\* whichever stage of a pipe it was, unless the line has a '&': runcmd waits for
\* its program and for the right side of its pipe (sh.c:213-221).  It is about pipes
\* with a command at their left: without one runcmd returns before it waits (sh.c:206),
\* and the right side of `| cat' goes on behind the prompt.
PromptComesLast ==
  At(Root, "main") /\ ~ Contains(proc[Root].line, "&")
    => \A p \in Procs \ {Root} : status[p] \in {"free", "gone"}

\* Every line comes to its end, with all of its processes: nobody keeps an end of
\* a pipe open that somebody else waits for to be closed (sh.c:172-182, 212).
EveryLineEnds == <>[](At(Root, "main") /\ \A p \in Procs \ {Root} : status[p] \in {"free", "gone"})

=============================================================================
