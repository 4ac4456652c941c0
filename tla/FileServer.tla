----------------------------- MODULE FileServer -----------------------------
(***************************************************************************)
(* The file server and its clients: the open file table and the main loop  *)
(* of fs/serv.c, the requests of user/lib/fsipc.c over ipc_send and        *)
(* ipc_recv of user/lib/ipc.c, the calls of user/lib/file.c that make      *)
(* them, and the descriptors of user/lib/fd.c that processes share.        *)
(*                                                                         *)
(* A descriptor is a page, the Filefd, that the server and every process   *)
(* which holds the descriptor have mapped; the number of mappings is all   *)
(* the server knows of who uses an entry of its table.  The contents of a  *)
(* file are the server's cached blocks, mapped one by one by request.      *)
(*                                                                         *)
(* There is one file here.  What the server does with blocks is abstracted *)
(* to which of them the file has; module Fs has the rest.  Sizes are in    *)
(* blocks.                                                                 *)
(***************************************************************************)
EXTENDS Integers, FiniteSets

CONSTANTS Procs, Root,
          MAXFD,      \* descriptors of a process
          MAXOPEN,    \* entries of the open file table
          Blocks,     \* disk blocks for data
          MaxSize,    \* bound: blocks in the file
          MaxCalls,   \* bound: calls of the library altogether
          NIL

ASSUME FileServerAssumption ==
  /\ IsFiniteSet(Procs) /\ Root \in Procs /\ NIL \notin Procs /\ NIL \notin Blocks
  /\ MAXFD \in Nat \ {0} /\ MAXOPEN \in Nat \ {0} /\ MaxSize \in Nat \ {0} /\ MaxCalls \in Nat
  /\ Blocks \subseteq Nat \ {0}

Fds     == 0 .. MAXFD - 1
Entries == 0 .. MAXOPEN - 1
Indices == 0 .. MaxSize - 1
Private == 0                     \* a page of the process's own where a block should be

VARIABLES
  opentab,  \* o_fileid of each entry, and whether its Filefd page was ever allocated
  filefd,   \* the Filefd page of each entry: f_fileid and f_size
  file,     \* f_size and the blocks of the file
  dirty,    \* blocks with PTE_DIRTY
  unsaved,  \* blocks that hold something the disk does not
  server,   \* what the server does, for whom, and the reply it has
  status,   \* of each process: "unborn", "run" or "done"
  fds,      \* fds[p][n]: the entry whose page is mapped as descriptor n, and the
            \* fileid it had when p got it
  data,     \* data[p][n]: the pages mapped from fd2data on
  call,     \* the library call a process is in, NIL if none
  ipc,      \* where it is in fsipc, with the request and the reply
  calls,    \* how many calls were made so far
  failed    \* fileids of those whose last change of size failed half way

serverVars == <<opentab, file, dirty>>
procVars   == <<status, calls, failed>>
vars == <<serverVars, filefd, unsaved, server, procVars, fds, data, call, ipc>>

-----------------------------------------------------------------------------
(***************************************************************************)
(* IPC: fsipc in the client, the main loop in the server.                  *)
(***************************************************************************)
Silent  == [at |-> "no"]
Waiting == [at |-> "recv"]

\* The request goes to fsipcbuf, and ipc_send starts to try.
fsipc(p, request, c) ==
  /\ ipc' = [ipc EXCEPT ![p] = [at |-> "send", request |-> request]]
  /\ call' = [call EXCEPT ![p] = c]

Request(type, id, i) == [type |-> type, id |-> id, i |-> i]

\* Mutant: ipc_send gives up if the server is not waiting.
ipc_send_once(p) ==
  /\ ipc[p].at = "send"
  /\ server' = IF server = Waiting THEN [at |-> "serve", whom |-> p] ELSE server
  /\ ipc' = [ipc EXCEPT ![p].at = "sent"]

\* ipc_send yields and tries again until the server waits for a message.
ipc_send(p) ==
  /\ ipc[p].at = "send"
  /\ server = Waiting
  /\ server' = [at |-> "serve", whom |-> p]
  /\ ipc' = [ipc EXCEPT ![p].at = "sent"]

Send(p) == ipc_send(p) /\ UNCHANGED <<serverVars, filefd, unsaved, procVars, fds, data, call>>

ipc_recv(p) ==
  /\ ipc[p].at = "sent"
  /\ ipc' = [ipc EXCEPT ![p].at = "recv"]
  /\ UNCHANGED <<serverVars, filefd, unsaved, server, procVars, fds, data, call>>


\* Mutant: the reply is sent whether or not the client waits for it.
Receiving_any(p) == TRUE

Receiving(p) == ipc[p].at = "recv"

\* The reply: ipc_send waits for the client, and the kernel maps the page that
\* comes with it where the client asked for it.  Then the server waits again.
SendReply ==
  /\ server.at = "send" /\ Receiving(server.whom)
  /\ \E p \in {server.whom}, page \in {server.page} :
       /\ ipc' = [ipc EXCEPT ![p] = IF @.at = "recv" THEN [at |-> "got", r |-> server.r] ELSE @]
       /\ fds' = IF page.kind # "Filefd" THEN fds
                 ELSE [fds EXCEPT ![p][call[p].n] = [o |-> page.o, fileid |-> filefd[page.o].fileid]]
       /\ data' = IF page.kind # "block" THEN data
                  ELSE [data EXCEPT ![p][call[p].n][call[p].i] = page.b]
  /\ server' = Waiting
  /\ UNCHANGED <<serverVars, filefd, unsaved, procVars, call>>

-----------------------------------------------------------------------------
(***************************************************************************)
(* The open file table.                                                    *)
(***************************************************************************)
\* pageref of the Filefd page: the server's mapping and those of descriptors.
Holders(o) == {x \in Procs \X Fds : fds[x[1]][x[2]] # NIL /\ fds[x[1]][x[2]].o = o}
pageref(o) == (IF opentab[o].page THEN 1 ELSE 0) + Cardinality(Holders(o))

\* Mutant: an entry with one descriptor counts as unused.
Unused_shared(o) == pageref(o) <= 2

Unused(o) == pageref(o) <= 1

\* open_alloc: the first unused entry gets its next fileid.
open_alloc == {o \in Entries : Unused(o) /\ \A x \in 0 .. o - 1 : ~Unused(x)}

\* open_lookup: the entry of a fileid, if there is one.
open_lookup(id) ==
  {o \in {id % MAXOPEN} : pageref(o) # 1 /\ opentab[o].fileid = id}

-----------------------------------------------------------------------------
(***************************************************************************)
(* The blocks of the file (fs.c).                                          *)
(***************************************************************************)
Held == {file.block[i] : i \in Indices}

\* file_get_block: the block at i, allocated if there is none.  Yields the block,
\* with the file that has it.
GetBlock(i) ==
  IF file.block[i] # NIL THEN {[file |-> file, b |-> file.block[i]]}
  ELSE {[file |-> [file EXCEPT !.block[i] = b], b |-> b] :
          b \in {x \in Blocks \ Held : \A y \in Blocks \ Held : x <= y}}

\* file_set_size: f_size / BY2BLK + 1 blocks count as those of the file.
Truncated(size) ==
  [size |-> size,
   block |-> [i \in Indices |-> IF (size = 0 \/ i > size) /\ i <= file.size THEN NIL ELSE file.block[i]]]

file_set_size(size) ==
  IF size < file.size THEN Truncated(size) ELSE [file EXCEPT !.size = size]

\* file_flush: the dirty blocks up to the one past the size.
Flushed == unsaved \ (dirty \cap {file.block[i] : i \in {x \in Indices : x <= file.size}})

-----------------------------------------------------------------------------
(***************************************************************************)
(* The requests.                                                           *)
(***************************************************************************)
reply(p, r, page) == server' = [at |-> "send", whom |-> p, r |-> r, page |-> page]
NoPage == [kind |-> "none"]
Ok(p)  == reply(p, "ok", NoPage)
Err(p) == reply(p, "error", NoPage)

\* serve_open.  The entry is taken before the path is looked up.  On a full table
\* the code goes on with an entry it has not got: the server is lost.
serve_open(p, rq) ==
  IF open_alloc = {} THEN server' = [at |-> "lost"] /\ UNCHANGED <<serverVars, filefd, unsaved>>
  ELSE \E o \in open_alloc, id \in {opentab[x].fileid + MAXOPEN : x \in open_alloc} :
    /\ opentab' = [opentab EXCEPT ![o] = [fileid |-> id, page |-> TRUE]]
    /\ filefd' = [filefd EXCEPT ![o] = IF rq.found THEN [fileid |-> id, size |-> file.size]
                                       ELSE [fileid |-> 0, size |-> 0]]
    /\ IF rq.found THEN reply(p, "ok", [kind |-> "Filefd", o |-> o]) ELSE Err(p)
    /\ UNCHANGED <<file, dirty, unsaved>>

\* The requests about an open file: `served' if the entry is found.
Lookup(p, rq, served(_)) ==
  IF open_lookup(rq.id) = {}
  THEN Err(p) /\ UNCHANGED <<serverVars, filefd, unsaved>>
  ELSE \E o \in open_lookup(rq.id) : served(o)

\* file_get_block may fail where there is no block: other files fill the disk, and
\* other programs the memory for its cache page.
WithBlock(p, i, served(_)) ==
  \/ /\ file.block[i] = NIL
     /\ Err(p) /\ UNCHANGED <<serverVars, filefd, unsaved>>
  \/ \E g \in GetBlock(i) : file' = g.file /\ served(g.b)

serve_map(p, rq) ==
  Lookup(p, rq, LAMBDA o : WithBlock(p, rq.i, LAMBDA b :
    /\ reply(p, "ok", [kind |-> "block", b |-> b])
    /\ UNCHANGED <<opentab, filefd, dirty, unsaved>>))

\* file_dirty does not allocate.  The block is in the cache: a client that calls
\* has mapped it before.
serve_dirty(p, rq) ==
  Lookup(p, rq, LAMBDA o :
    /\ IF file.block[rq.i] = NIL THEN Err(p) /\ UNCHANGED dirty
       ELSE Ok(p) /\ dirty' = dirty \cup {file.block[rq.i]}
    /\ UNCHANGED <<opentab, filefd, file, unsaved>>)

serve_set_size(p, rq) ==
  Lookup(p, rq, LAMBDA o :
    /\ file' = file_set_size(rq.i) /\ Ok(p)
    /\ UNCHANGED <<opentab, filefd, dirty, unsaved>>)

serve_close(p, rq) ==
  Lookup(p, rq, LAMBDA o :
    /\ unsaved' = Flushed /\ Ok(p)
    /\ UNCHANGED <<serverVars, filefd>>)

\* fs_sync writes every dirty block.
serve_sync(p) ==
  /\ unsaved' = unsaved \ dirty /\ Ok(p)
  /\ UNCHANGED <<serverVars, filefd>>

serve ==
  /\ server.at = "serve"
  /\ \E p \in {server.whom}, rq \in {ipc[server.whom].request} :
       \/ rq.type = "OPEN" /\ serve_open(p, rq)
       \/ rq.type = "MAP" /\ serve_map(p, rq)
       \/ rq.type = "SET_SIZE" /\ serve_set_size(p, rq)
       \/ rq.type = "DIRTY" /\ serve_dirty(p, rq)
       \/ rq.type = "CLOSE" /\ serve_close(p, rq)
       \/ rq.type = "SYNC" /\ serve_sync(p)
  /\ UNCHANGED <<procVars, fds, data, call, ipc>>

-----------------------------------------------------------------------------
(***************************************************************************)
(* The calls of the library.  `call' holds their locals: where the call is *)
(* (at), its descriptor n, the loop counter i and its limit, the old size, *)
(* and what is to follow (then, arg).                                      *)
(***************************************************************************)
Call(op, n) == [op |-> op, at |-> op, n |-> n, i |-> 0, limit |-> 0, old |-> 0, then |-> "", arg |-> 0]

Idle(p)    == status[p] = "run" /\ call[p] = NIL
Open(p, n) == fds[p][n] # NIL
Fd(p, n)   == filefd[fds[p][n].o]
Others(p)  == {q \in Procs \ {p} : call[q] # NIL}

\* Every call begins and ends with one of these.
Count    == calls < MaxCalls /\ calls' = calls + 1
Begin(p) == Idle(p) /\ Count /\ UNCHANGED <<status, failed>>

Return(p) ==
  /\ call' = [call EXCEPT ![p] = NIL]
  /\ ipc' = [ipc EXCEPT ![p] = Silent]

\* The rules of careful programs.  Who changes the size of a file has the only
\* descriptor of it, and nobody opens it meanwhile.  After such a change has failed
\* the descriptor is only closed.
Alone(p, n) ==
  /\ \A q \in Procs, m \in Fds : Open(q, m) => q = p /\ m = n
  /\ \A q \in Others(p) : call[q].op # "open"
Usable(p, n) == fds[p][n].fileid \notin failed
Quiet(p)     == \A q \in Others(p) : call[q].op # "truncate"

\* The answer has come, and the call goes on.
Got(p, op, at) == ipc[p].at = "got" /\ call[p].op = op /\ call[p].at = at
Good(p)        == ipc[p].r = "ok"

\* Whether the loop of MAP requests goes on, and its next request.
Left(c) == c.i < c.limit

MapNext(p, c) == fsipc(p, Request("MAP", Fd(p, c.n).fileid, c.i), [c EXCEPT !.at = "map"])

(***************************************************************************)
(* open                                                                    *)
(***************************************************************************)
\* The smallest descriptor that is not mapped, never the last one.
fd_alloc(p) == {n \in 0 .. MAXFD - 2 : ~Open(p, n) /\ \A m \in 0 .. n - 1 : Open(p, m)}

open(p) ==
  /\ Begin(p) /\ Quiet(p)
  /\ \E n \in fd_alloc(p), found \in BOOLEAN :
       fsipc(p, [type |-> "OPEN", found |-> found], Call("open", n))
  /\ UNCHANGED <<serverVars, filefd, unsaved, server, fds, data>>

OpenNext(p, c) == IF Left(c) THEN MapNext(p, c) ELSE Return(p)

\* The answer to OPEN: the blocks below the size in the descriptor are to be mapped.
open_got(p) ==
  /\ Got(p, "open", "open")
  /\ IF Good(p) THEN OpenNext(p, [call[p] EXCEPT !.limit = Fd(p, call[p].n).size])
     ELSE Return(p)
  /\ UNCHANGED <<serverVars, filefd, unsaved, server, procVars, fds, data>>

\* The answer to MAP.  An error ends the call: it returns 0.
open_mapped(p) ==
  /\ Got(p, "open", "map")
  /\ IF Good(p) THEN OpenNext(p, [call[p] EXCEPT !.i = @ + 1]) ELSE Return(p)
  /\ UNCHANGED <<serverVars, filefd, unsaved, server, procVars, fds, data>>

(***************************************************************************)
(* ftruncate and write                                                     *)
(***************************************************************************)
\* memcpy into the page at i.  Where no page is mapped the process gets one of its own.
Store(p, n, i) ==
  LET page == data[p][n][i] IN
  /\ data' = IF page = NIL THEN [data EXCEPT ![p][n][i] = Private] ELSE data
  /\ unsaved' = unsaved \cup ({page} \ {NIL, Private})

\* ftruncate: the size in the descriptor is changed before the server is asked.
resize(p, n, size, then) ==
  /\ Alone(p, n) /\ Usable(p, n) /\ Quiet(p)
  /\ filefd' = [filefd EXCEPT ![fds[p][n].o].size = size]
  /\ fsipc(p, Request("SET_SIZE", Fd(p, n).fileid, size),
           [Call("truncate", n) EXCEPT !.i = Fd(p, n).size, !.old = Fd(p, n).size, !.limit = size, !.then = then])
  /\ UNCHANGED <<serverVars, unsaved, server, fds, data>>

ftruncate(p) ==
  /\ Begin(p)
  /\ \E n \in Fds, size \in 0 .. MaxSize : Open(p, n) /\ resize(p, n, size, "")

\* file_write at block i, in the file or past its end.
write(p) ==
  /\ Begin(p)
  /\ \E n \in Fds, i \in Indices :
       /\ Open(p, n) /\ Usable(p, n)
       /\ IF i + 1 > Fd(p, n).size THEN resize(p, n, i + 1, "write")
          ELSE Store(p, n, i) /\ UNCHANGED <<serverVars, filefd, server, fds, call, ipc>>

\* Mutant: the pages above the new size stay mapped.
unmap_above_none(p, c) == UNCHANGED data

\* The pages of a file that became shorter are unmapped.
unmap_above(p, c) ==
  data' = [data EXCEPT ![p][c.n] = [i \in Indices |-> IF c.limit <= i /\ i < c.old THEN NIL ELSE @[i]]]

\* The last steps: unmap, and for write, copy.
truncated(p, c) ==
  /\ Return(p)
  /\ IF c.then = "write" THEN Store(p, c.n, c.limit - 1) ELSE unmap_above(p, c) /\ UNCHANGED unsaved

TruncateNext(p, c) ==
  IF Left(c) THEN MapNext(p, c) /\ UNCHANGED <<data, unsaved>>
  ELSE truncated(p, c)

Failed(p) == failed' = failed \cup {fds[p][call[p].n].fileid}

\* The answer to SET_SIZE: the new blocks are to be mapped.
truncate_set(p) ==
  /\ Got(p, "truncate", "truncate")
  /\ IF Good(p) THEN TruncateNext(p, call[p]) /\ UNCHANGED failed
     ELSE Return(p) /\ Failed(p) /\ UNCHANGED <<data, unsaved>>
  /\ UNCHANGED <<serverVars, filefd, server, status, calls, fds>>

\* The answer to MAP.  After an error the server is told the old size again, but the
\* descriptor is left as it is.
truncate_mapped(p) ==
  /\ Got(p, "truncate", "map")
  /\ IF Good(p) THEN TruncateNext(p, [call[p] EXCEPT !.i = @ + 1]) /\ UNCHANGED failed
     ELSE /\ fsipc(p, Request("SET_SIZE", Fd(p, call[p].n).fileid, call[p].old), [call[p] EXCEPT !.at = "back"])
          /\ Failed(p) /\ UNCHANGED <<data, unsaved>>
  /\ UNCHANGED <<serverVars, filefd, server, status, calls, fds>>

truncate_back(p) ==
  /\ Got(p, "truncate", "back") /\ Return(p)
  /\ UNCHANGED <<serverVars, filefd, unsaved, server, procVars, fds, data>>

(***************************************************************************)
(* close, dup, sync, fork and exit                                         *)
(***************************************************************************)
\* Mutant: the last block is not marked dirty.
DirtyNext_short(p, c, id) ==
  IF c.i + 1 < c.limit THEN fsipc(p, Request("DIRTY", id, c.i), [c EXCEPT !.at = "dirty", !.i = @ + 1])
  ELSE fsipc(p, Request("CLOSE", id, 0), [c EXCEPT !.at = "flush"])

\* Mutant: DIRTY for a block past the end, too.
DirtyNext_long(p, c, id) ==
  IF c.i <= c.limit THEN fsipc(p, Request("DIRTY", id, c.i), [c EXCEPT !.at = "dirty", !.i = @ + 1])
  ELSE fsipc(p, Request("CLOSE", id, 0), [c EXCEPT !.at = "flush"])

\* file_close: DIRTY for each block, then CLOSE.
DirtyNext(p, c, id) ==
  IF c.i < c.limit THEN fsipc(p, Request("DIRTY", id, c.i), [c EXCEPT !.at = "dirty", !.i = @ + 1])
  ELSE fsipc(p, Request("CLOSE", id, 0), [c EXCEPT !.at = "flush"])

CloseBegin(p, c) ==
  /\ DirtyNext(p, [c EXCEPT !.limit = Fd(p, c.n).size], Fd(p, c.n).fileid)
  /\ UNCHANGED <<serverVars, filefd, unsaved, server, fds, data>>

close(p) ==
  /\ Begin(p)
  /\ \E n \in Fds : Open(p, n) /\ CloseBegin(p, Call("close", n))

\* The answer to DIRTY is not looked at.
close_dirtied(p) ==
  /\ Got(p, "close", "dirty")
  /\ DirtyNext(p, call[p], Fd(p, call[p].n).fileid)
  /\ UNCHANGED <<serverVars, filefd, unsaved, server, procVars, fds, data>>

\* dup maps what is mapped of the old descriptor's pages, the descriptor last.
Mapped(pages, n, m) ==
  [pages EXCEPT ![n] = [i \in Indices |-> IF pages[m][i] # NIL THEN pages[m][i] ELSE @[i]]]

\* The answer to CLOSE.  The pages are unmapped unless it is an error, the descriptor
\* always.
close_flushed(p) ==
  /\ Got(p, "close", "flush")
  /\ LET c     == call[p]
         below == IF Good(p) THEN c.limit ELSE 0
         pages == [data[p] EXCEPT ![c.n] = [i \in Indices |-> IF i < below THEN NIL ELSE @[i]]]
     IN  /\ data' = [data EXCEPT ![p] = IF c.then = "dup" THEN Mapped(pages, c.n, c.arg) ELSE pages]
         /\ fds' = [fds EXCEPT ![p][c.n] = IF c.then = "dup" THEN fds[p][c.arg] ELSE NIL]
  /\ Return(p)
  /\ UNCHANGED <<serverVars, filefd, unsaved, server, procVars>>

\* dup to another number, which is closed first.
dup(p) ==
  /\ Begin(p)
  /\ \E m, n \in Fds :
       /\ Open(p, m) /\ m # n
       /\ IF Open(p, n) THEN CloseBegin(p, [Call("close", n) EXCEPT !.then = "dup", !.arg = m])
          ELSE /\ data' = [data EXCEPT ![p] = Mapped(@, n, m)]
               /\ fds' = [fds EXCEPT ![p][n] = fds[p][m]]
               /\ UNCHANGED <<serverVars, filefd, unsaved, server, call, ipc>>

sync(p) ==
  /\ Begin(p)
  /\ fsipc(p, [type |-> "SYNC"], Call("sync", 0))
  /\ UNCHANGED <<serverVars, filefd, unsaved, server, fds, data>>

sync_got(p) ==
  /\ Got(p, "sync", "sync") /\ Return(p)
  /\ UNCHANGED <<serverVars, filefd, unsaved, server, procVars, fds, data>>

\* fork: the child shares the descriptors and the blocks, which are PTE_LIBRARY.
fork(p, q) ==
  /\ Idle(p) /\ status[q] = "unborn" /\ Count
  /\ status' = [status EXCEPT ![q] = "run"]
  /\ fds' = [fds EXCEPT ![q] = fds[p]]
  /\ data' = [data EXCEPT ![q] = data[p]]
  /\ UNCHANGED <<serverVars, filefd, unsaved, server, failed, call, ipc>>

\* exit: close_all, then sys_env_destroy.
exit(p) ==
  /\ Idle(p)
  /\ status' = [status EXCEPT ![p] = "exit"]
  /\ UNCHANGED <<serverVars, filefd, unsaved, server, calls, failed, fds, data, call, ipc>>

close_all(p) ==
  /\ status[p] = "exit" /\ call[p] = NIL
  /\ \/ \E n \in Fds : /\ Open(p, n) /\ \A m \in 0 .. n - 1 : ~Open(p, m)
                       /\ CloseBegin(p, Call("close", n)) /\ UNCHANGED status
     \/ /\ \A n \in Fds : ~Open(p, n)
        /\ status' = [status EXCEPT ![p] = "done"]
        /\ UNCHANGED <<serverVars, filefd, unsaved, server, fds, data, call, ipc>>
  /\ UNCHANGED <<calls, failed>>

-----------------------------------------------------------------------------
NoFds   == [n \in Fds |-> NIL]
NoPages == [n \in Fds |-> [i \in Indices |-> NIL]]

\* serve_init; one process runs, the others run or wait to be forked.  The file has
\* the blocks that its size asks for.
Init ==
  /\ opentab = [o \in Entries |-> [fileid |-> o, page |-> FALSE]]
  /\ filefd = [o \in Entries |-> [fileid |-> 0, size |-> 0]]
  /\ \E b \in [Indices -> Blocks \cup {NIL}] :
       /\ \A i, j \in Indices : b[i] = b[j] /\ b[i] # NIL => i = j
       /\ \A i \in Indices : b[i] # NIL => b[i] = i + 1 /\ \A j \in 0 .. i : b[j] # NIL
       /\ file = [size |-> Cardinality({i \in Indices : b[i] # NIL}), block |-> b]
  /\ dirty = {} /\ unsaved = {} /\ server = Waiting
  /\ status \in {s \in [Procs -> {"unborn", "run"}] : s[Root] = "run"}
  /\ fds = [p \in Procs |-> NoFds] /\ data = [p \in Procs |-> NoPages]
  /\ call = [p \in Procs |-> NIL] /\ ipc = [p \in Procs |-> Silent]
  /\ calls = 0 /\ failed = {}

\* What a process does on its own once it is in a call or in exit.
GoOn(p) ==
  \/ Send(p) \/ ipc_recv(p)
  \/ open_got(p) \/ open_mapped(p)
  \/ truncate_set(p) \/ truncate_mapped(p) \/ truncate_back(p)
  \/ close_dirtied(p) \/ close_flushed(p) \/ sync_got(p) \/ close_all(p)

Next ==
  \/ serve \/ SendReply
  \/ \E p \in Procs :
       \/ open(p) \/ ftruncate(p) \/ write(p) \/ close(p) \/ dup(p) \/ sync(p) \/ exit(p)
       \/ \E q \in Procs : fork(p, q)
       \/ GoOn(p)

\* The scheduler runs the server and every process again and again (module Env).
Spec == Init /\ [][Next]_vars /\ WF_vars(serve) /\ WF_vars(SendReply) /\ \A p \in Procs : WF_vars(GoOn(p))

-----------------------------------------------------------------------------
(***************************************************************************)
(* Properties.                                                             *)
(***************************************************************************)
CallType == [op : {"open", "truncate", "close", "sync"},
             at : {"open", "map", "truncate", "back", "close", "dirty", "flush", "sync"},
             n : Fds, i : 0 .. MaxSize, limit : 0 .. MaxSize, old : 0 .. MaxSize,
             then : {"", "write", "dup"}, arg : Fds]
Descriptors == [o : Entries, fileid : Nat]

\* NIL is none of the records in whose place it stands.
ASSUME NilAssumption == NIL \notin CallType /\ NIL \notin Descriptors

\* Type invariant.
TypeOK ==
  /\ opentab \in [Entries -> [fileid : Nat, page : BOOLEAN]]
  /\ filefd \in [Entries -> [fileid : Nat, size : 0 .. MaxSize]]
  /\ file \in [size : 0 .. MaxSize, block : [Indices -> Blocks \cup {NIL}]]
  /\ dirty \subseteq Blocks /\ unsaved \subseteq Blocks /\ failed \subseteq Nat
  /\ server.at \in {"recv", "serve", "send", "lost"}
  /\ status \in [Procs -> {"unborn", "run", "exit", "done"}]
  /\ fds \in [Procs -> [Fds -> Descriptors \cup {NIL}]]
  /\ data \in [Procs -> [Fds -> [Indices -> Blocks \cup {Private, NIL}]]]
  /\ call \in [Procs -> CallType \cup {NIL}]
  /\ \A p \in Procs : /\ ipc[p].at \in {"no", "send", "sent", "recv", "got"}
                      /\ (ipc[p] = Silent) = (call[p] = NIL)
  /\ calls \in 0 .. MaxCalls

(***************************************************************************)
(* An entry stays that of the file it was opened for as long as any        *)
(* process has a descriptor of it, however descriptors are shared,         *)
(* duplicated and closed: open_alloc goes by the page's references only.   *)
(***************************************************************************)
HeldOpen ==
  \A p \in Procs, n \in Fds : Open(p, n) =>
    fds[p][n].fileid = opentab[fds[p][n].o].fileid /\ fds[p][n].fileid = Fd(p, n).fileid

(***************************************************************************)
(* For careful programs what a process sees through a descriptor is the    *)
(* file: the size in the descriptor is the server's, the pages below it    *)
(* are the blocks of the file, and none is mapped past it, where a block   *)
(* may have gone to somebody else.                                         *)
(***************************************************************************)
InCall(n) == {p \in Procs : call[p] # NIL /\ (call[p].n = n \/ call[p].arg = n)}
MappingsCurrent ==
  \A p \in Procs, n \in Fds :
    Open(p, n) /\ p \notin InCall(n) /\ fds[p][n].fileid \notin failed =>
      /\ Fd(p, n).size = file.size
      /\ \A i \in Indices : data[p][n][i] = IF i < file.size THEN file.block[i] ELSE NIL

(***************************************************************************)
(* Once nobody has the file open, everything that was written to it is on  *)
(* the disk.                                                               *)
(***************************************************************************)
ClosedDataOnDisk ==
  (\A p \in Procs, n \in Fds : ~Open(p, n)) =>
    \A i \in Indices : i < file.size => file.block[i] \notin unsaved

(***************************************************************************)
(* fsipc is a remote procedure call: every request is carried out once, in *)
(* the order of the messages, and each process gets the answer to its own. *)
(***************************************************************************)
Answering(p) == server.at = "send" /\ server.whom = p
Phase(p) == IF Answering(p) THEN "done" ELSE IF ipc[p].at \in {"no", "got"} THEN "idle" ELSE "asked"
Answer(p) == IF Answering(p) THEN server.r ELSE IF ipc[p].at = "got" THEN ipc[p].r ELSE NIL
R == INSTANCE Rpc WITH Answers <- {"ok", "error"},
       phase <- [p \in Procs |-> Phase(p)], answer <- [p \in Procs |-> Answer(p)]
ImplementsRpc == R!RpcSpec

\* Nobody waits for ever: every call of the library returns, and every process that
\* began to exit has closed its files and ended.
AllReturn == <>[](\A p \in Procs : call[p] = NIL /\ status[p] # "exit")

=============================================================================
