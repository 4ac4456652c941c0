--------------------------- MODULE FileServerProofs ---------------------------
(***************************************************************************)
(* Proofs about FileServer, for any number of processes, descriptors,      *)
(* entries and blocks: the types, that an entry stays that of the file it  *)
(* was opened for as long as somebody has it, that fsipc is a remote       *)
(* procedure call, that what a process sees through a descriptor is the    *)
(* file, and that what was written is on the disk once it is closed.       *)
(***************************************************************************)
EXTENDS FileServer, FiniteSetTheorems, TLAPS

-----------------------------------------------------------------------------
(***************************************************************************)
(* The inductive type invariant.                                           *)
(***************************************************************************)
Sizes    == 0 .. MaxSize
Answers  == {"ok", "error"}
Requests == [type : {"OPEN"}, found : BOOLEAN] \cup [type : {"SYNC"}]
            \cup [type : {"MAP", "DIRTY"}, id : Nat, i : Indices]
            \cup [type : {"SET_SIZE", "CLOSE"}, id : Nat, i : Sizes]
Messages == {Silent} \cup [at : {"send", "sent", "recv"}, request : Requests]
            \cup [at : {"got"}, r : Answers]
PageRecs == {NoPage} \cup [kind : {"Filefd"}, o : Entries] \cup [kind : {"block"}, b : Blocks]
Servers  == {Waiting, [at |-> "lost"]} \cup [at : {"serve"}, whom : Procs]
            \cup [at : {"send"}, whom : Procs, r : Answers, page : PageRecs]

TableType == /\ opentab \in [Entries -> [fileid : Nat, page : BOOLEAN]]
             /\ filefd \in [Entries -> [fileid : Nat, size : Sizes]]
FileType  == /\ file \in [size : Sizes, block : [Indices -> Blocks \cup {NIL}]]
             /\ dirty \subseteq Blocks /\ unsaved \subseteq Blocks
ProcType  == /\ status \in [Procs -> {"unborn", "run", "exit", "done"}]
             /\ failed \subseteq Nat /\ calls \in 0 .. MaxCalls
DescType  == /\ fds \in [Procs -> [Fds -> Descriptors \cup {NIL}]]
             /\ data \in [Procs -> [Fds -> [Indices -> Blocks \cup {Private, NIL}]]]
CallsType == /\ call \in [Procs -> CallType \cup {NIL}]
             /\ ipc \in [Procs -> Messages]
             /\ \A p \in Procs : (ipc[p] = Silent) <=> (call[p] = NIL)

\* A process in a call has been born.  Unless it waits for the answer to OPEN, its
\* descriptor is mapped; then, OPEN is what it has asked for.
Opening(p)  == call[p].op = "open" /\ call[p].at = "open"
CallOk(p)   ==
  /\ status[p] \in {"run", "exit"}
  /\ call[p].then = "write" => call[p].op = "truncate" /\ call[p].limit # 0
  /\ Opening(p) => ipc[p].at = "got" \/ ipc[p].request.type = "OPEN"
  /\ \/ call[p].op = "sync"
     \/ Opening(p) /\ (ipc[p].at = "got" => ipc[p].r = "error")
     \/ Open(p, call[p].n)
CallsOk     == \A p \in Procs : call[p] # NIL => CallOk(p)

\* The server works for somebody who waits for it, and what it answers to OPEN is an
\* error or has a page.
ServerOk    ==
  /\ server \in Servers
  /\ server.at \in {"serve", "send"} => ipc[server.whom].at \in {"sent", "recv"}
  /\ server.at = "send" /\ Opening(server.whom) /\ server.r = "ok" => server.page.kind = "Filefd"

Ind == TableType /\ FileType /\ ProcType /\ DescType /\ CallsType /\ CallsOk /\ ServerOk

LEMMA Constants ==
  /\ IsFiniteSet(Procs) /\ MAXFD \in Nat \ {0} /\ MAXOPEN \in Nat \ {0}
  /\ MaxSize \in Nat \ {0} /\ MaxCalls \in Nat /\ Blocks \subseteq Nat \ {0}
  /\ NIL \notin Procs /\ NIL \notin Blocks /\ NIL \notin CallType /\ NIL \notin Descriptors
  /\ 0 \in Sizes /\ Sizes \subseteq Nat /\ Indices \subseteq Sizes
  /\ \A i \in Sizes : i # MaxSize => i \in Indices /\ i + 1 \in Sizes
  BY FileServerAssumption, NilAssumption DEF Sizes, Indices

-----------------------------------------------------------------------------
(***************************************************************************)
(* What the steps are made of.                                             *)
(***************************************************************************)
LEMMA FsipcType ==
  ASSUME Ind, NEW p \in Procs, NEW rq \in Requests, NEW c \in CallType,
         ipc' = [ipc EXCEPT ![p] = [at |-> "send", request |-> rq]],
         call' = [call EXCEPT ![p] = c]
  PROVE  /\ CallsType' /\ call'[p] = c
         /\ ipc'[p] = [at |-> "send", request |-> rq]
         /\ \A q \in Procs \ {p} : call'[q] = call[q] /\ ipc'[q] = ipc[q]
<1>1. [at |-> "send", request |-> rq] \in Messages /\ [at |-> "send", request |-> rq] # Silent
  BY DEF Messages, Silent
<1>2. call' \in [Procs -> CallType \cup {NIL}] /\ ipc' \in [Procs -> Messages]
  BY <1>1 DEF Ind, CallsType
<1>3. call'[p] = c /\ ipc'[p] = [at |-> "send", request |-> rq]
      /\ \A q \in Procs \ {p} : call'[q] = call[q] /\ ipc'[q] = ipc[q]
  BY DEF Ind, CallsType
<1>4. \A q \in Procs : (ipc'[q] = Silent) <=> (call'[q] = NIL)
  BY <1>1, <1>3, Constants DEF Ind, CallsType
<1> QED
  BY <1>2, <1>3, <1>4 DEF CallsType

LEMMA ReturnType ==
  ASSUME Ind, NEW p \in Procs, Return(p)
  PROVE  /\ CallsType'
         /\ call'[p] = NIL /\ ipc'[p] = Silent
         /\ \A q \in Procs \ {p} : call'[q] = call[q] /\ ipc'[q] = ipc[q]
<1>1. call' \in [Procs -> CallType \cup {NIL}] /\ ipc' \in [Procs -> Messages]
  BY DEF Return, Ind, CallsType, Messages
<1>2. call'[p] = NIL /\ ipc'[p] = Silent
      /\ \A q \in Procs \ {p} : call'[q] = call[q] /\ ipc'[q] = ipc[q]
  BY DEF Return, Ind, CallsType
<1> QED
  BY <1>1, <1>2 DEF Ind, CallsType

\* A process that is answered is in a call.
LEMMA GotFacts ==
  ASSUME Ind, NEW p \in Procs, NEW op, NEW at, Got(p, op, at)
  PROVE  /\ call[p] \in CallType /\ call[p] # NIL /\ CallOk(p)
         /\ call[p].op = op /\ call[p].at = at
         /\ ipc[p] \in [at : {"got"}, r : Answers]
  BY DEF Got, Ind, CallsType, CallsOk, Messages, Silent

LEMMA FdFacts ==
  ASSUME Ind, NEW p \in Procs, NEW n \in Fds, Open(p, n)
  PROVE  fds[p][n] \in Descriptors /\ fds[p][n].o \in Entries
         /\ Fd(p, n).size \in Sizes /\ Fd(p, n).fileid \in Nat
  BY DEF Open, Fd, Ind, DescType, TableType, Descriptors

\* The server is not touched, and those it works for are not either.
LEMMA ServerKept ==
  ASSUME Ind, UNCHANGED server, NEW p \in Procs, ipc[p].at \notin {"sent", "recv"},
         \A q \in Procs \ {p} : call'[q] = call[q] /\ ipc'[q] = ipc[q]
  PROVE  ServerOk'
<1>1. server.at \in {"serve", "send"} => server.whom \in Procs /\ server.whom # p
  BY DEF Ind, ServerOk, Servers, Waiting
<1> QED
  BY <1>1 DEF Ind, ServerOk, Opening

\* A step of p that changes nobody else's call, descriptors or status.
LEMMA CallsKept ==
  ASSUME Ind, NEW p \in Procs,
         \A q \in Procs \ {p} : /\ call'[q] = call[q] /\ ipc'[q] = ipc[q]
                                /\ fds'[q] = fds[q] /\ status'[q] = status[q],
         call'[p] = NIL \/ CallOk(p)'
  PROVE  CallsOk'
  BY DEF Ind, CallsOk, CallOk, Opening, Open

\* A process in a call, or at the beginning of one, makes a request.
LEMMA CallStep ==
  ASSUME Ind, NEW p \in Procs, NEW rq \in Requests, NEW c \in CallType,
         ipc[p].at \notin {"sent", "recv"}, status[p] \in {"run", "exit"},
         ipc' = [ipc EXCEPT ![p] = [at |-> "send", request |-> rq]],
         call' = [call EXCEPT ![p] = c],
         c.then = "write" => c.op = "truncate" /\ c.limit # 0,
         \/ c.op = "sync"
         \/ c.op = "open" /\ c.at = "open" /\ rq.type = "OPEN"
         \/ ~(c.op = "open" /\ c.at = "open") /\ Open(p, c.n),
         UNCHANGED <<server, fds, status>>
  PROVE  CallsType' /\ CallsOk' /\ ServerOk'
<1>1. /\ CallsType' /\ call'[p] = c
      /\ ipc'[p] = [at |-> "send", request |-> rq]
      /\ \A q \in Procs \ {p} : call'[q] = call[q] /\ ipc'[q] = ipc[q]
  BY FsipcType
<1>2. CallOk(p)'
  BY <1>1 DEF CallOk, Opening, Open
<1> QED
  BY <1>1, <1>2, CallsKept, ServerKept

\* A call returns.
LEMMA EndStep ==
  ASSUME Ind, NEW p \in Procs, ipc[p].at = "got", Return(p),
         \A q \in Procs \ {p} : fds'[q] = fds[q], UNCHANGED <<server, status>>
  PROVE  CallsType' /\ CallsOk' /\ ServerOk'
<1>1. CallsType' /\ call'[p] = NIL
      /\ \A q \in Procs \ {p} : call'[q] = call[q] /\ ipc'[q] = ipc[q]
  BY ReturnType
<1> QED
  BY <1>1, CallsKept, ServerKept

\* The request for the next block.
LEMMA MapStep ==
  ASSUME Ind, NEW p \in Procs, NEW c \in CallType, c.op # "sync",
         ipc[p].at = "got", status[p] \in {"run", "exit"},
         Left(c), Open(p, c.n), c.then = "write" => c.op = "truncate" /\ c.limit # 0,
         ipc' = [ipc EXCEPT ![p] = [at |-> "send", request |-> Request("MAP", Fd(p, c.n).fileid, c.i)]],
         call' = [call EXCEPT ![p] = [c EXCEPT !.at = "map"]],
         UNCHANGED <<server, fds, status>>
  PROVE  CallsType' /\ CallsOk' /\ ServerOk'
<1>1. c.i \in 0 .. MaxSize /\ c.limit \in 0 .. MaxSize /\ c.n \in Fds
  BY DEF CallType
<1>2. c.i \in Indices
  BY <1>1, FileServerAssumption DEF Left, Indices
<1>3. Fd(p, c.n).fileid \in Nat
  BY <1>1, FdFacts
<1>4. PICK rq \in Requests : rq = Request("MAP", Fd(p, c.n).fileid, c.i)
  BY <1>2, <1>3 DEF Request, Requests
<1>5. PICK d \in CallType : d = [c EXCEPT !.at = "map"]
  BY DEF CallType
<1>6. d.op = c.op /\ d.then = c.then /\ d.limit = c.limit /\ d.n = c.n /\ d.at = "map"
  BY <1>5 DEF CallType
<1>7. Open(p, d.n) /\ ~(d.op = "open" /\ d.at = "open")
  BY <1>6
<1> QED
  BY <1>4, <1>5, <1>6, <1>7, CallStep

-----------------------------------------------------------------------------
(***************************************************************************)
(* The actions.                                                            *)
(***************************************************************************)
LEMMA CallFacts ==
  ASSUME NEW op \in {"open", "truncate", "close", "sync"}, NEW n \in Fds
  PROVE  /\ Call(op, n) \in CallType /\ 0 \in Fds
         /\ Call(op, n).op = op /\ Call(op, n).at = op /\ Call(op, n).n = n /\ Call(op, n).then = ""
<1>1. 0 \in Fds /\ 0 \in 0 .. MaxSize
  BY FileServerAssumption DEF Fds
<1> QED
  BY <1>1 DEF Call, CallType

LEMMA BeginFacts ==
  ASSUME Ind, NEW p \in Procs, Begin(p)
  PROVE  /\ status[p] = "run" /\ ipc[p] = Silent /\ ipc[p].at = "no"
         /\ calls' \in 0 .. MaxCalls /\ UNCHANGED <<status, failed>> /\ ProcType'
<1>1. calls' \in 0 .. MaxCalls
  BY FileServerAssumption DEF Begin, Count, Ind, ProcType
<1> QED
  BY <1>1 DEF Begin, Idle, Ind, ProcType, CallsType, Silent

LEMMA OpenInd ==
  ASSUME Ind, NEW p \in Procs, open(p)
  PROVE  Ind'
<1>1. /\ status[p] = "run" /\ ipc[p].at = "no" /\ ProcType'
      /\ UNCHANGED <<server, fds, data, status, opentab, filefd, file, dirty, unsaved>>
  BY BeginFacts DEF open, serverVars
<1>2. PICK n \in Fds, found \in BOOLEAN :
        fsipc(p, [type |-> "OPEN", found |-> found], Call("open", n))
  BY FileServerAssumption DEF open, fd_alloc, Fds
<1>3. PICK rq \in Requests : rq = [type |-> "OPEN", found |-> found]
  BY DEF Requests
<1>4. PICK c \in CallType : c = Call("open", n)
  BY CallFacts
<1>5. CallsType' /\ CallsOk' /\ ServerOk'
  BY <1>1, <1>2, <1>3, <1>4, CallStep DEF fsipc, Call
<1>6. TableType' /\ FileType' /\ DescType'
  BY <1>1 DEF Ind, TableType, FileType, DescType
<1> QED
  BY <1>1, <1>5, <1>6 DEF Ind

\* The loop of MAP requests, and the end of open.
LEMMA OpenNextInd ==
  ASSUME Ind, NEW p \in Procs, NEW c \in CallType, ipc[p].at = "got",
         c.op = "open", c.then # "write", Open(p, c.n), status[p] \in {"run", "exit"},
         IF Left(c)
         THEN /\ ipc' = [ipc EXCEPT ![p] = [at |-> "send", request |-> Request("MAP", Fd(p, c.n).fileid, c.i)]]
              /\ call' = [call EXCEPT ![p] = [c EXCEPT !.at = "map"]]
         ELSE Return(p),
         UNCHANGED <<server, fds, status>>
  PROVE  CallsType' /\ CallsOk' /\ ServerOk'
<1>1. CASE Left(c)
  BY <1>1, MapStep
<1>2. CASE ~Left(c)
  BY <1>2, EndStep
<1> QED
  BY <1>1, <1>2

\* What most steps leave alone.
LEMMA Frame ==
  ASSUME Ind
  PROVE  /\ UNCHANGED <<opentab, filefd>> => TableType'
         /\ UNCHANGED <<file, dirty, unsaved>> => FileType'
         /\ UNCHANGED <<status, calls, failed>> => ProcType'
         /\ UNCHANGED <<fds, data>> => DescType'
  BY DEF Ind, TableType, FileType, ProcType, DescType

LEMMA OpenGotInd ==
  ASSUME Ind, NEW p \in Procs, open_got(p)
  PROVE  Ind'
<1>1. /\ UNCHANGED <<server, fds, data, status, calls, failed>>
      /\ UNCHANGED <<opentab, filefd, file, dirty, unsaved>>
  BY DEF open_got, serverVars, procVars
<1>2. /\ call[p] \in CallType /\ call[p] # NIL /\ CallOk(p) /\ Opening(p)
      /\ ipc[p] \in [at : {"got"}, r : Answers]
  BY GotFacts DEF open_got, Opening
<1>3. CASE Good(p)
  <2>1. Open(p, call[p].n) /\ call[p].n \in Fds /\ status[p] \in {"run", "exit"}
    BY <1>2, <1>3 DEF CallOk, Good, CallType, Opening
  <2> DEFINE c0 == [call[p] EXCEPT !.limit = Fd(p, call[p].n).size]
  <2>2. c0 \in CallType /\ c0.op = "open" /\ c0.n = call[p].n /\ c0.then = call[p].then
    BY <1>2, <2>1, FdFacts DEF CallType, Opening, Sizes
  <2>3. PICK c \in CallType : c = c0 /\ IF Left(c)
         THEN /\ ipc' = [ipc EXCEPT ![p] = [at |-> "send", request |-> Request("MAP", Fd(p, c.n).fileid, c.i)]]
              /\ call' = [call EXCEPT ![p] = [c EXCEPT !.at = "map"]]
         ELSE Return(p)
    BY <1>3, <2>2 DEF open_got, OpenNext, MapNext, fsipc
  <2> HIDE DEF c0
  <2>4. c.then # "write"
    BY <1>2, <2>2, <2>3 DEF CallOk, Opening
  <2> QED
    BY <1>1, <1>2, <2>1, <2>2, <2>3, <2>4, OpenNextInd, Frame DEF Ind
<1>4. CASE ~Good(p)
  BY <1>1, <1>2, <1>4, EndStep, Frame DEF open_got, Ind
<1> QED
  BY <1>3, <1>4


LEMMA OpenMappedInd ==
  ASSUME Ind, NEW p \in Procs, open_mapped(p)
  PROVE  Ind'
<1>1. /\ UNCHANGED <<server, fds, data, status, calls, failed>>
      /\ UNCHANGED <<opentab, filefd, file, dirty, unsaved>>
  BY DEF open_mapped, serverVars, procVars
<1>2. /\ call[p] \in CallType /\ CallOk(p) /\ call[p].op = "open" /\ call[p].at = "map"
      /\ ipc[p] \in [at : {"got"}, r : Answers]
  BY GotFacts DEF open_mapped
<1>3. Open(p, call[p].n) /\ status[p] \in {"run", "exit"} /\ call[p].then # "write"
  BY <1>2 DEF CallOk, Opening
<1>4. CASE Good(p)
  <2> DEFINE c0 == [call[p] EXCEPT !.i = @ + 1]
             Next0(c) ==
               IF Left(c)
               THEN /\ ipc' = [ipc EXCEPT ![p] = [at |-> "send", request |-> Request("MAP", Fd(p, c.n).fileid, c.i)]]
                    /\ call' = [call EXCEPT ![p] = [c EXCEPT !.at = "map"]]
               ELSE Return(p)
  <2>1. Next0(c0)
    BY <1>4 DEF open_mapped, OpenNext, MapNext, fsipc
  <2>2. call[p].i \in 0 .. MaxSize /\ call[p].limit \in 0 .. MaxSize
        /\ c0.i = call[p].i + 1 /\ c0.limit = call[p].limit
    BY <1>2 DEF CallType
  <2>3. CASE Left(c0)
    <3>1. c0.i \in 0 .. MaxSize
      BY <2>2, <2>3, FileServerAssumption DEF Left
    <3>2. c0 \in CallType /\ c0.op = "open" /\ c0.n = call[p].n /\ c0.then = call[p].then
      BY <1>2, <3>1 DEF CallType
    <3>3. PICK c \in CallType : c = c0 /\ Next0(c)
      BY <2>1, <3>2
    <3> QED
      BY <1>1, <1>2, <1>3, <3>2, <3>3, OpenNextInd, Frame DEF Ind
  <2>4. CASE ~Left(c0)
    BY <1>1, <1>2, <2>1, <2>4, EndStep, Frame DEF Ind
  <2> QED
    BY <2>3, <2>4
<1>5. CASE ~Good(p)
  BY <1>1, <1>2, <1>5, EndStep, Frame DEF open_mapped, Ind
<1> QED
  BY <1>4, <1>5

LEMMA StoreType ==
  ASSUME Ind, NEW p \in Procs, NEW n \in Fds, NEW i \in Indices, Store(p, n, i)
  PROVE  /\ data' \in [Procs -> [Fds -> [Indices -> Blocks \cup {Private, NIL}]]]
         /\ unsaved' \subseteq Blocks
<1>1. data[p][n][i] \in Blocks \cup {Private, NIL}
  BY DEF Ind, DescType
<1> QED
  BY <1>1 DEF Store, Ind, DescType, FileType

\* The beginning of a change of size, in ftruncate or write.
LEMMA ResizeInd ==
  ASSUME Ind, NEW p \in Procs, Begin(p), NEW n \in Fds, Open(p, n), NEW size \in Sizes,
         NEW then \in {"", "write"}, then = "write" => size # 0, resize(p, n, size, then)
  PROVE  Ind'
<1>1. status[p] = "run" /\ ipc[p].at = "no" /\ ProcType' /\ UNCHANGED status
  BY BeginFacts
<1>2. UNCHANGED <<server, fds, data, opentab, file, dirty, unsaved>>
  BY DEF resize, serverVars
<1>3. fds[p][n].o \in Entries /\ Fd(p, n).size \in Sizes /\ Fd(p, n).fileid \in Nat
  BY FdFacts
<1>4. filefd' = [filefd EXCEPT ![fds[p][n].o].size = size]
  BY DEF resize
<1>5. TableType'
  BY <1>2, <1>3, <1>4 DEF Ind, TableType
<1>6. PICK rq \in Requests : rq = Request("SET_SIZE", Fd(p, n).fileid, size)
  BY <1>3 DEF Request, Requests
<1>7. PICK c \in CallType :
        c = [Call("truncate", n) EXCEPT !.i = Fd(p, n).size, !.old = Fd(p, n).size, !.limit = size, !.then = then]
  <2>1. 0 \in Fds
    BY CallFacts
  <2> QED
    BY <1>3, <2>1 DEF Call, CallType, Sizes
<1>8. c.op = "truncate" /\ c.n = n /\ c.limit = size /\ c.then = then
  BY <1>7 DEF Call
<1>9. /\ ipc' = [ipc EXCEPT ![p] = [at |-> "send", request |-> rq]]
      /\ call' = [call EXCEPT ![p] = c]
  BY <1>6, <1>7 DEF resize, fsipc
<1>10. CallsType' /\ CallsOk' /\ ServerOk'
  BY <1>1, <1>2, <1>8, <1>9, CallStep
<1> QED
  BY <1>1, <1>2, <1>5, <1>10, Frame DEF Ind

LEMMA FtruncateInd ==
  ASSUME Ind, NEW p \in Procs, ftruncate(p)
  PROVE  Ind'
  BY ResizeInd DEF ftruncate, Sizes

LEMMA WriteInd ==
  ASSUME Ind, NEW p \in Procs, write(p)
  PROVE  Ind'
<1>1. PICK n \in Fds, i \in Indices :
        /\ Open(p, n)
        /\ IF i + 1 > Fd(p, n).size THEN resize(p, n, i + 1, "write")
           ELSE Store(p, n, i) /\ UNCHANGED <<serverVars, filefd, server, fds, call, ipc>>
  BY DEF write
<1>2. Begin(p) /\ i + 1 \in Sizes /\ i + 1 # 0
  BY FileServerAssumption DEF write, Indices, Sizes
<1>3. CASE i + 1 > Fd(p, n).size
  BY <1>1, <1>2, <1>3, ResizeInd
<1>4. CASE ~(i + 1 > Fd(p, n).size)
  <2>1. Store(p, n, i) /\ UNCHANGED <<opentab, file, dirty, filefd, server, fds, call, ipc>>
    BY <1>1, <1>4 DEF serverVars
  <2>2. ProcType' /\ UNCHANGED status
    BY <1>2, BeginFacts
  <2>3. DescType' /\ FileType'
    BY <2>1, StoreType DEF Ind, DescType, FileType
  <2>4. CallsType' /\ CallsOk' /\ ServerOk'
    BY <2>1, <2>2 DEF Ind, CallsType, CallsOk, CallOk, Opening, Open, ServerOk
  <2> QED
    BY <2>1, <2>2, <2>3, <2>4, Frame DEF Ind
<1> QED
  BY <1>3, <1>4

\* The loop of MAP requests, and the end of ftruncate.
LEMMA TruncateNextInd ==
  ASSUME Ind, NEW p \in Procs, NEW c \in CallType, TruncateNext(p, c), ipc[p].at = "got",
         c.op = "truncate", c.then = "write" => c.limit # 0, Open(p, c.n), status[p] \in {"run", "exit"},
         UNCHANGED <<server, fds, status>>
  PROVE  /\ CallsType' /\ CallsOk' /\ ServerOk'
         /\ data' \in [Procs -> [Fds -> [Indices -> Blocks \cup {Private, NIL}]]]
         /\ unsaved' \subseteq Blocks
<1>1. CASE Left(c)
  <2>1. UNCHANGED <<data, unsaved>>
    BY <1>1 DEF TruncateNext
  <2>2. CallsType' /\ CallsOk' /\ ServerOk'
    BY <1>1, MapStep DEF TruncateNext, MapNext, fsipc
  <2> QED
    BY <2>1, <2>2 DEF Ind, DescType, FileType
<1>2. CASE ~Left(c)
  <2>1. truncated(p, c)
    BY <1>2 DEF TruncateNext
  <2>2. CallsType' /\ CallsOk' /\ ServerOk'
    BY <2>1, EndStep DEF truncated
  <2>3. CASE c.then = "write"
    <3>1. c.limit \in 0 .. MaxSize /\ c.n \in Fds
      BY DEF CallType
    <3>2. c.limit - 1 \in Indices
      BY <2>3, <3>1, FileServerAssumption DEF Indices
    <3> QED
      BY <2>1, <2>2, <2>3, <3>1, <3>2, StoreType DEF truncated
  <2>4. CASE c.then # "write"
    <3>1. unmap_above(p, c) /\ UNCHANGED unsaved
      BY <2>1, <2>4 DEF truncated
    <3>2. c.n \in Fds
      BY DEF CallType
    <3>3. [i \in Indices |-> IF c.limit <= i /\ i < c.old THEN NIL ELSE data[p][c.n][i]]
          \in [Indices -> Blocks \cup {Private, NIL}]
      BY <3>2 DEF Ind, DescType
    <3> QED
      BY <2>2, <3>1, <3>2, <3>3 DEF unmap_above, Ind, DescType, FileType
  <2> QED
    BY <2>3, <2>4
<1> QED
  BY <1>1, <1>2

LEMMA TruncateSetInd ==
  ASSUME Ind, NEW p \in Procs, truncate_set(p)
  PROVE  Ind'
<1>1. UNCHANGED <<server, fds, status, calls, opentab, filefd, file, dirty>>
  BY DEF truncate_set, serverVars
<1>2. /\ call[p] \in CallType /\ CallOk(p) /\ call[p].op = "truncate" /\ call[p].at = "truncate"
      /\ ipc[p] \in [at : {"got"}, r : Answers]
  BY GotFacts DEF truncate_set
<1>3. Open(p, call[p].n) /\ status[p] \in {"run", "exit"} /\ call[p].n \in Fds
      /\ (call[p].then = "write" => call[p].limit # 0)
  BY <1>2 DEF CallOk, Opening, CallType
<1>4. CASE Good(p)
  <2>1. PICK c \in CallType : c = call[p] /\ TruncateNext(p, c)
    BY <1>2, <1>4 DEF truncate_set
  <2>2. /\ CallsType' /\ CallsOk' /\ ServerOk'
        /\ data' \in [Procs -> [Fds -> [Indices -> Blocks \cup {Private, NIL}]]]
        /\ unsaved' \subseteq Blocks
    BY <1>1, <1>2, <1>3, <2>1, TruncateNextInd
  <2>3. UNCHANGED failed
    BY <1>4 DEF truncate_set
  <2> QED
    BY <1>1, <2>2, <2>3 DEF Ind, TableType, FileType, ProcType, DescType
<1>5. CASE ~Good(p)
  <2>1. Return(p) /\ UNCHANGED <<data, unsaved>> /\ failed' = failed \cup {fds[p][call[p].n].fileid}
    BY <1>5 DEF truncate_set, Failed
  <2>2. failed' \subseteq Nat
    <3>1. fds[p][call[p].n].fileid \in Nat
      BY <1>3, FdFacts DEF Descriptors
    <3> QED
      BY <2>1, <3>1 DEF Ind, ProcType
  <2>3. CallsType' /\ CallsOk' /\ ServerOk'
    BY <1>1, <1>2, <2>1, EndStep
  <2> QED
    BY <1>1, <2>1, <2>2, <2>3 DEF Ind, TableType, FileType, ProcType, DescType
<1> QED
  BY <1>4, <1>5

LEMMA TruncateMappedInd ==
  ASSUME Ind, NEW p \in Procs, truncate_mapped(p)
  PROVE  Ind'
<1>1. UNCHANGED <<server, fds, status, calls, opentab, filefd, file, dirty>>
  BY DEF truncate_mapped, serverVars
<1>2. /\ call[p] \in CallType /\ CallOk(p) /\ call[p].op = "truncate" /\ call[p].at = "map"
      /\ ipc[p] \in [at : {"got"}, r : Answers]
  BY GotFacts DEF truncate_mapped
<1>3. /\ Open(p, call[p].n) /\ status[p] \in {"run", "exit"}
      /\ (call[p].then = "write" => call[p].limit # 0)
      /\ call[p].n \in Fds /\ call[p].i \in 0 .. MaxSize /\ call[p].limit \in 0 .. MaxSize
      /\ call[p].old \in 0 .. MaxSize
  BY <1>2 DEF CallOk, Opening, CallType
<1>4. CASE Good(p)
  <2> DEFINE c0 == [call[p] EXCEPT !.i = @ + 1]
  <2>1. TruncateNext(p, c0) /\ UNCHANGED failed
    BY <1>4 DEF truncate_mapped
  <2>2. /\ c0.i = call[p].i + 1 /\ c0.limit = call[p].limit /\ c0.op = call[p].op
        /\ c0.n = call[p].n /\ c0.then = call[p].then /\ c0.old = call[p].old
    BY <1>2 DEF CallType
  <2>3. CASE Left(c0)
    <3>1. c0.i \in 0 .. MaxSize
      BY <1>3, <2>2, <2>3, FileServerAssumption DEF Left
    <3>2. c0 \in CallType
      BY <1>2, <3>1 DEF CallType
    <3>3. PICK c \in CallType : c = c0 /\ TruncateNext(p, c)
      BY <2>1, <3>2 DEF TruncateNext, truncated, Store, unmap_above, MapNext, fsipc, Return, Left, Fd
    <3>4. /\ CallsType' /\ CallsOk' /\ ServerOk'
          /\ data' \in [Procs -> [Fds -> [Indices -> Blocks \cup {Private, NIL}]]]
          /\ unsaved' \subseteq Blocks
      BY <1>1, <1>2, <1>3, <2>2, <3>3, TruncateNextInd
    <3> QED
      BY <1>1, <2>1, <3>4 DEF Ind, TableType, FileType, ProcType, DescType
  <2>4. CASE ~Left(c0)
    \* The counter has no place in the end of the call.
    <3>1. PICK c \in CallType : c = [call[p] EXCEPT !.i = call[p].limit]
      BY <1>2, <1>3 DEF CallType
    <3>2. /\ c.limit = call[p].limit /\ c.op = call[p].op /\ c.n = call[p].n
          /\ c.then = call[p].then /\ c.old = call[p].old /\ c.i = call[p].limit
      BY <1>2, <3>1 DEF CallType
    <3>3. ~Left(c)
      BY <1>3, <3>2 DEF Left
    <3>4. TruncateNext(p, c)
      BY <2>1, <2>2, <2>4, <3>2, <3>3 DEF TruncateNext, truncated, Store, unmap_above, Return
    <3>5. /\ CallsType' /\ CallsOk' /\ ServerOk'
          /\ data' \in [Procs -> [Fds -> [Indices -> Blocks \cup {Private, NIL}]]]
          /\ unsaved' \subseteq Blocks
      BY <1>1, <1>2, <1>3, <3>2, <3>4, TruncateNextInd
    <3> QED
      BY <1>1, <2>1, <3>5 DEF Ind, TableType, FileType, ProcType, DescType
  <2> QED
    BY <2>3, <2>4
<1>5. CASE ~Good(p)
  <2>1. /\ fsipc(p, Request("SET_SIZE", Fd(p, call[p].n).fileid, call[p].old), [call[p] EXCEPT !.at = "back"])
        /\ UNCHANGED <<data, unsaved>> /\ failed' = failed \cup {fds[p][call[p].n].fileid}
    BY <1>5 DEF truncate_mapped, Failed
  <2>2. Fd(p, call[p].n).fileid \in Nat /\ fds[p][call[p].n].fileid \in Nat
    BY <1>3, FdFacts DEF Descriptors
  <2>3. failed' \subseteq Nat
    BY <2>1, <2>2 DEF Ind, ProcType
  <2>4. PICK rq \in Requests : rq = Request("SET_SIZE", Fd(p, call[p].n).fileid, call[p].old)
    BY <1>3, <2>2 DEF Request, Requests, Sizes
  <2>5. PICK c \in CallType : c = [call[p] EXCEPT !.at = "back"]
    BY <1>2 DEF CallType
  <2>6. c.op = "truncate" /\ c.at = "back" /\ c.n = call[p].n /\ c.then = call[p].then /\ c.limit = call[p].limit
    BY <1>2, <2>5 DEF CallType
  <2>7. CallsType' /\ CallsOk' /\ ServerOk'
    BY <1>1, <1>2, <1>3, <2>1, <2>4, <2>5, <2>6, CallStep DEF fsipc
  <2> QED
    BY <1>1, <2>1, <2>3, <2>7 DEF Ind, TableType, FileType, ProcType, DescType
<1> QED
  BY <1>4, <1>5

LEMMA TruncateBackInd ==
  ASSUME Ind, NEW p \in Procs, truncate_back(p) \/ sync_got(p)
  PROVE  Ind'
<1>1. /\ UNCHANGED <<server, fds, data, status, calls, failed, opentab, filefd, file, dirty, unsaved>>
      /\ Return(p) /\ ipc[p].at = "got"
  BY DEF truncate_back, sync_got, Got, serverVars, procVars
<1> QED
  BY <1>1, EndStep, Frame DEF Ind

\* The loop of DIRTY requests, and CLOSE.
LEMMA DirtyNextInd ==
  ASSUME Ind, NEW p \in Procs, NEW c \in CallType, NEW id \in Nat, DirtyNext(p, c, id),
         ipc[p].at \notin {"sent", "recv"}, status[p] \in {"run", "exit"},
         c.op = "close", c.then # "write", Open(p, c.n), UNCHANGED <<server, fds, status>>
  PROVE  CallsType' /\ CallsOk' /\ ServerOk'
<1>1. c.i \in 0 .. MaxSize /\ c.limit \in 0 .. MaxSize
  BY DEF CallType
<1>2. CASE c.i < c.limit
  <2>1. c.i \in Indices /\ c.i + 1 \in 0 .. MaxSize
    BY <1>1, <1>2, FileServerAssumption DEF Indices
  <2>2. PICK rq \in Requests : rq = Request("DIRTY", id, c.i)
    BY <2>1 DEF Request, Requests
  <2>3. PICK d \in CallType : d = [c EXCEPT !.at = "dirty", !.i = @ + 1]
    BY <2>1 DEF CallType
  <2>4. d.op = c.op /\ d.n = c.n /\ d.then = c.then
    BY <2>3 DEF CallType
  <2> QED
    BY <1>2, <2>2, <2>3, <2>4, CallStep DEF DirtyNext, fsipc
<1>3. CASE ~(c.i < c.limit)
  <2>0. 0 \in Sizes
    BY Constants
  <2>1. PICK rq \in Requests : rq = Request("CLOSE", id, 0)
    BY <2>0 DEF Request, Requests
  <2>2. PICK d \in CallType : d = [c EXCEPT !.at = "flush"]
    BY DEF CallType
  <2>3. d.op = c.op /\ d.n = c.n /\ d.then = c.then
    BY <2>2 DEF CallType
  <2> QED
    BY <1>3, <2>1, <2>2, <2>3, CallStep DEF DirtyNext, fsipc
<1> QED
  BY <1>2, <1>3

LEMMA CloseBeginInd ==
  ASSUME Ind, NEW p \in Procs, NEW c \in CallType, CloseBegin(p, c),
         ipc[p].at = "no", status[p] \in {"run", "exit"},
         c.op = "close", c.then # "write", Open(p, c.n), UNCHANGED status
  PROVE  TableType' /\ FileType' /\ DescType' /\ CallsType' /\ CallsOk' /\ ServerOk'
<1>1. UNCHANGED <<server, fds, data, opentab, filefd, file, dirty, unsaved>>
  BY DEF CloseBegin, serverVars
<1>2. Fd(p, c.n).size \in Sizes /\ Fd(p, c.n).fileid \in Nat
  BY FdFacts DEF CallType
<1>3. PICK d \in CallType : d = [c EXCEPT !.limit = Fd(p, c.n).size]
  BY <1>2 DEF CallType, Sizes
<1>4. PICK id \in Nat : id = Fd(p, c.n).fileid
  BY <1>2
<1>5. d.op = c.op /\ d.n = c.n /\ d.then = c.then
  BY <1>3 DEF CallType
<1>6. DirtyNext(p, d, id)
  BY <1>3, <1>4 DEF CloseBegin, DirtyNext, fsipc
<1>7. CallsType' /\ CallsOk' /\ ServerOk'
  BY <1>1, <1>5, <1>6, DirtyNextInd
<1> QED
  BY <1>1, <1>7, Frame

LEMMA CloseInd ==
  ASSUME Ind, NEW p \in Procs, close(p)
  PROVE  Ind'
<1>1. Begin(p) /\ status[p] = "run" /\ ipc[p].at = "no" /\ ProcType' /\ UNCHANGED status
  BY BeginFacts DEF close
<1>2. PICK n \in Fds : Open(p, n) /\ CloseBegin(p, Call("close", n))
  BY DEF close
<1>3. PICK c \in CallType : c = Call("close", n) /\ c.op = "close" /\ c.n = n /\ c.then = ""
  <2>1. Call("close", n) \in CallType
    BY CallFacts
  <2> QED
    BY <2>1 DEF Call
<1> QED
  BY <1>1, <1>2, <1>3, CloseBeginInd DEF Ind

LEMMA CloseDirtiedInd ==
  ASSUME Ind, NEW p \in Procs, close_dirtied(p)
  PROVE  Ind'
<1>1. /\ UNCHANGED <<server, fds, data, status, calls, failed>>
      /\ UNCHANGED <<opentab, filefd, file, dirty, unsaved>>
  BY DEF close_dirtied, serverVars, procVars
<1>2. /\ call[p] \in CallType /\ CallOk(p) /\ call[p].op = "close" /\ call[p].at = "dirty"
      /\ ipc[p] \in [at : {"got"}, r : Answers]
  BY GotFacts DEF close_dirtied
<1>3. Open(p, call[p].n) /\ status[p] \in {"run", "exit"} /\ call[p].n \in Fds /\ call[p].then # "write"
  BY <1>2 DEF CallOk, Opening, CallType
<1>4. PICK c \in CallType, id \in Nat : c = call[p] /\ id = Fd(p, call[p].n).fileid
  BY <1>2, <1>3, FdFacts
<1>5. DirtyNext(p, c, id)
  BY <1>4 DEF close_dirtied, DirtyNext, fsipc
<1> QED
  BY <1>1, <1>2, <1>3, <1>4, <1>5, DirtyNextInd, Frame DEF Ind

LEMMA MappedType ==
  ASSUME NEW pages \in [Fds -> [Indices -> Blocks \cup {Private, NIL}]], NEW n \in Fds, NEW m \in Fds
  PROVE  Mapped(pages, n, m) \in [Fds -> [Indices -> Blocks \cup {Private, NIL}]]
<1>1. [i \in Indices |-> IF pages[m][i] # NIL THEN pages[m][i] ELSE pages[n][i]]
      \in [Indices -> Blocks \cup {Private, NIL}]
  OBVIOUS
<1>2. Mapped(pages, n, m) =
      [pages EXCEPT ![n] = [i \in Indices |-> IF pages[m][i] # NIL THEN pages[m][i] ELSE pages[n][i]]]
  BY DEF Mapped
<1> QED
  BY <1>1, <1>2

LEMMA CloseFlushedInd ==
  ASSUME Ind, NEW p \in Procs, close_flushed(p)
  PROVE  Ind'
<1>1. UNCHANGED <<server, status, calls, failed, opentab, filefd, file, dirty, unsaved>>
  BY DEF close_flushed, serverVars, procVars
<1>2. /\ call[p] \in CallType /\ CallOk(p) /\ call[p].op = "close" /\ call[p].at = "flush"
      /\ ipc[p] \in [at : {"got"}, r : Answers]
  BY GotFacts DEF close_flushed
<1>3. call[p].n \in Fds /\ call[p].arg \in Fds
  BY <1>2 DEF CallType
<1> DEFINE below == IF Good(p) THEN call[p].limit ELSE 0
           pages == [data[p] EXCEPT ![call[p].n] = [i \in Indices |-> IF i < below THEN NIL ELSE @[i]]]
<1>4. /\ data' = [data EXCEPT ![p] = IF call[p].then = "dup" THEN Mapped(pages, call[p].n, call[p].arg) ELSE pages]
      /\ fds' = [fds EXCEPT ![p][call[p].n] = IF call[p].then = "dup" THEN fds[p][call[p].arg] ELSE NIL]
  BY DEF close_flushed
<1>5. [i \in Indices |-> IF i < below THEN NIL ELSE data[p][call[p].n][i]]
      \in [Indices -> Blocks \cup {Private, NIL}]
  BY <1>3 DEF Ind, DescType
<1>6. pages \in [Fds -> [Indices -> Blocks \cup {Private, NIL}]]
  BY <1>3, <1>5 DEF Ind, DescType
<1> HIDE DEF pages
<1>7. DescType'
  <2>1. Mapped(pages, call[p].n, call[p].arg) \in [Fds -> [Indices -> Blocks \cup {Private, NIL}]]
    BY <1>3, <1>6, MappedType
  <2>2. data' \in [Procs -> [Fds -> [Indices -> Blocks \cup {Private, NIL}]]]
    BY <1>4, <1>6, <2>1 DEF Ind, DescType
  <2>3. fds' \in [Procs -> [Fds -> Descriptors \cup {NIL}]]
    BY <1>3, <1>4 DEF Ind, DescType
  <2> QED
    BY <2>2, <2>3 DEF DescType
<1>8. \A q \in Procs \ {p} : fds'[q] = fds[q]
  BY <1>4 DEF Ind, DescType
<1>9. CallsType' /\ CallsOk' /\ ServerOk'
  BY <1>1, <1>2, <1>8, EndStep DEF close_flushed
<1> QED
  BY <1>1, <1>7, <1>9, Frame DEF Ind

LEMMA DupInd ==
  ASSUME Ind, NEW p \in Procs, dup(p)
  PROVE  Ind'
<1>1. Begin(p) /\ status[p] = "run" /\ ipc[p].at = "no" /\ ProcType' /\ UNCHANGED status
  BY BeginFacts DEF dup
<1>2. PICK m \in Fds, n \in Fds :
        IF Open(p, n) THEN CloseBegin(p, [Call("close", n) EXCEPT !.then = "dup", !.arg = m])
        ELSE /\ data' = [data EXCEPT ![p] = Mapped(@, n, m)]
             /\ fds' = [fds EXCEPT ![p][n] = fds[p][m]]
             /\ UNCHANGED <<serverVars, filefd, unsaved, server, call, ipc>>
  BY DEF dup
<1>3. CASE Open(p, n)
  <2>1. Call("close", n) \in CallType
    BY CallFacts
  <2>2. PICK c \in CallType : c = [Call("close", n) EXCEPT !.then = "dup", !.arg = m]
    BY <2>1 DEF CallType
  <2>3. c.op = "close" /\ c.n = n /\ c.then = "dup"
    BY <2>2 DEF Call
  <2> QED
    BY <1>1, <1>2, <1>3, <2>2, <2>3, CloseBeginInd DEF Ind
<1>4. CASE ~Open(p, n)
  <2>1. /\ data' = [data EXCEPT ![p] = Mapped(data[p], n, m)]
        /\ fds' = [fds EXCEPT ![p][n] = fds[p][m]]
        /\ UNCHANGED <<opentab, file, dirty, filefd, unsaved, server, call, ipc>>
    BY <1>2, <1>4 DEF serverVars
  <2>2. Mapped(data[p], n, m) \in [Fds -> [Indices -> Blocks \cup {Private, NIL}]]
    BY MappedType DEF Ind, DescType
  <2>3. DescType'
    BY <2>1, <2>2 DEF Ind, DescType
  <2>4. call'[p] = NIL /\ \A q \in Procs \ {p} : fds'[q] = fds[q]
    BY <1>1, <2>1 DEF Begin, Idle, Ind, DescType
  <2>5. CallsType' /\ CallsOk' /\ ServerOk'
    BY <1>1, <2>1, <2>4, CallsKept, ServerKept DEF Ind, CallsType
  <2> QED
    BY <1>1, <2>1, <2>3, <2>5, Frame DEF Ind
<1> QED
  BY <1>3, <1>4

LEMMA SyncInd ==
  ASSUME Ind, NEW p \in Procs, sync(p)
  PROVE  Ind'
<1>1. Begin(p) /\ status[p] = "run" /\ ipc[p].at = "no" /\ ProcType' /\ UNCHANGED status
  BY BeginFacts DEF sync
<1>2. UNCHANGED <<server, fds, data, opentab, filefd, file, dirty, unsaved>>
  BY DEF sync, serverVars
<1>3. PICK c \in CallType : c = Call("sync", 0)
  <2>1. 0 \in Fds
    BY FileServerAssumption DEF Fds
  <2> QED
    BY <2>1, CallFacts
<1>4. PICK rq \in Requests : rq = [type |-> "SYNC"]
  BY DEF Requests
<1>5. CallsType' /\ CallsOk' /\ ServerOk'
  BY <1>1, <1>2, <1>3, <1>4, CallStep DEF sync, fsipc, Call
<1> QED
  BY <1>1, <1>2, <1>5, Frame DEF Ind

LEMMA ForkInd ==
  ASSUME Ind, NEW p \in Procs, NEW q \in Procs, fork(p, q)
  PROVE  Ind'
<1>1. UNCHANGED <<opentab, filefd, file, dirty, unsaved, server, failed, call, ipc>>
  BY DEF fork, serverVars
<1>2. /\ status[p] = "run" /\ status[q] = "unborn" /\ p # q
      /\ status' = [status EXCEPT ![q] = "run"]
      /\ fds' = [fds EXCEPT ![q] = fds[p]] /\ data' = [data EXCEPT ![q] = data[p]]
  BY DEF fork, Idle
<1>3. calls' \in 0 .. MaxCalls
  BY FileServerAssumption DEF fork, Count, Ind, ProcType
<1>4. call[q] = NIL
  BY <1>2 DEF Ind, CallsOk, CallOk
<1>5. ipc[q].at = "no"
  BY <1>4 DEF Ind, CallsType, Silent
<1>6. ProcType' /\ DescType'
  BY <1>1, <1>2, <1>3 DEF Ind, ProcType, DescType
<1>7. \A x \in Procs \ {q} : fds'[x] = fds[x] /\ status'[x] = status[x]
  BY <1>2 DEF Ind, ProcType, DescType
<1>8. CallsType' /\ CallsOk' /\ ServerOk'
  BY <1>1, <1>4, <1>5, <1>7, CallsKept, ServerKept DEF Ind, CallsType
<1> QED
  BY <1>1, <1>6, <1>8, Frame DEF Ind

LEMMA ExitInd ==
  ASSUME Ind, NEW p \in Procs, exit(p)
  PROVE  Ind'
<1>1. UNCHANGED <<opentab, filefd, file, dirty, unsaved, server, calls, failed, fds, data, call, ipc>>
  BY DEF exit, serverVars
<1>2. status' = [status EXCEPT ![p] = "exit"] /\ call[p] = NIL
  BY DEF exit, Idle
<1>3. ProcType'
  BY <1>1, <1>2 DEF Ind, ProcType
<1>4. ipc[p].at = "no" /\ \A x \in Procs \ {p} : status'[x] = status[x]
  BY <1>2 DEF Ind, CallsType, Silent, ProcType
<1>5. CallsType' /\ CallsOk' /\ ServerOk'
  BY <1>1, <1>2, <1>4, CallsKept, ServerKept DEF Ind, CallsType
<1> QED
  BY <1>1, <1>3, <1>5, Frame DEF Ind

LEMMA CloseAllInd ==
  ASSUME Ind, NEW p \in Procs, close_all(p)
  PROVE  Ind'
<1>1. status[p] = "exit" /\ call[p] = NIL /\ ipc[p].at = "no" /\ UNCHANGED <<calls, failed>>
  BY DEF close_all, Ind, CallsType, Silent
<1>2. CASE \E n \in Fds : Open(p, n) /\ CloseBegin(p, Call("close", n)) /\ UNCHANGED status
  <2>1. PICK n \in Fds : Open(p, n) /\ CloseBegin(p, Call("close", n)) /\ UNCHANGED status
    BY <1>2
  <2>2. PICK c \in CallType : c = Call("close", n)
    BY CallFacts
  <2>3. c.op = "close" /\ c.n = n /\ c.then = ""
    BY <2>2 DEF Call
  <2> QED
    BY <1>1, <2>1, <2>2, <2>3, CloseBeginInd, Frame DEF Ind
<1>3. CASE /\ status' = [status EXCEPT ![p] = "done"]
           /\ UNCHANGED <<serverVars, filefd, unsaved, server, fds, data, call, ipc>>
  <2>1. UNCHANGED <<opentab, filefd, file, dirty, unsaved, server, fds, data, call, ipc>>
    BY <1>3 DEF serverVars
  <2>2. ProcType' /\ \A x \in Procs \ {p} : status'[x] = status[x]
    BY <1>1, <1>3 DEF Ind, ProcType
  <2>3. CallsType' /\ CallsOk' /\ ServerOk'
    BY <1>1, <2>1, <2>2, CallsKept, ServerKept DEF Ind, CallsType
  <2> QED
    BY <2>1, <2>2, <2>3, Frame DEF Ind
<1> QED
  BY <1>2, <1>3 DEF close_all

LEMMA SendInd ==
  ASSUME Ind, NEW p \in Procs, Send(p)
  PROVE  Ind'
<1>1. UNCHANGED <<opentab, filefd, file, dirty, unsaved, status, calls, failed, fds, data, call>>
  BY DEF Send, serverVars, procVars
<1>2. /\ ipc[p].at = "send" /\ server' = [at |-> "serve", whom |-> p]
      /\ ipc' = [ipc EXCEPT ![p].at = "sent"]
  BY DEF Send, ipc_send
<1>3. /\ ipc' \in [Procs -> Messages] /\ ipc'[p].at = "sent" /\ ipc'[p].request = ipc[p].request
      /\ \A q \in Procs \ {p} : ipc'[q] = ipc[q]
  BY <1>2 DEF Ind, CallsType, Messages, Silent
<1>4. CallsType' /\ call[p] # NIL
  BY <1>1, <1>2, <1>3 DEF Ind, CallsType, Silent
<1>5. CallsOk'
  BY <1>1, <1>2, <1>3 DEF Ind, CallsOk, CallOk, Opening, Open
<1>6. ServerOk'
  BY <1>2, <1>3 DEF ServerOk, Servers
<1> QED
  BY <1>1, <1>4, <1>5, <1>6, Frame DEF Ind

LEMMA RecvInd ==
  ASSUME Ind, NEW p \in Procs, ipc_recv(p)
  PROVE  Ind'
<1>1. UNCHANGED <<opentab, filefd, file, dirty, unsaved, server, status, calls, failed, fds, data, call>>
  BY DEF ipc_recv, serverVars, procVars
<1>2. ipc[p].at = "sent" /\ ipc' = [ipc EXCEPT ![p].at = "recv"]
  BY DEF ipc_recv
<1>3. /\ ipc' \in [Procs -> Messages] /\ ipc'[p].at = "recv" /\ ipc'[p].request = ipc[p].request
      /\ \A q \in Procs \ {p} : ipc'[q] = ipc[q]
  BY <1>2 DEF Ind, CallsType, Messages, Silent
<1>4. CallsType'
  BY <1>1, <1>2, <1>3 DEF Ind, CallsType, Silent
<1>5. CallsOk'
  BY <1>1, <1>2, <1>3 DEF Ind, CallsOk, CallOk, Opening, Open
<1>6. server.at \in {"serve", "send"} => server.whom \in Procs
  BY DEF Ind, ServerOk, Servers, Waiting
<1>7. ServerOk'
  BY <1>1, <1>3, <1>6 DEF Ind, ServerOk, Opening
<1> QED
  BY <1>1, <1>4, <1>5, <1>7, Frame DEF Ind

\* The server answers.
LEMMA SendFacts ==
  ASSUME Ind, SendReply
  PROVE  /\ server.at = "send" /\ server.whom \in Procs /\ server.r \in Answers
         /\ server.page \in PageRecs /\ ipc[server.whom].at = "recv"
  BY DEF Ind, ServerOk, Servers, Waiting, SendReply, Receiving

LEMMA SendReplyInd ==
  ASSUME Ind, SendReply
  PROVE  Ind'
<1>1. UNCHANGED <<opentab, filefd, file, dirty, unsaved, status, calls, failed, call>> /\ server' = Waiting
  BY DEF SendReply, serverVars, procVars
<1>2. PICK p \in Procs, page \in PageRecs : p = server.whom /\ page = server.page
  BY SendFacts
<1>3. /\ ipc' = [ipc EXCEPT ![p] = IF @.at = "recv" THEN [at |-> "got", r |-> server.r] ELSE @]
      /\ fds' = IF page.kind # "Filefd" THEN fds
                ELSE [fds EXCEPT ![p][call[p].n] = [o |-> page.o, fileid |-> filefd[page.o].fileid]]
      /\ data' = IF page.kind # "block" THEN data
                 ELSE [data EXCEPT ![p][call[p].n][call[p].i] = page.b]
  BY <1>2 DEF SendReply
<1>4. /\ ipc' \in [Procs -> Messages] /\ ipc'[p] = [at |-> "got", r |-> server.r]
      /\ \A q \in Procs \ {p} : ipc'[q] = ipc[q]
  BY <1>2, <1>3, SendFacts DEF Ind, CallsType, Messages
<1>5. CallsType' /\ call[p] # NIL /\ call[p] \in CallType /\ call[p].n \in Fds
  <2>1. ipc[p] # Silent /\ ipc'[p] # Silent
    BY <1>2, <1>4, SendFacts DEF Silent
  <2>2. call[p] \in CallType /\ call[p] # NIL
    BY <2>1 DEF Ind, CallsType
  <2>3. CallsType'
    BY <1>1, <1>4, <2>1, <2>2 DEF Ind, CallsType
  <2> QED
    BY <2>2, <2>3 DEF CallType
<1>6. CASE page.kind = "Filefd"
  <2>1. page.o \in Entries
    BY <1>6 DEF PageRecs, NoPage
  <2>2. PICK d \in Descriptors : d = [o |-> page.o, fileid |-> filefd[page.o].fileid]
    BY <2>1 DEF Ind, TableType, Descriptors
  <2>3. fds' = [fds EXCEPT ![p][call[p].n] = d] /\ UNCHANGED data
    BY <1>3, <1>6, <2>2
  <2>4. DescType' /\ fds'[p][call[p].n] = d /\ \A q \in Procs \ {p} : fds'[q] = fds[q]
    BY <1>5, <2>3 DEF Ind, DescType
  <2>5. CallOk(p)'
    BY <1>1, <1>4, <1>5, <2>4, Constants DEF Ind, CallsOk, CallOk, Opening, Open
  <2> QED
    BY <1>1, <1>4, <1>5, <2>4, <2>5, CallsKept, Frame DEF Ind, ServerOk, Servers, Waiting
<1>7. CASE page.kind # "Filefd"
  <2>1. UNCHANGED fds
    BY <1>3, <1>7
  <2>2. page.kind = "block" => page.b \in Blocks
    BY DEF PageRecs, NoPage
  <2>3. DescType'
    BY <1>3, <2>1, <2>2 DEF Ind, DescType
  <2>4. CallOk(p)'
    BY <1>1, <1>2, <1>4, <1>5, <1>7, <2>1, SendFacts DEF Ind, CallsOk, CallOk, Opening, Open, ServerOk, Answers
  <2> QED
    BY <1>1, <1>4, <1>5, <2>1, <2>3, <2>4, CallsKept, Frame DEF Ind, ServerOk, Servers, Waiting
<1> QED
  BY <1>6, <1>7

-----------------------------------------------------------------------------
(***************************************************************************)
(* The server.                                                             *)
(***************************************************************************)
LEMMA ServeFacts ==
  ASSUME Ind, serve
  PROVE  /\ server.at = "serve" /\ server.whom \in Procs
         /\ ipc[server.whom].at \in {"sent", "recv"} /\ ipc[server.whom].request \in Requests
         /\ call[server.whom] # NIL
         /\ Opening(server.whom) => ipc[server.whom].request.type = "OPEN"
         /\ UNCHANGED <<status, calls, failed, fds, data, call, ipc>>
<1>1. server.at = "serve" /\ UNCHANGED <<status, calls, failed, fds, data, call, ipc>>
  BY DEF serve, procVars
<1>2. server.whom \in Procs /\ ipc[server.whom].at \in {"sent", "recv"}
  BY <1>1 DEF Ind, ServerOk, Servers, Waiting
<1>3. ipc[server.whom].request \in Requests /\ ipc[server.whom] # Silent
  BY <1>2 DEF Ind, CallsType, Messages, Silent
<1>4. call[server.whom] # NIL
  BY <1>2, <1>3 DEF Ind, CallsType
<1>5. Opening(server.whom) => ipc[server.whom].request.type = "OPEN"
  BY <1>2, <1>4 DEF Ind, CallsOk, CallOk
<1> QED
  BY <1>1, <1>2, <1>3, <1>4, <1>5

\* A reply keeps the invariant of the server.
LEMMA ReplyInd ==
  ASSUME Ind, NEW p \in Procs, NEW r \in Answers, NEW page \in PageRecs, reply(p, r, page),
         ipc[p].at \in {"sent", "recv"}, UNCHANGED <<call, ipc, status, fds>>,
         Opening(p) => r = "error" \/ page.kind = "Filefd"
  PROVE  CallsType' /\ CallsOk' /\ ServerOk'
<1>1. server' = [at |-> "send", whom |-> p, r |-> r, page |-> page]
  BY DEF reply
<1>2. server' \in Servers
  BY <1>1 DEF Servers
<1>3. ServerOk'
  BY <1>1, <1>2 DEF ServerOk, Opening, Answers
<1>4. CallsType' /\ CallsOk'
  BY DEF Ind, CallsType, CallsOk, CallOk, Opening, Open
<1> QED
  BY <1>3, <1>4

\* An answer without a page to whoever does not open a file, and an error to anybody.
LEMMA OkErrInd ==
  ASSUME Ind, NEW p \in Procs, ipc[p].at \in {"sent", "recv"},
         UNCHANGED <<call, ipc, status, fds>>, Err(p) \/ (Ok(p) /\ ~Opening(p))
  PROVE  CallsType' /\ CallsOk' /\ ServerOk'
<1>1. NoPage \in PageRecs /\ "ok" \in Answers /\ "error" \in Answers
  BY DEF PageRecs, Answers
<1>2. CASE Err(p)
  BY <1>1, <1>2, ReplyInd DEF Err
<1>3. CASE Ok(p) /\ ~Opening(p)
  BY <1>1, <1>3, ReplyInd DEF Ok
<1> QED
  BY <1>2, <1>3

LEMMA ServeOpenInd ==
  ASSUME Ind, NEW p \in Procs, NEW rq \in Requests, rq.type = "OPEN", serve_open(p, rq),
         ipc[p].at \in {"sent", "recv"}, UNCHANGED <<call, ipc, status, calls, failed, fds, data>>
  PROVE  Ind'
<1>1. CASE open_alloc = {}
  <2>1. server' = [at |-> "lost"] /\ UNCHANGED <<opentab, file, dirty, filefd, unsaved>>
    BY <1>1 DEF serve_open, serverVars
  <2>2. ServerOk'
    BY <2>1 DEF ServerOk, Servers
  <2>3. CallsType' /\ CallsOk'
    BY DEF Ind, CallsType, CallsOk, CallOk, Opening, Open
  <2> QED
    BY <2>1, <2>2, <2>3, Frame DEF Ind
<1>2. CASE open_alloc # {}
  <2>1. PICK o \in open_alloc, id \in {opentab[x].fileid + MAXOPEN : x \in open_alloc} :
          /\ opentab' = [opentab EXCEPT ![o] = [fileid |-> id, page |-> TRUE]]
          /\ filefd' = [filefd EXCEPT ![o] = IF rq.found THEN [fileid |-> id, size |-> file.size]
                                             ELSE [fileid |-> 0, size |-> 0]]
          /\ IF rq.found THEN reply(p, "ok", [kind |-> "Filefd", o |-> o]) ELSE Err(p)
          /\ UNCHANGED <<file, dirty, unsaved>>
    BY <1>2 DEF serve_open
  <2>2. o \in Entries
    BY DEF open_alloc
  <2>3. id \in Nat
    BY FileServerAssumption DEF open_alloc, Ind, TableType
  <2>4. TableType'
    BY <2>1, <2>2, <2>3, Constants DEF Ind, TableType, FileType
  <2>5. CASE rq.found
    <3>1. PICK page \in PageRecs : page = [kind |-> "Filefd", o |-> o]
      BY <2>2 DEF PageRecs
    <3>2. reply(p, "ok", page) /\ page.kind = "Filefd" /\ "ok" \in Answers
      BY <2>1, <2>5, <3>1 DEF Answers
    <3> QED
      BY <2>1, <2>4, <3>2, ReplyInd, Frame DEF Ind
  <2>6. CASE ~rq.found
    BY <2>1, <2>4, <2>6, OkErrInd, Frame DEF Ind
  <2> QED
    BY <2>5, <2>6
<1> QED
  BY <1>1, <1>2

LEMMA GetBlockType ==
  ASSUME Ind, NEW i \in Indices, NEW g \in GetBlock(i)
  PROVE  g.b \in Blocks /\ g.file \in [size : Sizes, block : [Indices -> Blocks \cup {NIL}]]
<1>1. CASE file.block[i] = NIL
  <2>1. PICK b \in Blocks : g = [file |-> [file EXCEPT !.block[i] = b], b |-> b]
    BY <1>1 DEF GetBlock
  <2> QED
    BY <2>1 DEF Ind, FileType
<1>2. CASE file.block[i] # NIL
  BY <1>2 DEF GetBlock, Ind, FileType
<1> QED
  BY <1>1, <1>2

\* The requests about an open file do not touch the tables.
LEMMA ServeMapInd ==
  ASSUME Ind, NEW p \in Procs, NEW rq \in Requests, rq.type = "MAP", serve_map(p, rq), ~Opening(p),
         ipc[p].at \in {"sent", "recv"}, UNCHANGED <<call, ipc, status, calls, failed, fds, data>>
  PROVE  Ind'
<1>1. rq.i \in Indices
  BY DEF Requests
<1>2. CASE Err(p) /\ UNCHANGED <<serverVars, filefd, unsaved>>
  BY <1>2, OkErrInd, Frame DEF Ind, serverVars
<1>3. CASE \E g \in GetBlock(rq.i) :
             /\ file' = g.file /\ reply(p, "ok", [kind |-> "block", b |-> g.b])
             /\ UNCHANGED <<opentab, filefd, dirty, unsaved>>
  <2>1. PICK g \in GetBlock(rq.i) :
             /\ file' = g.file /\ reply(p, "ok", [kind |-> "block", b |-> g.b])
             /\ UNCHANGED <<opentab, filefd, dirty, unsaved>>
    BY <1>3
  <2>2. g.b \in Blocks /\ FileType'
    BY <1>1, <2>1, GetBlockType DEF Ind, FileType
  <2>3. PICK page \in PageRecs : page = [kind |-> "block", b |-> g.b]
    BY <2>2 DEF PageRecs
  <2>4. reply(p, "ok", page) /\ "ok" \in Answers
    BY <2>1, <2>3 DEF Answers
  <2>5. CallsType' /\ CallsOk' /\ ServerOk'
    BY <2>4, ReplyInd
  <2> QED
    BY <2>1, <2>2, <2>5, Frame DEF Ind
<1> QED
  BY <1>2, <1>3 DEF serve_map, Lookup, WithBlock

LEMMA ServeDirtyInd ==
  ASSUME Ind, NEW p \in Procs, NEW rq \in Requests, rq.type = "DIRTY", serve_dirty(p, rq), ~Opening(p),
         ipc[p].at \in {"sent", "recv"}, UNCHANGED <<call, ipc, status, calls, failed, fds, data>>
  PROVE  Ind'
<1>1. rq.i \in Indices
  BY DEF Requests
<1>2. Err(p) \/ Ok(p)
  BY DEF serve_dirty, Lookup
<1>3. UNCHANGED <<opentab, filefd, file, unsaved>>
  BY DEF serve_dirty, Lookup, serverVars
<1>4. dirty' \subseteq Blocks
  BY <1>1 DEF serve_dirty, Lookup, serverVars, Ind, FileType
<1>5. FileType'
  BY <1>3, <1>4 DEF Ind, FileType
<1> QED
  BY <1>2, <1>3, <1>5, OkErrInd, Frame DEF Ind

LEMMA SetSizeType ==
  ASSUME Ind, NEW size \in Sizes
  PROVE  file_set_size(size) \in [size : Sizes, block : [Indices -> Blocks \cup {NIL}]]
<1>1. [i \in Indices |-> IF (size = 0 \/ i > size) /\ i <= file.size THEN NIL ELSE file.block[i]]
      \in [Indices -> Blocks \cup {NIL}]
  BY DEF Ind, FileType
<1> QED
  BY <1>1 DEF file_set_size, Truncated, Ind, FileType

LEMMA ServeSetSizeInd ==
  ASSUME Ind, NEW p \in Procs, NEW rq \in Requests, rq.type = "SET_SIZE", serve_set_size(p, rq), ~Opening(p),
         ipc[p].at \in {"sent", "recv"}, UNCHANGED <<call, ipc, status, calls, failed, fds, data>>
  PROVE  Ind'
<1>1. rq.i \in Sizes
  BY DEF Requests
<1>2. Err(p) \/ Ok(p)
  BY DEF serve_set_size, Lookup
<1>3. UNCHANGED <<opentab, filefd, dirty, unsaved>> /\ file' \in {file, file_set_size(rq.i)}
  BY DEF serve_set_size, Lookup, serverVars
<1>4. FileType'
  BY <1>1, <1>3, SetSizeType DEF Ind, FileType
<1> QED
  BY <1>2, <1>3, <1>4, OkErrInd, Frame DEF Ind

LEMMA ServeCloseInd ==
  ASSUME Ind, NEW p \in Procs, NEW rq \in Requests, serve_close(p, rq) \/ serve_sync(p), ~Opening(p),
         ipc[p].at \in {"sent", "recv"}, UNCHANGED <<call, ipc, status, calls, failed, fds, data>>
  PROVE  Ind'
<1>1. Err(p) \/ Ok(p)
  BY DEF serve_close, serve_sync, Lookup
<1>2. UNCHANGED <<opentab, filefd, file, dirty>> /\ unsaved' \subseteq unsaved
  BY DEF serve_close, serve_sync, Lookup, serverVars, Flushed
<1>3. FileType'
  BY <1>2 DEF Ind, FileType
<1> QED
  BY <1>1, <1>2, <1>3, OkErrInd, Frame DEF Ind

LEMMA ServeInd ==
  ASSUME Ind, serve
  PROVE  Ind'
<1>1. PICK p \in Procs, rq \in Requests :
        p = server.whom /\ rq = ipc[server.whom].request
  BY ServeFacts
<1>2. /\ ipc[p].at \in {"sent", "recv"} /\ UNCHANGED <<call, ipc, status, calls, failed, fds, data>>
      /\ (Opening(p) => rq.type = "OPEN")
  BY <1>1, ServeFacts
<1>3. \/ rq.type = "OPEN" /\ serve_open(p, rq)
      \/ rq.type = "MAP" /\ serve_map(p, rq)
      \/ rq.type = "SET_SIZE" /\ serve_set_size(p, rq)
      \/ rq.type = "DIRTY" /\ serve_dirty(p, rq)
      \/ rq.type = "CLOSE" /\ serve_close(p, rq)
      \/ rq.type = "SYNC" /\ serve_sync(p)
  BY <1>1 DEF serve
<1> QED
  BY <1>2, <1>3, ServeOpenInd, ServeMapInd, ServeSetSizeInd, ServeDirtyInd, ServeCloseInd

-----------------------------------------------------------------------------
LEMMA InitInd == Init => Ind
<1> SUFFICES ASSUME Init PROVE Ind
  OBVIOUS
<1>1. TableType
  BY FileServerAssumption DEF Init, TableType, Entries, Sizes
<1>2. FileType
  <2>1. PICK b \in [Indices -> Blocks \cup {NIL}] :
          file = [size |-> Cardinality({i \in Indices : b[i] # NIL}), block |-> b]
    BY DEF Init
  <2>2. {i \in Indices : b[i] # NIL} \in SUBSET (0 .. MaxSize - 1)
    BY DEF Indices
  <2>3. IsFiniteSet(0 .. MaxSize - 1) /\ Cardinality(0 .. MaxSize - 1) = MaxSize
    BY FS_Interval, FileServerAssumption
  <2>4. Cardinality({i \in Indices : b[i] # NIL}) \in Sizes
    BY <2>2, <2>3, FS_Subset, FS_CardinalityType, FileServerAssumption DEF Sizes
  <2> QED
    BY <2>1, <2>4 DEF Init, FileType
<1>3. ProcType
  BY FileServerAssumption DEF Init, ProcType
<1>4. DescType
  BY DEF Init, DescType, NoFds, NoPages
<1>5. CallsType /\ CallsOk
  BY DEF Init, CallsType, CallsOk, Messages
<1>6. ServerOk
  BY DEF Init, ServerOk, Servers, Waiting
<1> QED
  BY <1>1, <1>2, <1>3, <1>4, <1>5, <1>6 DEF Ind

LEMMA GoOnInd ==
  ASSUME Ind, NEW p \in Procs, GoOn(p)
  PROVE  Ind'
  BY SendInd, RecvInd, OpenGotInd, OpenMappedInd, TruncateSetInd, TruncateMappedInd,
     TruncateBackInd, CloseDirtiedInd, CloseFlushedInd, CloseAllInd DEF GoOn

LEMMA NextInd == Ind /\ [Next]_vars => Ind'
<1> SUFFICES ASSUME Ind, [Next]_vars PROVE Ind'
  OBVIOUS
<1>1. CASE serve
  BY <1>1, ServeInd
<1>2. CASE SendReply
  BY <1>2, SendReplyInd
<1>3. ASSUME NEW p \in Procs,
             open(p) \/ ftruncate(p) \/ write(p) \/ close(p) \/ dup(p) \/ sync(p) \/ exit(p)
      PROVE  Ind'
  BY <1>3, OpenInd, FtruncateInd, WriteInd, CloseInd, DupInd, SyncInd, ExitInd
<1>4. ASSUME NEW p \in Procs, NEW q \in Procs, fork(p, q) PROVE Ind'
  BY <1>4, ForkInd
<1>5. ASSUME NEW p \in Procs, GoOn(p) PROVE Ind'
  BY <1>5, GoOnInd
<1>6. CASE UNCHANGED vars
  BY <1>6 DEF vars, serverVars, procVars, Ind, TableType, FileType, ProcType, DescType,
     CallsType, CallsOk, CallOk, Opening, Open, ServerOk
<1> QED
  BY <1>1, <1>2, <1>3, <1>4, <1>5, <1>6 DEF Next

LEMMA IndType == Ind => TypeOK
<1> SUFFICES ASSUME Ind PROVE TypeOK
  OBVIOUS
<1>1. server.at \in {"recv", "serve", "send", "lost"}
  BY DEF Ind, ServerOk, Servers, Waiting
<1>2. \A p \in Procs : ipc[p].at \in {"no", "send", "sent", "recv", "got"}
  BY DEF Ind, CallsType, Messages, Silent
<1>3. \A p \in Procs : (ipc[p] = Silent) = (call[p] = NIL)
  BY DEF Ind, CallsType
<1> QED
  BY <1>1, <1>2, <1>3 DEF Ind, TableType, FileType, ProcType, DescType, CallsType, TypeOK, Sizes

(***************************************************************************)
(* Whatever the processes call and whatever fails, the tables, the         *)
(* descriptors and the calls keep their types (serv.c, fd.c, file.c).      *)
(***************************************************************************)
THEOREM TypeSafe == Spec => []TypeOK
<1>1. Init => Ind
  BY InitInd
<1>2. Ind /\ [Next]_vars => Ind'
  BY NextInd
<1>3. Ind => TypeOK
  BY IndType
<1> QED
  BY <1>1, <1>2, <1>3, PTL DEF Spec

-----------------------------------------------------------------------------
(***************************************************************************)
(* An entry is not given to another file while somebody has it.  While the *)
(* page of an entry is on its way to the client, nobody has it as a        *)
(* descriptor, and only the server's being busy keeps the entry.           *)
(***************************************************************************)
Same(o)     == opentab[o].page /\ opentab[o].fileid = filefd[o].fileid
HeldInd     ==
  /\ \A p \in Procs, n \in Fds : Open(p, n) =>
       Same(fds[p][n].o) /\ fds[p][n].fileid = opentab[fds[p][n].o].fileid
  /\ server.at = "send" /\ server.page.kind = "Filefd" => Same(server.page.o)

\* With its page allocated, an unused entry has no descriptors: what pageref counts.
LEMMA UnusedIsFree ==
  ASSUME Ind, NEW o \in Entries, opentab[o].page, Unused(o)
  PROVE  \A p \in Procs, n \in Fds : Open(p, n) => fds[p][n].o # o
<1>1. IsFiniteSet(Fds) /\ IsFiniteSet(Procs)
  BY FS_Interval, FileServerAssumption DEF Fds
<1>2. IsFiniteSet(Procs \X Fds)
  BY <1>1, FS_Product
<1>3. Holders(o) \in SUBSET (Procs \X Fds)
  BY DEF Holders
<1>4. IsFiniteSet(Holders(o))
  BY <1>2, <1>3, FS_Subset
<1>5. Cardinality(Holders(o)) \in Nat
  BY <1>4, FS_CardinalityType
<1>6. Cardinality(Holders(o)) = 0
  BY <1>5 DEF Unused, pageref
<1>7. Holders(o) = {}
  BY <1>4, <1>6, FS_EmptySet
<1>8. \A p \in Procs, n \in Fds : Open(p, n) /\ fds[p][n].o = o => <<p, n>> \in Holders(o)
  BY DEF Open, Holders
<1> QED
  BY <1>7, <1>8

\* Descriptors are passed on, and what an entry is for does not change.
LEMMA HeldKept ==
  ASSUME Ind, HeldInd, UNCHANGED opentab,
         \A o \in Entries : filefd'[o].fileid = filefd[o].fileid,
         \A p \in Procs, n \in Fds : fds'[p][n] # NIL =>
           \E q \in Procs, m \in Fds : fds[q][m] # NIL /\ fds'[p][n] = fds[q][m],
         server' = server \/ server'.at # "send" \/ server'.page.kind # "Filefd"
  PROVE  HeldInd'
<1>1. ASSUME NEW p \in Procs, NEW n \in Fds, fds'[p][n] # NIL
      PROVE  /\ opentab'[fds'[p][n].o].page
             /\ opentab'[fds'[p][n].o].fileid = filefd'[fds'[p][n].o].fileid
             /\ fds'[p][n].fileid = opentab'[fds'[p][n].o].fileid
  <2>1. PICK q \in Procs, m \in Fds : fds[q][m] # NIL /\ fds'[p][n] = fds[q][m]
    BY <1>1
  <2>2. fds[q][m].o \in Entries
    BY <2>1, FdFacts DEF Open
  <2> QED
    BY <2>1, <2>2 DEF HeldInd, Same, Open
<1>2. ASSUME server'.at = "send", server'.page.kind = "Filefd"
      PROVE  /\ opentab'[server'.page.o].page
             /\ opentab'[server'.page.o].fileid = filefd'[server'.page.o].fileid
  <2>1. server' = server
    BY <1>2
  <2>2. server.page \in PageRecs
    BY <1>2, <2>1 DEF Ind, ServerOk, Servers, Waiting
  <2>3. server.page.o \in Entries
    BY <1>2, <2>1, <2>2 DEF PageRecs, NoPage
  <2> QED
    BY <1>2, <2>1, <2>3 DEF HeldInd, Same
<1> QED
  BY <1>1, <1>2 DEF HeldInd, Same, Open

\* Steps that touch none of this.
LEMMA HeldAside ==
  ASSUME Ind, HeldInd, UNCHANGED <<opentab, filefd, fds>>, server' = server \/ server'.at # "send"
  PROVE  HeldInd'
  BY HeldKept

LEMMA HeldResize ==
  ASSUME Ind, HeldInd, NEW p \in Procs, ftruncate(p) \/ write(p)
  PROVE  HeldInd'
<1>1. UNCHANGED <<opentab, fds, server>>
  BY DEF ftruncate, write, resize, serverVars
<1>2. ASSUME NEW n \in Fds, NEW size, NEW then, resize(p, n, size, then), NEW o \in Entries
      PROVE  filefd'[o].fileid = filefd[o].fileid
  <2>1. filefd' = [filefd EXCEPT ![fds[p][n].o].size = size]
    BY <1>2 DEF resize
  <2>2. filefd[o] \in [fileid : Nat, size : Sizes]
    BY DEF Ind, TableType
  <2> QED
    BY <2>1, <2>2 DEF Ind, TableType
<1>3. \A o \in Entries : filefd'[o].fileid = filefd[o].fileid
  <2>1. CASE ftruncate(p)
    BY <1>2, <2>1 DEF ftruncate
  <2>2. CASE write(p)
    <3>1. PICK n \in Fds, i \in Indices :
            resize(p, n, i + 1, "write") \/ UNCHANGED filefd
      BY <2>2 DEF write
    <3> QED
      BY <1>2, <3>1
  <2> QED
    BY <2>1, <2>2
<1> QED
  BY <1>1, <1>3, HeldKept

LEMMA HeldPassed ==
  ASSUME Ind, HeldInd, NEW p \in Procs, NEW q \in Procs, close_flushed(p) \/ dup(p) \/ fork(p, q)
  PROVE  HeldInd'
<1>1. UNCHANGED <<opentab, filefd, server>>
  BY DEF close_flushed, dup, fork, CloseBegin, serverVars
<1>2. CASE close_flushed(p)
  <2>1. call[p].n \in Fds /\ call[p].arg \in Fds
    BY <1>2, GotFacts DEF close_flushed, CallType
  <2>2. fds' = [fds EXCEPT ![p][call[p].n] = IF call[p].then = "dup" THEN fds[p][call[p].arg] ELSE NIL]
    BY <1>2 DEF close_flushed
  <2>3. \A x \in Procs, n \in Fds : fds'[x][n] # NIL =>
           \E y \in Procs, m \in Fds : fds[y][m] # NIL /\ fds'[x][n] = fds[y][m]
    BY <2>1, <2>2 DEF Ind, DescType
  <2> QED
    BY <1>1, <2>3, HeldKept
<1>3. CASE dup(p)
  <2>1. PICK m \in Fds, n \in Fds : fds' = fds \/ fds' = [fds EXCEPT ![p][n] = fds[p][m]]
    <3>1. PICK m \in Fds, n \in Fds :
            IF Open(p, n) THEN CloseBegin(p, [Call("close", n) EXCEPT !.then = "dup", !.arg = m])
            ELSE fds' = [fds EXCEPT ![p][n] = fds[p][m]]
      BY <1>3 DEF dup
    <3> QED
      BY <3>1 DEF CloseBegin
  <2>2. \A x \in Procs, k \in Fds : fds'[x][k] # NIL =>
           \E y \in Procs, j \in Fds : fds[y][j] # NIL /\ fds'[x][k] = fds[y][j]
    <3>1. CASE fds' = fds
      BY <3>1
    <3>2. CASE fds' = [fds EXCEPT ![p][n] = fds[p][m]]
      <4>1. \A x \in Procs, k \in Fds :
              fds'[x][k] = IF x = p /\ k = n THEN fds[p][m] ELSE fds[x][k]
        BY <3>2 DEF Ind, DescType
      <4> QED
        BY <4>1
    <3> QED
      BY <2>1, <3>1, <3>2
  <2> QED
    BY <1>1, <2>2, HeldKept
<1>4. CASE fork(p, q)
  <2>1. fds' = [fds EXCEPT ![q] = fds[p]]
    BY <1>4 DEF fork
  <2>2. \A x \in Procs, k \in Fds : fds'[x][k] # NIL =>
           \E y \in Procs, j \in Fds : fds[y][j] # NIL /\ fds'[x][k] = fds[y][j]
    BY <2>1 DEF Ind, DescType
  <2> QED
    BY <1>1, <2>2, HeldKept
<1> QED
  BY <1>2, <1>3, <1>4

\* serve: only open touches the tables, and it takes an entry that nobody has.
LEMMA HeldServe ==
  ASSUME Ind, HeldInd, serve
  PROVE  HeldInd'
<1>1. PICK p \in Procs, rq \in Requests :
        p = server.whom /\ rq = ipc[server.whom].request
  BY ServeFacts
<1>2. UNCHANGED fds /\ server.at = "serve"
  BY ServeFacts
<1>3. CASE rq.type = "OPEN" /\ serve_open(p, rq) /\ open_alloc # {}
  <2>1. PICK o \in open_alloc, id \in {opentab[x].fileid + MAXOPEN : x \in open_alloc} :
          /\ opentab' = [opentab EXCEPT ![o] = [fileid |-> id, page |-> TRUE]]
          /\ filefd' = [filefd EXCEPT ![o] = IF rq.found THEN [fileid |-> id, size |-> file.size]
                                             ELSE [fileid |-> 0, size |-> 0]]
          /\ IF rq.found THEN reply(p, "ok", [kind |-> "Filefd", o |-> o]) ELSE Err(p)
    BY <1>3 DEF serve_open
  <2>2. o \in Entries /\ Unused(o)
    BY DEF open_alloc
  <2>3. \A x \in Procs, n \in Fds : Open(x, n) => fds[x][n].o # o /\ fds[x][n].o \in Entries
    BY <2>2, UnusedIsFree, FdFacts DEF HeldInd, Same
  <2>4. \A x \in Procs, n \in Fds : Open(x, n) =>
          /\ opentab'[fds[x][n].o] = opentab[fds[x][n].o]
          /\ filefd'[fds[x][n].o] = filefd[fds[x][n].o]
    BY <2>1, <2>3 DEF Ind, TableType
  <2>5. opentab'[o] = [fileid |-> id, page |-> TRUE]
        /\ (rq.found => filefd'[o] = [fileid |-> id, size |-> file.size])
    BY <2>1, <2>2 DEF Ind, TableType
  <2>6. CASE rq.found
    <3>1. server' = [at |-> "send", whom |-> p, r |-> "ok", page |-> [kind |-> "Filefd", o |-> o]]
      BY <2>1, <2>6 DEF reply
    <3> QED
      BY <1>2, <2>4, <2>5, <2>6, <3>1 DEF HeldInd, Same, Open
  <2>7. CASE ~rq.found
    <3>1. server'.page.kind = "none"
      BY <2>1, <2>7 DEF Err, reply, NoPage
    <3> QED
      BY <1>2, <2>4, <3>1 DEF HeldInd, Same, Open
  <2> QED
    BY <2>6, <2>7
<1>4. CASE rq.type = "OPEN" /\ serve_open(p, rq) /\ open_alloc = {}
  BY <1>2, <1>4, HeldAside DEF serve_open, serverVars
<1>5. CASE serve_map(p, rq)
  <2>1. UNCHANGED <<opentab, filefd>>
    BY <1>5 DEF serve_map, Lookup, WithBlock, serverVars
  <2>2. server'.page.kind # "Filefd"
    BY <1>5 DEF serve_map, Lookup, WithBlock, Err, reply, NoPage
  <2> QED
    BY <1>2, <2>1, <2>2, HeldKept
<1>6. CASE serve_set_size(p, rq) \/ serve_dirty(p, rq) \/ serve_close(p, rq) \/ serve_sync(p)
  <2>1. UNCHANGED <<opentab, filefd>> /\ (Ok(p) \/ Err(p))
    BY <1>6 DEF serve_set_size, serve_dirty, serve_close, serve_sync, Lookup, serverVars
  <2>2. server'.page.kind # "Filefd"
    BY <2>1 DEF Ok, Err, reply, NoPage
  <2> QED
    BY <1>2, <2>1, <2>2, HeldKept
<1> QED
  BY <1>1, <1>3, <1>4, <1>5, <1>6 DEF serve

\* SendReply: the client gets the entry that was reserved for it.
LEMMA HeldSend ==
  ASSUME Ind, HeldInd, SendReply
  PROVE  HeldInd'
<1>1. UNCHANGED <<opentab, filefd, call>> /\ server' = Waiting
  BY DEF SendReply, serverVars
<1>2. PICK p \in Procs, page \in PageRecs : p = server.whom /\ page = server.page
  BY SendFacts
<1>3. fds' = IF page.kind # "Filefd" THEN fds
             ELSE [fds EXCEPT ![p][call[p].n] = [o |-> page.o, fileid |-> filefd[page.o].fileid]]
  BY <1>2 DEF SendReply
<1>4. CASE page.kind # "Filefd"
  BY <1>1, <1>3, <1>4, HeldAside DEF Waiting
<1>5. CASE page.kind = "Filefd"
  <2>1. Same(page.o)
    BY <1>2, <1>5, SendFacts DEF HeldInd
  <2>2. \A x \in Procs, n \in Fds : fds'[x][n] # NIL =>
          fds'[x][n] = fds[x][n] \/ fds'[x][n] = [o |-> page.o, fileid |-> filefd[page.o].fileid]
    BY <1>3, <1>5 DEF Ind, DescType
  <2> QED
    BY <1>1, <2>1, <2>2 DEF HeldInd, Same, Open, Waiting
<1> QED
  BY <1>4, <1>5

LEMMA HeldNext == Ind /\ HeldInd /\ [Next]_vars => HeldInd'
<1> SUFFICES ASSUME Ind, HeldInd, [Next]_vars PROVE HeldInd'
  OBVIOUS
<1>1. CASE serve
  BY <1>1, HeldServe
<1>2. CASE SendReply
  BY <1>2, HeldSend
<1>3. ASSUME NEW p \in Procs, ftruncate(p) \/ write(p) PROVE HeldInd'
  BY <1>3, HeldResize
<1>4. ASSUME NEW p \in Procs, NEW q \in Procs, dup(p) \/ close_flushed(p) \/ fork(p, q) PROVE HeldInd'
  BY <1>4, HeldPassed
<1>5. ASSUME NEW p \in Procs, open(p) \/ close(p) \/ sync(p) \/ exit(p) \/ close_all(p) PROVE HeldInd'
  <2>1. UNCHANGED <<opentab, filefd, fds, server>>
    BY <1>5 DEF open, close, sync, exit, close_all, CloseBegin, serverVars
  <2> QED
    BY <2>1, HeldAside
<1>6. ASSUME NEW p \in Procs, Send(p) \/ ipc_recv(p) PROVE HeldInd'
  <2>1. UNCHANGED <<opentab, filefd, fds>> /\ (server' = server \/ server'.at # "send")
    BY <1>6 DEF Send, ipc_send, ipc_recv, serverVars
  <2> QED
    BY <2>1, HeldAside
<1>7. ASSUME NEW p \in Procs,
             \/ open_got(p) \/ open_mapped(p) \/ truncate_set(p) \/ truncate_mapped(p)
             \/ truncate_back(p) \/ close_dirtied(p) \/ sync_got(p)
      PROVE  HeldInd'
  <2>1. UNCHANGED <<opentab, filefd, fds, server>>
    BY <1>7 DEF open_got, open_mapped, truncate_set, truncate_mapped, truncate_back, close_dirtied, sync_got, serverVars
  <2> QED
    BY <2>1, HeldAside
<1>8. CASE UNCHANGED vars
  BY <1>8, HeldAside DEF vars, serverVars
<1> QED
  BY <1>1, <1>2, <1>3, <1>4, <1>5, <1>6, <1>7, <1>8 DEF Next, GoOn

(***************************************************************************)
(* However descriptors are shared, duplicated and closed, open_alloc       *)
(* (serv.c:44) does not give an entry away while somebody has it.          *)
(***************************************************************************)
THEOREM HeldSafe == Spec => []HeldOpen
<1>1. Init => Ind /\ HeldInd
  <2>1. Init => HeldInd
    BY DEF Init, HeldInd, Open, NoFds, Waiting
  <2> QED
    BY <2>1, InitInd
<1>2. Ind /\ HeldInd /\ [Next]_vars => Ind' /\ HeldInd'
  BY NextInd, HeldNext
<1>3. Ind /\ HeldInd => HeldOpen
  BY DEF HeldInd, HeldOpen, Same, Fd
<1> QED
  BY <1>1, <1>2, <1>3, PTL DEF Spec

-----------------------------------------------------------------------------
(***************************************************************************)
(* fsipc implements a remote procedure call.                               *)
(***************************************************************************)
phases  == [p \in Procs |-> Phase(p)]
answers == [p \in Procs |-> Answer(p)]

\* What changes for one process, in the terms of Rpc.
LEMMA RpcMoves ==
  ASSUME NEW p \in Procs,
         \A q \in Procs \ {p} : Phase(q)' = Phase(q) /\ Answer(q)' = Answer(q)
  PROVE  /\ Phase(p) = "idle" /\ Phase(p)' = "asked" /\ Answer(p)' = NIL => R!Ask(p)
         /\ Phase(p) = "asked" /\ Phase(p)' = "done" /\ Answer(p)' \in Answers => R!Execute(p)
         /\ Phase(p) = "done" /\ Phase(p)' = "idle" /\ Answer(p)' = Answer(p) => R!Return(p)
         /\ Phase(p) = "idle" /\ Phase(p)' = "idle" /\ Answer(p)' = NIL => R!Forget(p)
         /\ Phase(p)' = Phase(p) /\ Answer(p)' = Answer(p) => UNCHANGED <<phases, answers>>
<1>1. \A x : Phase(p)' = x => phases' = [phases EXCEPT ![p] = x]
  BY DEF phases
<1>2. \A x : Answer(p)' = x => answers' = [answers EXCEPT ![p] = x]
  BY DEF answers
<1>3. Phase(p)' = Phase(p) => UNCHANGED phases
  BY DEF phases
<1>4. Answer(p)' = Answer(p) => UNCHANGED answers
  BY DEF answers
<1>5. phases[p] = Phase(p)
  BY DEF phases
<1>6. Phase(p) = "idle" /\ Phase(p)' = "asked" /\ Answer(p)' = NIL => R!Ask(p)
  BY <1>1, <1>2, <1>5 DEF R!Ask, R!Move, phases, answers
<1>7. Phase(p) = "asked" /\ Phase(p)' = "done" /\ Answer(p)' \in Answers => R!Execute(p)
  BY <1>1, <1>2, <1>5 DEF R!Execute, R!Move, phases, answers, Answers
<1>8. Phase(p) = "done" /\ Phase(p)' = "idle" /\ Answer(p)' = Answer(p) => R!Return(p)
  BY <1>1, <1>4, <1>5 DEF R!Return, R!Move, phases, answers
<1>9. Phase(p) = "idle" /\ Phase(p)' = "idle" /\ Answer(p)' = NIL => R!Forget(p)
  BY <1>1, <1>2, <1>5 DEF R!Forget, R!Move, phases, answers
<1> QED
  BY <1>3, <1>4, <1>6, <1>7, <1>8, <1>9

RpcStep == (\E p \in Procs : R!Ask(p) \/ R!Execute(p) \/ R!Return(p) \/ R!Forget(p))
           \/ UNCHANGED <<phases, answers>>

\* A process that is not waiting for the server asks, or goes on without.
LEMMA ClientStep ==
  ASSUME Ind, NEW p \in Procs, UNCHANGED server, ipc[p].at \in {"no", "got"},
         ipc'[p].at = "send" \/ ipc'[p] = Silent,
         \A q \in Procs \ {p} : ipc'[q] = ipc[q]
  PROVE  RpcStep
<1>1. ~Answering(p) /\ ~Answering(p)'
  BY DEF Ind, ServerOk, Answering
<1>2. \A q \in Procs \ {p} : Phase(q)' = Phase(q) /\ Answer(q)' = Answer(q)
  BY DEF Phase, Answer, Answering
<1>3. Phase(p) = "idle" /\ Phase(p)' \in {"idle", "asked"} /\ Answer(p)' = NIL
  BY <1>1 DEF Phase, Answer, Silent
<1> QED
  BY <1>2, <1>3, RpcMoves DEF RpcStep

\* The same for the forms that the steps of the library have.
Asks(p) == \E rq : ipc' = [ipc EXCEPT ![p] = [at |-> "send", request |-> rq]]
Ends(p) == ipc' = [ipc EXCEPT ![p] = Silent]

LEMMA AskOrEnd ==
  ASSUME Ind, NEW p \in Procs, UNCHANGED server, ipc[p].at \in {"no", "got"},
         Asks(p) \/ Ends(p) \/ UNCHANGED ipc
  PROVE  RpcStep
<1>1. CASE Asks(p) \/ Ends(p)
  <2>1. ipc'[p].at = "send" \/ ipc'[p] = Silent
    BY <1>1 DEF Asks, Ends, Ind, CallsType
  <2>2. \A q \in Procs \ {p} : ipc'[q] = ipc[q]
    BY <1>1 DEF Asks, Ends, Ind, CallsType
  <2> QED
    BY <2>1, <2>2, ClientStep
<1>2. CASE UNCHANGED ipc
  BY <1>2 DEF RpcStep, phases, answers, Phase, Answer, Answering
<1> QED
  BY <1>1, <1>2

LEMMA BeginRpc ==
  ASSUME Ind, NEW p \in Procs, open(p) \/ ftruncate(p) \/ write(p) \/ close(p) \/ dup(p) \/ sync(p)
  PROVE  RpcStep
<1>1. ipc[p].at \in {"no", "got"}
  BY BeginFacts DEF open, ftruncate, write, close, dup, sync
<1>2. CASE open(p)
  BY <1>1, <1>2, AskOrEnd DEF open, fsipc, Asks
<1>3. CASE ftruncate(p)
  BY <1>1, <1>3, AskOrEnd DEF ftruncate, resize, fsipc, Asks
<1>4. CASE write(p)
  BY <1>1, <1>4, AskOrEnd DEF write, resize, fsipc, Asks
<1>5. CASE close(p)
  BY <1>1, <1>5, AskOrEnd DEF close, CloseBegin, DirtyNext, fsipc, Asks
<1>6. CASE dup(p)
  BY <1>1, <1>6, AskOrEnd DEF dup, CloseBegin, DirtyNext, fsipc, Asks
<1>7. CASE sync(p)
  BY <1>1, <1>7, AskOrEnd DEF sync, fsipc, Asks
<1> QED
  BY <1>2, <1>3, <1>4, <1>5, <1>6, <1>7

LEMMA GotRpc ==
  ASSUME Ind, NEW p \in Procs,
         open_got(p) \/ open_mapped(p) \/ truncate_set(p) \/ truncate_mapped(p) \/ truncate_back(p)
         \/ close_dirtied(p) \/ close_flushed(p) \/ sync_got(p)
  PROVE  RpcStep
<1>1. ipc[p].at \in {"no", "got"}
  BY DEF open_got, open_mapped, truncate_set, truncate_mapped, truncate_back,
     close_dirtied, close_flushed, sync_got, Got
<1>2. CASE open_got(p) \/ open_mapped(p)
  BY <1>1, <1>2, AskOrEnd DEF open_got, open_mapped, OpenNext, MapNext, Return, fsipc, Asks, Ends
<1>3. CASE truncate_set(p)
  BY <1>1, <1>3, AskOrEnd DEF truncate_set, TruncateNext, truncated, MapNext, Return, fsipc, Asks, Ends
<1>4. CASE truncate_mapped(p)
  BY <1>1, <1>4, AskOrEnd DEF truncate_mapped, TruncateNext, truncated, MapNext, Return, fsipc, Asks, Ends
<1>5. CASE truncate_back(p) \/ close_flushed(p) \/ sync_got(p)
  BY <1>1, <1>5, AskOrEnd DEF truncate_back, close_flushed, sync_got, Return, Ends
<1>6. CASE close_dirtied(p)
  BY <1>1, <1>6, AskOrEnd DEF close_dirtied, DirtyNext, fsipc, Asks
<1> QED
  BY <1>2, <1>3, <1>4, <1>5, <1>6

LEMMA ExitRpc ==
  ASSUME Ind, NEW p \in Procs, exit(p) \/ close_all(p) \/ \E q \in Procs : fork(p, q)
  PROVE  RpcStep
<1>1. call[p] = NIL
  BY DEF exit, close_all, fork, Idle
<1>2. ipc[p].at \in {"no", "got"}
  BY <1>1 DEF Ind, CallsType, Silent
<1>3. UNCHANGED server /\ (Asks(p) \/ UNCHANGED ipc)
  BY DEF exit, close_all, fork, CloseBegin, DirtyNext, fsipc, Asks
<1> QED
  BY <1>2, <1>3, AskOrEnd

\* The steps in which ipc_send and ipc_recv wait are steps of nobody in Rpc.
LEMMA WaitRpc ==
  ASSUME Ind, NEW p \in Procs, Send(p) \/ ipc_recv(p)
  PROVE  RpcStep
<1>1. /\ ipc[p].at \in {"send", "sent"} /\ ipc'[p].at \in {"sent", "recv"}
      /\ \A q \in Procs \ {p} : ipc'[q] = ipc[q]
  BY DEF Send, ipc_send, ipc_recv, Ind, CallsType, Messages, Silent
<1>2. server' = server \/ (server.at = "recv" /\ server'.at = "serve")
  BY DEF Send, ipc_send, ipc_recv, Waiting
<1>3. \A q \in Procs : Answering(q)' = Answering(q)
  BY <1>2 DEF Answering
<1>4. \A q \in Procs : Phase(q)' = Phase(q) /\ Answer(q)' = Answer(q)
  BY <1>1, <1>2, <1>3 DEF Phase, Answer, Answering
<1> QED
  BY <1>4 DEF RpcStep, phases, answers

\* The request is carried out when the server has the answer to it.
LEMMA ServeRpc ==
  ASSUME Ind, serve
  PROVE  RpcStep
<1>1. PICK p \in Procs, rq \in Requests : p = server.whom /\ rq = ipc[server.whom].request
  BY ServeFacts
<1>2. /\ server.at = "serve" /\ ipc[p].at \in {"sent", "recv"} /\ UNCHANGED ipc
  BY <1>1, ServeFacts
<1>3. \/ server' = [at |-> "lost"]
      \/ \E r \in Answers : \E page : server' = [at |-> "send", whom |-> p, r |-> r, page |-> page]
  BY <1>1 DEF serve, serve_open, serve_map, serve_set_size, serve_dirty, serve_close, serve_sync,
     Lookup, WithBlock, reply, Ok, Err, Answers
<1>4. \A q \in Procs \ {p} : ~Answering(q) /\ ~Answering(q)'
  BY <1>2, <1>3 DEF Answering
<1>5. \A q \in Procs \ {p} : Phase(q)' = Phase(q) /\ Answer(q)' = Answer(q)
  BY <1>2, <1>4 DEF Phase, Answer
<1>6. ~Answering(p) /\ Phase(p) = "asked" /\ Answer(p) = NIL
  BY <1>2 DEF Phase, Answer, Answering
<1>7. CASE server' = [at |-> "lost"]
  <2>1. Phase(p)' = Phase(p) /\ Answer(p)' = Answer(p)
    BY <1>2, <1>6, <1>7 DEF Phase, Answer, Answering
  <2> QED
    BY <1>5, <2>1, RpcMoves DEF RpcStep
<1>8. CASE \E r \in Answers : \E page : server' = [at |-> "send", whom |-> p, r |-> r, page |-> page]
  <2>1. Phase(p)' = "done" /\ Answer(p)' \in Answers
    BY <1>8 DEF Phase, Answer, Answering
  <2> QED
    BY <1>5, <1>6, <2>1, RpcMoves DEF RpcStep
<1> QED
  BY <1>3, <1>7, <1>8

LEMMA ReplyRpc ==
  ASSUME Ind, SendReply
  PROVE  RpcStep
<1>1. PICK p \in Procs : p = server.whom
  BY SendFacts
<1>2. server.at = "send" /\ ipc[p].at = "recv" /\ server'.at = "recv"
  BY <1>1, SendFacts DEF SendReply, Waiting
<1>3. /\ ipc'[p].at = "got" /\ ipc'[p].r = server.r
      /\ \A q \in Procs \ {p} : ipc'[q] = ipc[q]
  BY <1>1, <1>2 DEF SendReply, Ind, CallsType
<1>4. \A q \in Procs \ {p} : Phase(q)' = Phase(q) /\ Answer(q)' = Answer(q)
  BY <1>1, <1>2, <1>3 DEF Phase, Answer, Answering
<1>5. Phase(p) = "done" /\ Phase(p)' = "idle" /\ Answer(p)' = Answer(p)
  BY <1>1, <1>2, <1>3 DEF Phase, Answer, Answering
<1> QED
  BY <1>4, <1>5, RpcMoves DEF RpcStep

LEMMA NextRpc == Ind /\ [Next]_vars => RpcStep
<1> SUFFICES ASSUME Ind, [Next]_vars PROVE RpcStep
  OBVIOUS
<1>1. CASE serve \/ SendReply
  BY <1>1, ServeRpc, ReplyRpc
<1>2. ASSUME NEW p \in Procs,
             \/ open(p) \/ ftruncate(p) \/ write(p) \/ close(p) \/ dup(p) \/ sync(p) \/ exit(p)
             \/ \E q \in Procs : fork(p, q)
             \/ GoOn(p)
      PROVE  RpcStep
  BY <1>2, BeginRpc, GotRpc, ExitRpc, WaitRpc DEF GoOn
<1>3. CASE UNCHANGED vars
  BY <1>3 DEF vars, RpcStep, phases, answers, Phase, Answer, Answering
<1> QED
  BY <1>1, <1>2, <1>3 DEF Next

(***************************************************************************)
(* fsipc (user/lib/fsipc.c:18) is a remote procedure call: each request is *)
(* carried out once, between the call and its return, and the caller gets  *)
(* the answer to its own, however the messages of others come in between.  *)
(***************************************************************************)
THEOREM RpcImplemented == Spec => ImplementsRpc
<1>1. Init => R!Init
  BY DEF Init, R!Init, Phase, Answer, Answering, Silent, Waiting
<1>2. Ind /\ [Next]_vars => [R!Next]_<<phases, answers>>
  BY NextRpc DEF RpcStep, R!Next
<1>3. Init => Ind
  BY InitInd
<1>4. Ind /\ [Next]_vars => Ind'
  BY NextInd
<1> QED
  BY <1>1, <1>2, <1>3, <1>4, PTL DEF Spec, ImplementsRpc, R!RpcSpec, phases, answers


-----------------------------------------------------------------------------
(***************************************************************************)
(* The contents of files.  For each call: which request it has made, what  *)
(* the answer says, and how far the pages of its descriptor have come.     *)
(***************************************************************************)
\* Whether the server is through with the request of a process.
Answered(p) == Answering(p) \/ ipc[p].at = "got"
Result(p)   == IF Answering(p) THEN server.r ELSE ipc[p].r

\* The first k pages of a descriptor are the blocks of the file, and no more are mapped.
Pages(p, n, k) == \A i \in Indices : data[p][n][i] = IF i < k THEN file.block[i] ELSE NIL
Filled(k)      == \A i \in Indices : i < k => file.block[i] # NIL
Marked(k)      == \A i \in Indices : i < k /\ file.block[i] # NIL => file.block[i] \in dirty
Have(p)        == IF ipc[p].at = "got" /\ Good(p) THEN call[p].i + 1 ELSE call[p].i

Shape(c) ==
  /\ c.op = "open" => c.at \in {"open", "map"}
  /\ c.op = "truncate" => c.at \in {"truncate", "map", "back"}
  /\ c.op = "close" => c.at \in {"dirty", "flush"}
  /\ c.op = "sync" => c.at = "sync"
  /\ c.at = "open" => c.i = 0
  /\ c.at = "map" => c.i < c.limit
  /\ c.at = "truncate" => c.i = c.old
  /\ c.op = "truncate" /\ c.at \in {"map", "back"} => c.old <= c.i /\ c.old < c.limit
  /\ c.then = "write" => c.limit > c.old
  /\ c.at = "dirty" => 0 < c.i /\ c.i <= c.limit
  /\ c.at = "flush" => c.i = c.limit
  /\ c.then = "dup" => c.arg # c.n

Wanted(c, id, rq) ==
  /\ c.at = "open" => rq.type = "OPEN"
  /\ c.at = "map" => rq = Request("MAP", id, c.i)
  /\ c.at = "truncate" => rq = Request("SET_SIZE", id, c.limit)
  /\ c.at = "back" => rq = Request("SET_SIZE", id, c.old)
  /\ c.at = "dirty" => rq = Request("DIRTY", id, c.i - 1)
  /\ c.at = "flush" => rq = Request("CLOSE", id, 0)
  /\ c.at = "sync" => rq.type = "SYNC"

RequestOk(p) ==
  ipc[p].at # "got" => Wanted(call[p], fds[p][call[p].n].fileid, ipc[p].request)

ReplyOk(p) ==
  Answering(p) =>
    /\ server.r = "error" \/ call[p].at \notin {"open", "map"} => server.page = NoPage
    /\ server.r = "ok" /\ call[p].at = "open" => filefd[server.page.o].size = file.size
    /\ server.r = "ok" /\ call[p].at = "map" =>
         file.block[call[p].i] # NIL /\ server.page = [kind |-> "block", b |-> file.block[call[p].i]]

ResultOk(p) ==
  Answered(p) /\ (call[p].at \in {"truncate", "flush"} \/ (call[p].op = "open" /\ call[p].at = "map"))
    => Result(p) = "ok"

OpenOk(p) ==
  call[p].op = "open" =>
    IF call[p].at = "open" /\ ~(ipc[p].at = "got" /\ Good(p)) THEN ~Open(p, call[p].n)
    ELSE /\ Fd(p, call[p].n).size = file.size
         /\ IF call[p].at = "open" THEN Pages(p, call[p].n, 0)
            ELSE call[p].limit = file.size /\ Pages(p, call[p].n, Have(p))

Sole(p) ==
  /\ \A q \in Procs, m \in Fds : Open(q, m) => q = p /\ m = call[p].n
  /\ \A q \in Others(p) : call[q].op = "sync"

TruncateOk(p) ==
  call[p].op = "truncate" =>
    LET n == call[p].n  old == call[p].old  limit == call[p].limit IN
    /\ Sole(p) /\ Fd(p, n).size = limit
    /\ call[p].at = "truncate" /\ ~Answered(p) => file.size = old /\ Pages(p, n, old) /\ Filled(old)
    /\ call[p].at = "truncate" /\ Answered(p) =>
         /\ file.size = limit
         /\ \A i \in Indices : /\ i < old /\ i < limit => data[p][n][i] = file.block[i] /\ file.block[i] # NIL
                               /\ i >= old => data[p][n][i] = NIL
    /\ call[p].at = "map" => file.size = limit /\ Pages(p, n, Have(p)) /\ Filled(Have(p))
    /\ call[p].at = "back" =>
         /\ file.size = (IF Answered(p) THEN old ELSE limit) /\ Filled(old)
         /\ fds[p][n].fileid \in failed
         /\ \A i \in Indices : data[p][n][i] # NIL => i < limit

CloseOk(p) ==
  call[p].op = "close" =>
    /\ call[p].limit = Fd(p, call[p].n).size
    /\ Marked(IF call[p].at = "dirty" /\ ~Answered(p) THEN call[p].i - 1 ELSE call[p].i)

CallData(p) == call[p] # NIL =>
  Shape(call[p]) /\ RequestOk(p) /\ ReplyOk(p) /\ ResultOk(p) /\ OpenOk(p) /\ TruncateOk(p) /\ CloseOk(p)

Changing(p, n) == call[p] # NIL /\ call[p].op \in {"open", "truncate"} /\ call[p].n = n
Current(p, n)  == Fd(p, n).size = file.size /\ Pages(p, n, file.size)
Loose(p, n)    == Fd(p, n).size >= file.size /\ \A i \in Indices : data[p][n][i] # NIL => i < Fd(p, n).size

FdData(p, n) ==
  IF Open(p, n) THEN Changing(p, n) \/ (Loose(p, n) /\ (fds[p][n].fileid \notin failed => Current(p, n)))
  ELSE \A i \in Indices : data[p][n][i] = NIL

FileData == (\A p \in Procs : call[p] # NIL => call[p].op # "truncate") => Filled(file.size)

Saved(p, n) == call[p] # NIL /\ call[p].at = "flush" /\ call[p].n = n /\ Answered(p)
DiskData ==
  (\A p \in Procs, n \in Fds : Open(p, n) => Saved(p, n)) =>
    \A i \in Indices : i < file.size => file.block[i] \notin unsaved

EntryData == \A o \in Entries : opentab[o].fileid % MAXOPEN = o

DataInd == EntryData /\ (\A p \in Procs : CallData(p)) /\ (\A p \in Procs, n \in Fds : FdData(p, n)) /\ FileData /\ DiskData

\* Who is not born yet has no descriptors.
Fresh == \A p \in Procs : status[p] = "unborn" => \A n \in Fds : ~Open(p, n)

All == Ind /\ HeldInd /\ Fresh /\ DataInd

-----------------------------------------------------------------------------
(***************************************************************************)
(* What the invariant says in one place of another.                        *)
(***************************************************************************)
\* A call and its parts.
LEMMA CallParts ==
  ASSUME Ind, NEW p \in Procs, call[p] # NIL
  PROVE  /\ call[p] \in CallType /\ call[p].n \in Fds /\ call[p].arg \in Fds
         /\ call[p].i \in 0 .. MaxSize /\ call[p].limit \in 0 .. MaxSize /\ call[p].old \in 0 .. MaxSize
         /\ ipc[p].at \in {"send", "sent", "recv", "got"} /\ ipc[p] # Silent
         /\ ipc[p].at = "got" => ipc[p].r \in Answers
         /\ MaxSize \in Nat \ {0}
  BY FileServerAssumption DEF Ind, CallsType, CallType, Messages, Silent

LEMMA FdParts ==
  ASSUME Ind, NEW p \in Procs, NEW n \in Fds
  PROVE  /\ data[p][n] \in [Indices -> Blocks \cup {Private, NIL}]
         /\ Open(p, n) => /\ fds[p][n].o \in Entries /\ fds[p][n].fileid \in Nat
                          /\ Fd(p, n).size \in 0 .. MaxSize
         /\ file.size \in 0 .. MaxSize /\ file.block \in [Indices -> Blocks \cup {NIL}]
         /\ unsaved \subseteq Blocks /\ dirty \subseteq Blocks /\ failed \subseteq Nat
         /\ NIL \notin Blocks /\ Indices = 0 .. MaxSize - 1 /\ MaxSize \in Nat \ {0}
<1>1. Open(p, n) => fds[p][n] \in Descriptors /\ Fd(p, n).size \in Sizes
  BY FdFacts
<1> QED
  BY <1>1, FileServerAssumption DEF Ind, DescType, FileType, ProcType, Descriptors, Indices, Sizes

\* The server is through with nobody but whom it answers, and he waits.
LEMMA NotAnswering ==
  ASSUME Ind, NEW p \in Procs, ipc[p].at \notin {"sent", "recv"}
  PROVE  ~Answering(p)
  BY DEF Ind, ServerOk, Answering

\* While the size of the file changes nobody else has a descriptor or makes calls
\* that need one.
LEMMA NoTruncate ==
  ASSUME All, NEW p \in Procs,
         (call[p] # NIL /\ call[p].op # "sync") \/ \E n \in Fds : Open(p, n)
  PROVE  \A q \in Procs \ {p} : call[q] # NIL => call[q].op # "truncate"
<1> SUFFICES ASSUME NEW q \in Procs \ {p}, call[q] # NIL, call[q].op = "truncate" PROVE FALSE
  OBVIOUS
<1>1. Sole(q)
  BY DEF All, DataInd, CallData, TruncateOk
<1> QED
  BY <1>1 DEF Sole, Others

\* open_lookup finds the entry of a descriptor.
LEMMA Found ==
  ASSUME All, NEW p \in Procs, NEW n \in Fds, Open(p, n)
  PROVE  /\ open_lookup(fds[p][n].fileid) = {fds[p][n].o}
         /\ Fd(p, n).fileid = fds[p][n].fileid
<1> DEFINE o == fds[p][n].o
<1>1. /\ o \in Entries /\ opentab[o].page /\ opentab[o].fileid = fds[p][n].fileid
      /\ Fd(p, n).fileid = fds[p][n].fileid
  BY FdFacts DEF All, HeldInd, Same, Fd
<1>2. opentab[o].fileid % MAXOPEN = o
  BY <1>1 DEF All, DataInd, EntryData
<1>3. IsFiniteSet(Fds) /\ IsFiniteSet(Procs)
  BY FS_Interval, FileServerAssumption DEF Fds
<1>4. IsFiniteSet(Procs \X Fds)
  BY <1>3, FS_Product
<1>5. Holders(o) \in SUBSET (Procs \X Fds) /\ <<p, n>> \in Holders(o)
  BY DEF Holders, Open
<1>6. IsFiniteSet(Holders(o)) /\ Cardinality(Holders(o)) \in Nat
  BY <1>4, <1>5, FS_Subset, FS_CardinalityType
<1>7. Cardinality(Holders(o)) # 0
  BY <1>5, <1>6, FS_EmptySet
<1>8. pageref(o) # 1
  BY <1>1, <1>6, <1>7 DEF pageref
<1> QED
  BY <1>1, <1>2, <1>8 DEF open_lookup

-----------------------------------------------------------------------------
(***************************************************************************)
(* What a step leaves alone.                                               *)
(***************************************************************************)
\* The call of a process that a step does not concern.
LEMMA CallDataKept ==
  ASSUME All, NEW q \in Procs, call'[q] = call[q], fds'[q] = fds[q], data'[q] = data[q],
         UNCHANGED file, dirty \subseteq dirty', failed \subseteq failed',
         (ipc'[q].at = "got") <=> (ipc[q].at = "got"),
         ipc[q].at = "got" => ipc'[q].r = ipc[q].r,
         ipc[q].at # "got" => ipc'[q].request = ipc[q].request,
         Answering(q)' <=> Answering(q), Answering(q) => server' = server,
         \A n \in Fds : Open(q, n) => filefd'[fds[q][n].o] = filefd[fds[q][n].o],
         Answering(q) /\ server.page.kind = "Filefd" => filefd'[server.page.o] = filefd[server.page.o],
         call[q] # NIL /\ call[q].op = "truncate" => Sole(q)'
  PROVE  CallData(q)'
<1> SUFFICES ASSUME call[q] # NIL PROVE CallData(q)'
  BY DEF CallData
<1> DEFINE n == call[q].n
<1>0. n \in Fds
  BY CallParts DEF All
<1>1. Shape(call[q]) /\ RequestOk(q) /\ ReplyOk(q) /\ ResultOk(q) /\ OpenOk(q) /\ TruncateOk(q) /\ CloseOk(q)
  BY DEF All, DataInd, CallData
<1>2. (Answered(q)' <=> Answered(q)) /\ Have(q)' = Have(q) /\ (Answered(q) => Result(q)' = Result(q))
      /\ (ipc[q].at = "got" => (Good(q)' <=> Good(q)))
  BY DEF Answered, Answering, Have, Good, Result
<1>3. (Open(q, n)' <=> Open(q, n)) /\ (Open(q, n) => Fd(q, n)' = Fd(q, n))
      /\ \A k : Pages(q, n, k)' <=> Pages(q, n, k)
  BY <1>0 DEF Open, Fd, Pages
<1>4. Shape(call[q])' /\ RequestOk(q)'
  BY <1>1, <1>2 DEF RequestOk
<1>5. ReplyOk(q)' /\ ResultOk(q)'
  <2>1. ResultOk(q)'
    BY <1>1, <1>2 DEF ResultOk
  <2>2. CASE ~Answering(q)
    BY <2>1, <2>2 DEF ReplyOk, Answering
  <2>3. CASE Answering(q)
    <3>1. server' = server /\ server.at = "send" /\ server.whom = q
      BY <2>3 DEF Answering
    <3>2. server.r = "ok" /\ call[q].at = "open" => call[q].op = "open"
      BY <1>1 DEF Shape, All, Ind, CallsType, CallType
    <3>3. server.r = "ok" /\ call[q].at = "open" => server.page.kind = "Filefd"
      BY <3>1, <3>2 DEF All, Ind, ServerOk, Opening
    <3> QED
      BY <1>1, <2>1, <2>3, <3>1, <3>3 DEF ReplyOk, Answering
  <2> QED
    BY <2>1, <2>2, <2>3
<1>6. OpenOk(q)'
  <2>1. CASE call[q].op # "open"
    BY <2>1 DEF OpenOk
  <2>2. CASE call[q].op = "open" /\ call[q].at = "open" /\ ~(ipc[q].at = "got" /\ Good(q))
    BY <1>1, <1>2, <1>3, <2>2 DEF OpenOk
  <2>3. CASE call[q].op = "open" /\ ~(call[q].at = "open" /\ ~(ipc[q].at = "got" /\ Good(q)))
    <3>1. Open(q, n)
      BY <2>3 DEF All, Ind, CallsOk, CallOk, Opening, Good
    <3> QED
      BY <1>1, <1>2, <1>3, <2>3, <3>1 DEF OpenOk
  <2> QED
    BY <2>1, <2>2, <2>3
<1>7. call[q].op \in {"truncate", "close"} => Open(q, n)
  BY DEF All, Ind, CallsOk, CallOk, Opening
<1>8. TruncateOk(q)'
  <2>1. CASE call[q].op # "truncate"
    BY <2>1 DEF TruncateOk
  <2>2. CASE call[q].op = "truncate"
    <3>1. Fd(q, n)' = Fd(q, n) /\ fds'[q][n].fileid = fds[q][n].fileid /\ data'[q][n] = data[q][n]
      BY <1>3, <1>7, <2>2
    <3> QED
      BY <1>1, <1>2, <1>3, <2>2, <3>1 DEF TruncateOk, Filled
  <2> QED
    BY <2>1, <2>2
<1>9. CloseOk(q)'
  BY <1>1, <1>2, <1>3, <1>7 DEF CloseOk, Marked
<1> QED
  BY <1>4, <1>5, <1>6, <1>8, <1>9 DEF CallData

\* A descriptor that a step does not concern.
LEMMA FdDataKept ==
  ASSUME All, NEW q \in Procs, NEW n \in Fds,
         fds'[q][n] = fds[q][n], data'[q][n] = data[q][n], UNCHANGED file, failed \subseteq failed',
         Open(q, n) => filefd'[fds[q][n].o] = filefd[fds[q][n].o],
         Changing(q, n) => Changing(q, n)'
  PROVE  FdData(q, n)'
<1>1. FdData(q, n)
  BY DEF All, DataInd
<1>2. CASE ~Open(q, n)
  BY <1>1, <1>2 DEF FdData, Open
<1>3. CASE Open(q, n)
  <2>1. Fd(q, n)' = Fd(q, n) /\ Open(q, n)'
    BY <1>3 DEF Fd, Open
  <2>2. Changing(q, n) \/ (Loose(q, n) /\ (fds[q][n].fileid \notin failed => Current(q, n)))
    BY <1>1, <1>3 DEF FdData
  <2>3. Loose(q, n) => Loose(q, n)'
    BY <2>1 DEF Loose
  <2>4. Current(q, n) => Current(q, n)'
    BY <2>1 DEF Current, Pages
  <2>5. fds'[q][n].fileid \notin failed' => fds[q][n].fileid \notin failed
    OBVIOUS
  <2> QED
    BY <2>1, <2>2, <2>3, <2>4, <2>5 DEF FdData
<1> QED
  BY <1>2, <1>3

\* What the disk has, while the file and the open descriptors stay.
LEMMA DiskDataKept ==
  ASSUME All, UNCHANGED file, unsaved' \subseteq unsaved,
         (\A q \in Procs, n \in Fds : Open(q, n)' => Saved(q, n)') =>
           \A q \in Procs, n \in Fds : Open(q, n) => Saved(q, n)
  PROVE  DiskData'
<1>1. DiskData
  BY DEF All, DataInd
<1> QED
  BY <1>1 DEF DiskData

LEMMA SoleKept ==
  ASSUME NEW p \in Procs, NEW q \in Procs \ {p}, Sole(q), call'[q] = call[q],
         \A x \in Procs \ {p} : call'[x] = call[x] /\ fds'[x] = fds[x],
         call'[p] # NIL => call'[p].op = "sync",
         \A n \in Fds : fds'[p][n] # NIL => \E m \in Fds : Open(p, m)
  PROVE  Sole(q)'
<1>1. \A n \in Fds : fds'[p][n] = NIL
  BY DEF Sole
<1>2. \A x \in Procs, m \in Fds : fds'[x][m] # NIL => x = q /\ m = call[q].n
  BY <1>1 DEF Sole, Open
<1>3. \A x \in Procs \ {q} : call'[x] # NIL => call'[x].op = "sync"
  BY DEF Sole, Others
<1> QED
  BY <1>2, <1>3 DEF Sole, Open, Others

\* A process makes a request.
LEMMA AskData ==
  ASSUME All, NEW p \in Procs, NEW c \in CallType, NEW rq \in Requests, ipc[p].at \notin {"sent", "recv"},
         ipc' = [ipc EXCEPT ![p] = [at |-> "send", request |-> rq]], call' = [call EXCEPT ![p] = c],
         UNCHANGED <<server, fds, data, file, dirty, filefd, opentab, unsaved>>, failed \subseteq failed',
         call[p] # NIL => call[p].at # "flush" /\ call[p].op = c.op /\ call[p].n = c.n,
         call[p] = NIL => c.op # "truncate",
         c.op = "sync" \/ \A q \in Procs \ {p} : call[q] # NIL => call[q].op # "truncate",
         Shape(c), Wanted(c, fds[p][c.n].fileid, rq),
         OpenOk(p)', TruncateOk(p)', CloseOk(p)'
  PROVE  DataInd'
<1>1. /\ call'[p] = c /\ ipc'[p] = [at |-> "send", request |-> rq]
      /\ \A q \in Procs \ {p} : call'[q] = call[q] /\ ipc'[q] = ipc[q]
  BY DEF All, Ind, CallsType
<1>2. CallData(p)'
  <2>1. ~Answering(p)' /\ ~Answered(p)'
    BY <1>1, NotAnswering DEF All, Answering, Answered
  <2>2. Shape(call[p])' /\ RequestOk(p)'
    BY <1>1 DEF RequestOk
  <2>3. ReplyOk(p)' /\ ResultOk(p)'
    BY <2>1 DEF ReplyOk, ResultOk, Answering, Answered
  <2> QED
    BY <2>2, <2>3 DEF CallData
<1>3. ASSUME NEW q \in Procs \ {p} PROVE CallData(q)'
  <2>1. call[q] # NIL /\ call[q].op = "truncate" => Sole(q)'
    <3> SUFFICES ASSUME call[q] # NIL, call[q].op = "truncate" PROVE Sole(q)'
      OBVIOUS
    <3>1. Sole(q)
      BY DEF All, DataInd, CallData, TruncateOk
    <3>2. c.op = "sync"
      OBVIOUS
    <3> QED
      BY <1>1, <3>1, <3>2, SoleKept DEF Open
  <2>2. Answering(q)' <=> Answering(q)
    BY DEF Answering
  <2> QED
    BY <1>1, <2>1, <2>2, CallDataKept
<1>4. ASSUME NEW q \in Procs, NEW n \in Fds PROVE FdData(q, n)'
  <2>1. Changing(q, n) => Changing(q, n)'
    BY <1>1, Constants DEF Changing
  <2> QED
    BY <2>1, FdDataKept
<1>5. FileData'
  <2>1. FileData
    BY DEF All, DataInd
  <2> QED
    BY <1>1, <2>1, Constants DEF FileData, Filled
<1>6. DiskData'
  <2>1. ASSUME NEW q \in Procs, NEW n \in Fds, Saved(q, n)' PROVE Saved(q, n)
    <3>1. q # p
      BY <1>1, <2>1, NotAnswering DEF All, Saved, Answered, Answering
    <3> QED
      BY <1>1, <2>1, <3>1 DEF Saved, Answered, Answering
  <2> QED
    BY <2>1, DiskDataKept DEF Open
<1>7. EntryData'
  BY DEF All, DataInd, EntryData
<1> QED
  BY <1>2, <1>3, <1>4, <1>5, <1>6, <1>7 DEF DataInd

\* A call returns.
LEMMA ReturnData ==
  ASSUME All, NEW p \in Procs, Return(p), ipc[p].at = "got",
         UNCHANGED <<server, file, dirty, filefd, opentab>>, failed \subseteq failed',
         \A q \in Procs \ {p} : fds'[q] = fds[q] /\ data'[q] = data[q],
         \A n \in Fds : Open(p, n)' => \E m \in Fds : Open(p, m),
         \A n \in Fds : FdData(p, n)',
         call[p] # NIL /\ call[p].op = "truncate" => Filled(file.size),
         DiskData'
  PROVE  DataInd'
<1>1. /\ call'[p] = NIL
      /\ \A q \in Procs \ {p} : call'[q] = call[q] /\ ipc'[q] = ipc[q]
  BY ReturnType DEF All
<1>2. CallData(p)'
  BY <1>1 DEF CallData
<1>3. ASSUME NEW q \in Procs \ {p} PROVE CallData(q)'
  <2>1. call[q] # NIL /\ call[q].op = "truncate" => Sole(q)'
    <3> SUFFICES ASSUME call[q] # NIL, call[q].op = "truncate" PROVE Sole(q)'
      OBVIOUS
    <3>1. Sole(q)
      BY DEF All, DataInd, CallData, TruncateOk
    <3> QED
      BY <1>1, <3>1, SoleKept DEF Open
  <2>2. Answering(q)' <=> Answering(q)
    BY DEF Answering
  <2> QED
    BY <1>1, <2>1, <2>2, CallDataKept
<1>4. ASSUME NEW q \in Procs \ {p}, NEW n \in Fds PROVE FdData(q, n)'
  <2>1. Changing(q, n) => Changing(q, n)'
    BY <1>1 DEF Changing
  <2> QED
    BY <2>1, FdDataKept
<1>5. FileData'
  <2>1. FileData
    BY DEF All, DataInd
  <2> QED
    BY <1>1, <2>1 DEF FileData, Filled
<1>6. EntryData'
  BY DEF All, DataInd, EntryData
<1> QED
  BY <1>2, <1>3, <1>4, <1>5, <1>6 DEF DataInd

-----------------------------------------------------------------------------
(***************************************************************************)
(* The steps of open.                                                      *)
(***************************************************************************)
LEMMA Parts ==
  ASSUME All, NEW p \in Procs, call[p] # NIL
  PROVE  /\ Shape(call[p]) /\ RequestOk(p) /\ ReplyOk(p) /\ ResultOk(p)
         /\ OpenOk(p) /\ TruncateOk(p) /\ CloseOk(p)
  BY DEF All, DataInd, CallData

\* A call returns that has changed nothing in this step.
LEMMA EndData ==
  ASSUME All, NEW p \in Procs, NEW n \in Fds, call[p] # NIL, call[p].n = n,
         Return(p), ipc[p].at = "got", call[p].at # "flush",
         UNCHANGED <<server, file, dirty, filefd, opentab, fds, data, unsaved>>, failed \subseteq failed',
         call[p].op = "truncate" => Filled(file.size),
         call[p].op \in {"open", "truncate"} => FdData(p, n)'
  PROVE  DataInd'
<1>1. /\ call'[p] = NIL
      /\ \A q \in Procs \ {p} : call'[q] = call[q] /\ ipc'[q] = ipc[q]
  BY ReturnType DEF All
<1>2. ASSUME NEW m \in Fds PROVE FdData(p, m)'
  <2>1. CASE Changing(p, m)
    BY <1>1, <2>1 DEF Changing
  <2>2. CASE ~Changing(p, m)
    BY <2>2, FdDataKept
  <2> QED
    BY <2>1, <2>2
<1>3. DiskData'
  <2>1. ASSUME NEW q \in Procs, NEW m \in Fds, Saved(q, m)' PROVE Saved(q, m)
    BY <1>1, <2>1 DEF Saved, Answered, Answering
  <2> QED
    BY <2>1, DiskDataKept DEF Open
<1>4. \A m \in Fds : Open(p, m)' => Open(p, m)
  BY DEF Open
<1> QED
  BY <1>2, <1>3, <1>4, ReturnData

LEMMA OpenData ==
  ASSUME All, NEW p \in Procs, open(p)
  PROVE  DataInd'
<1>1. /\ Begin(p) /\ Quiet(p)
      /\ UNCHANGED <<server, fds, data, opentab, filefd, file, dirty, unsaved>>
  BY DEF open, serverVars
<1>2. ipc[p].at = "no" /\ UNCHANGED failed /\ call[p] = NIL
  BY <1>1, BeginFacts DEF All, Begin, Idle
<1>3. PICK n \in Fds, found \in BOOLEAN :
        ~Open(p, n) /\ fsipc(p, [type |-> "OPEN", found |-> found], Call("open", n))
  BY FileServerAssumption DEF open, fd_alloc, Fds
<1>4. PICK rq \in Requests : rq = [type |-> "OPEN", found |-> found]
  BY DEF Requests
<1>5. PICK c \in CallType : c = Call("open", n)
  BY CallFacts
<1>6. c.op = "open" /\ c.at = "open" /\ c.n = n /\ c.i = 0 /\ c.then = "" /\ rq.type = "OPEN"
  BY <1>4, <1>5 DEF Call
<1>7. /\ ipc' = [ipc EXCEPT ![p] = [at |-> "send", request |-> rq]]
      /\ call' = [call EXCEPT ![p] = c]
  BY <1>3, <1>4, <1>5 DEF fsipc
<1>8. call'[p] = c /\ ipc'[p] = [at |-> "send", request |-> rq]
  BY <1>7 DEF All, Ind, CallsType
<1>9. Shape(c) /\ Wanted(c, fds[p][c.n].fileid, rq)
  BY <1>6 DEF Shape, Wanted
<1>10. OpenOk(p)' /\ TruncateOk(p)' /\ CloseOk(p)'
  <2>1. fds'[p][n] = NIL
    BY <1>1, <1>3 DEF Open
  <2>2. OpenOk(p)'
    <3>0. ipc'[p].at = "send"
      BY <1>8
    <3>4. call'[p].op = "open" /\ call'[p].at = "open"
      BY <1>6, <1>8
    <3>5. call'[p].n = n
      BY <1>6, <1>8
    <3>1. ipc'[p].at = "send" /\ call'[p].op = "open" /\ call'[p].at = "open" /\ fds'[p][call'[p].n] = NIL
      BY <3>0, <3>4, <3>5, <2>1
    <3> QED
      BY <3>1 DEF OpenOk, Open
  <2>3. TruncateOk(p)' /\ CloseOk(p)'
    BY <1>6, <1>8 DEF TruncateOk, CloseOk
  <2> QED
    BY <2>2, <2>3
<1>11. \A q \in Procs \ {p} : call[q] # NIL => call[q].op # "truncate"
  BY <1>1 DEF Quiet, Others
<1> QED
  BY <1>1, <1>2, <1>6, <1>7, <1>9, <1>10, <1>11, AskData

\* What a process sees of the file when it has mapped all of it.
LEMMA CurrentIs ==
  ASSUME All, NEW p \in Procs, NEW n \in Fds, Open(p, n), Current(p, n)
  PROVE  Loose(p, n)
<1>1. Fd(p, n).size \in 0 .. MaxSize /\ file.size \in 0 .. MaxSize /\ MaxSize \in Nat
  BY FdParts DEF All
<1> QED
  BY <1>1 DEF Current, Loose, Pages

\* The loop of MAP requests.
LEMMA OpenNextData ==
  ASSUME All, NEW p \in Procs, call[p] # NIL, call[p].op = "open", ipc[p].at = "got",
         NEW c \in CallType, c.op = "open", c.n = call[p].n, c.limit = file.size, c.i <= file.size,
         c.then = call[p].then, c.arg = call[p].arg,
         Open(p, c.n), Fd(p, c.n).size = file.size, Pages(p, c.n, c.i),
         OpenNext(p, c), UNCHANGED <<server, fds, data, opentab, filefd, file, dirty, unsaved, failed>>
  PROVE  DataInd'
<1>1. /\ c.n \in Fds /\ c.i \in 0 .. MaxSize /\ c.limit \in 0 .. MaxSize
      /\ Indices = 0 .. MaxSize - 1 /\ MaxSize \in Nat
  BY FileServerAssumption DEF CallType, Indices
<1>2. call[p].at # "flush" /\ call[p].then # "write" /\ (c.then = "dup" => c.arg # c.n)
  BY Parts DEF Shape, All, Ind, CallsOk, CallOk
<1>3. CASE Left(c)
  <2>1. PICK d \in CallType : d = [c EXCEPT !.at = "map"]
    BY DEF CallType
  <2>2. d.op = "open" /\ d.at = "map" /\ d.n = c.n /\ d.i = c.i /\ d.limit = c.limit
        /\ d.then = c.then /\ d.arg = c.arg
    BY <2>1 DEF CallType
  <2>3. Fd(p, c.n).fileid = fds[p][c.n].fileid /\ fds[p][c.n].fileid \in Nat /\ c.i \in Indices
    BY <1>1, <1>3, Found, FdParts DEF All, Left
  <2>4. PICK rq \in Requests : rq = Request("MAP", Fd(p, c.n).fileid, c.i)
    BY <2>3 DEF Request, Requests
  <2>5. /\ ipc' = [ipc EXCEPT ![p] = [at |-> "send", request |-> rq]]
        /\ call' = [call EXCEPT ![p] = d]
    BY <1>3, <2>1, <2>4 DEF OpenNext, MapNext, fsipc
  <2>6. call'[p] = d /\ ipc'[p] = [at |-> "send", request |-> rq]
    BY <2>5 DEF All, Ind, CallsType
  <2>7. Shape(d)
    BY <1>2, <1>3, <2>2 DEF Shape, Left
  <2>8. Wanted(d, fds[p][d.n].fileid, rq)
    BY <2>2, <2>3, <2>4 DEF Wanted
  <2>9. OpenOk(p)' /\ TruncateOk(p)' /\ CloseOk(p)'
    <3>1. Fd(p, c.n)' = Fd(p, c.n) /\ Pages(p, c.n, c.i)' /\ Have(p)' = c.i
      BY <2>2, <2>6 DEF Fd, Pages, Have
    <3>2. OpenOk(p)'
      BY <2>2, <2>6, <3>1 DEF OpenOk, Fd, Pages
    <3>3. TruncateOk(p)' /\ CloseOk(p)'
      BY <2>2, <2>6 DEF TruncateOk, CloseOk
    <3> QED
      BY <3>2, <3>3
  <2>10. \A q \in Procs \ {p} : call[q] # NIL => call[q].op # "truncate"
    BY NoTruncate
  <2> QED
    BY <1>2, <2>2, <2>5, <2>7, <2>8, <2>9, <2>10, AskData
<1>4. CASE ~Left(c)
  <2>1. Return(p)
    BY <1>4 DEF OpenNext
  <2>2. c.i = file.size
    BY <1>1, <1>4 DEF Left
  <2>3. Current(p, c.n) /\ Loose(p, c.n)
    BY <1>1, <2>2, CurrentIs DEF Current
  <2>4. Current(p, c.n)' /\ Loose(p, c.n)' /\ Open(p, c.n)'
    BY <2>3 DEF Current, Loose, Open, Fd, Pages
  <2>5. FdData(p, c.n)'
    BY <2>4 DEF FdData
  <2> QED
    BY <1>1, <1>2, <2>1, <2>5, EndData
<1> QED
  BY <1>3, <1>4

LEMMA OpenGotData ==
  ASSUME All, NEW p \in Procs, open_got(p)
  PROVE  DataInd'
<1>1. UNCHANGED <<server, fds, data, failed, opentab, filefd, file, dirty, unsaved>>
  BY DEF open_got, serverVars, procVars
<1>2. /\ call[p] \in CallType /\ call[p] # NIL /\ CallOk(p) /\ ipc[p].at = "got"
      /\ call[p].op = "open" /\ call[p].at = "open" /\ ipc[p].r \in Answers
  BY GotFacts DEF open_got, All
<1>3. OpenOk(p) /\ Shape(call[p]) /\ call[p].n \in Fds
  BY <1>2, Parts, CallParts DEF All
<1>4. CASE Good(p)
  <2>1. /\ Open(p, call[p].n) /\ Fd(p, call[p].n).size = file.size /\ Pages(p, call[p].n, 0)
    BY <1>2, <1>3, <1>4 DEF OpenOk, CallOk, Opening, Good
  <2>2. file.size \in 0 .. MaxSize /\ 0 <= file.size
    BY <1>3, FdParts DEF All
  <2>3. PICK c \in CallType : c = [call[p] EXCEPT !.limit = Fd(p, call[p].n).size]
    BY <1>2, <2>1, <2>2 DEF CallType
  <2>4. /\ c.op = "open" /\ c.n = call[p].n /\ c.limit = file.size /\ c.i = 0
        /\ c.then = call[p].then /\ c.arg = call[p].arg
    BY <1>2, <1>3, <2>1, <2>3 DEF CallType, Shape
  <2>5. OpenNext(p, c)
    BY <1>4, <2>3 DEF open_got
  <2> QED
    BY <1>1, <1>2, <2>1, <2>2, <2>4, <2>5, OpenNextData
<1>5. CASE ~Good(p)
  <2>0. PICK n \in Fds : n = call[p].n
    BY <1>3
  <2>1. Return(p) /\ ~Open(p, n)
    BY <1>2, <1>3, <1>5, <2>0 DEF open_got, OpenOk
  <2>2. FdData(p, n)'
    <3>1. FdData(p, n)
      BY DEF All, DataInd
    <3> QED
      BY <1>1, <2>1, <3>1 DEF FdData, Open
  <2> QED
    BY <1>1, <1>2, <2>0, <2>1, <2>2, EndData
<1> QED
  BY <1>4, <1>5

LEMMA OpenMappedData ==
  ASSUME All, NEW p \in Procs, open_mapped(p)
  PROVE  DataInd'
<1>1. UNCHANGED <<server, fds, data, failed, opentab, filefd, file, dirty, unsaved>>
  BY DEF open_mapped, serverVars, procVars
<1>2. /\ call[p] \in CallType /\ call[p] # NIL /\ CallOk(p) /\ ipc[p].at = "got"
      /\ call[p].op = "open" /\ call[p].at = "map" /\ ipc[p].r \in Answers
  BY GotFacts DEF open_mapped, All
<1>3. OpenOk(p) /\ Shape(call[p]) /\ ResultOk(p) /\ call[p].n \in Fds /\ Open(p, call[p].n)
  BY <1>2, Parts, CallParts DEF All, CallOk, Opening
<1>4. Good(p)
  <2>1. ~Answering(p) /\ Answered(p)
    BY <1>2, NotAnswering DEF All, Answered
  <2> QED
    BY <1>2, <1>3, <2>1 DEF ResultOk, Result, Good
<1>5. /\ Fd(p, call[p].n).size = file.size /\ call[p].limit = file.size
      /\ Pages(p, call[p].n, call[p].i + 1) /\ call[p].i < call[p].limit
  BY <1>2, <1>3, <1>4 DEF OpenOk, Have, Shape
<1>6. file.size \in 0 .. MaxSize /\ call[p].i \in 0 .. MaxSize /\ MaxSize \in Nat
  BY <1>2, <1>3, FdParts, CallParts DEF All
<1>7. call[p].i + 1 \in 0 .. MaxSize /\ call[p].i + 1 <= file.size
  BY <1>5, <1>6
<1>8. PICK c \in CallType : c = [call[p] EXCEPT !.i = @ + 1]
  BY <1>2, <1>7 DEF CallType
<1>9. /\ c.op = "open" /\ c.n = call[p].n /\ c.limit = file.size /\ c.i = call[p].i + 1
      /\ c.then = call[p].then /\ c.arg = call[p].arg
  BY <1>2, <1>5, <1>8 DEF CallType
<1>10. OpenNext(p, c)
  BY <1>4, <1>8 DEF open_mapped
<1> QED
  BY <1>1, <1>2, <1>3, <1>5, <1>7, <1>9, <1>10, OpenNextData

-----------------------------------------------------------------------------
(***************************************************************************)
(* The steps of ftruncate and write.                                       *)
(***************************************************************************)
\* Whoever is in no call, or in sync, is not concerned by what happens to the file.
LEMMA SyncKept ==
  ASSUME All, NEW q \in Procs, call[q] # NIL => call[q].op = "sync", call'[q] = call[q],
         (ipc'[q].at = "got") <=> (ipc[q].at = "got"),
         ipc[q].at = "got" => ipc'[q].r = ipc[q].r,
         ipc[q].at # "got" => ipc'[q].request = ipc[q].request,
         Answering(q)' <=> Answering(q), Answering(q) => server' = server
  PROVE  CallData(q)'
<1> SUFFICES ASSUME call[q] # NIL PROVE CallData(q)'
  BY DEF CallData
<1>1. Shape(call[q]) /\ RequestOk(q) /\ ReplyOk(q) /\ call[q].at = "sync"
  BY Parts DEF Shape
<1>2. Shape(call[q])'
  BY <1>1
<1>3. RequestOk(q)'
  BY <1>1 DEF RequestOk, Wanted
<1>4. ReplyOk(q)'
  BY <1>1 DEF ReplyOk, Answering
<1>5. ResultOk(q)' /\ OpenOk(q)' /\ TruncateOk(q)' /\ CloseOk(q)'
  BY <1>1 DEF ResultOk, OpenOk, TruncateOk, CloseOk
<1> QED
  BY <1>2, <1>3, <1>4, <1>5 DEF CallData

\* Alone, as the careful are when they change the size.
LEMMA OthersSync ==
  ASSUME All, NEW p \in Procs, NEW n \in Fds, Alone(p, n), Quiet(p)
  PROVE  /\ \A q \in Procs \ {p}, m \in Fds : ~Open(q, m)
         /\ \A q \in Procs \ {p} : call[q] # NIL => call[q].op = "sync"
<1>1. \A q \in Procs \ {p}, m \in Fds : ~Open(q, m)
  BY DEF Alone
<1>2. ASSUME NEW q \in Procs \ {p}, call[q] # NIL PROVE call[q].op = "sync"
  <2>1. call[q].op # "open" /\ call[q].op # "truncate"
    BY <1>2 DEF Alone, Quiet, Others
  <2>2. call[q].n \in Fds /\ CallOk(q)
    BY <1>2, CallParts DEF All, Ind, CallsOk
  <2> QED
    BY <1>1, <2>1, <2>2 DEF CallOk, Opening
<1> QED
  BY <1>1, <1>2

\* The fields of a request.
LEMMA AskFields ==
  ASSUME NEW x, NEW rq, x = [at |-> "send", request |-> rq]
  PROVE  x.at = "send" /\ x.request = rq
  OBVIOUS

LEMMA ResizeData ==
  ASSUME All, NEW p \in Procs, Begin(p), NEW n \in Fds, Open(p, n), NEW size \in Sizes,
         NEW th \in {"", "write"}, th = "write" => size > Fd(p, n).size, resize(p, n, size, th)
  PROVE  DataInd'
<1>1. ipc[p].at = "no" /\ UNCHANGED failed /\ call[p] = NIL
  BY BeginFacts DEF All, Begin, Idle
<1>2. /\ UNCHANGED <<server, fds, data, opentab, file, dirty, unsaved>>
      /\ Alone(p, n) /\ Usable(p, n) /\ Quiet(p)
      /\ filefd' = [filefd EXCEPT ![fds[p][n].o].size = size]
  BY DEF resize, serverVars
<1>3. /\ fds[p][n].o \in Entries /\ fds[p][n].fileid \in Nat /\ Fd(p, n).size \in Sizes
      /\ Fd(p, n).fileid = fds[p][n].fileid
  BY FdParts, Found DEF All, Sizes
<1>4. PICK rq \in Requests : rq = Request("SET_SIZE", Fd(p, n).fileid, size)
  BY <1>3 DEF Request, Requests
<1>5. PICK c \in CallType :
        c = [Call("truncate", n) EXCEPT !.i = Fd(p, n).size, !.old = Fd(p, n).size, !.limit = size, !.then = th]
  <2>1. 0 \in Fds
    BY CallFacts
  <2> QED
    BY <1>3, <2>1 DEF Call, CallType, Sizes
<1>6. /\ c.op = "truncate" /\ c.at = "truncate" /\ c.n = n /\ c.i = Fd(p, n).size /\ c.old = Fd(p, n).size
      /\ c.limit = size /\ c.then = th
  BY <1>5 DEF Call
<1>7. /\ ipc' = [ipc EXCEPT ![p] = [at |-> "send", request |-> rq]]
      /\ call' = [call EXCEPT ![p] = c]
  BY <1>4, <1>5 DEF resize, fsipc
<1>8. /\ call'[p] = c /\ ipc'[p] = [at |-> "send", request |-> rq]
      /\ \A q \in Procs \ {p} : call'[q] = call[q] /\ ipc'[q] = ipc[q]
  BY <1>7 DEF All, Ind, CallsType
<1>9. call'[p] = c /\ ipc'[p].at = "send" /\ ipc'[p].request = rq
  <2>1. call'[p] = c /\ ipc'[p] = [at |-> "send", request |-> rq]
    BY <1>8
  <2> QED
    BY <2>1, AskFields
<1>10. /\ \A q \in Procs \ {p}, m \in Fds : ~Open(q, m)
       /\ \A q \in Procs \ {p} : call[q] # NIL => call[q].op = "sync"
  BY <1>2, OthersSync
<1>11. \A m \in Fds : Open(p, m) => m = n
  BY <1>2 DEF Alone
<1>12. Sole(p)'
  BY <1>2, <1>6, <1>8, <1>10, <1>11 DEF Sole, Open, Others
<1>13. Current(p, n)
  <2>1. FdData(p, n) /\ ~Changing(p, n)
    BY <1>1 DEF All, DataInd, Changing
  <2> QED
    BY <1>2, <2>1 DEF FdData, Usable
<1>14. Filled(file.size)
  BY <1>1, <1>2 DEF All, DataInd, FileData, Quiet, Others
<1>15. CallData(p)'
  <2>1. ~Answering(p)' /\ ~Answered(p)'
    BY <1>1, <1>2, <1>9, NotAnswering DEF All, Answering, Answered
  <2>2. Shape(c)
    BY <1>6 DEF Shape
  <2>3. Wanted(c, fds[p][n].fileid, rq)
    BY <1>3, <1>4, <1>6 DEF Wanted
  <2>4. RequestOk(p)'
    BY <1>2, <1>6, <1>9, <2>3 DEF RequestOk
  <2>5. ReplyOk(p)' /\ ResultOk(p)'
    BY <2>1 DEF ReplyOk, ResultOk, Answering, Answered
  <2>6. OpenOk(p)' /\ CloseOk(p)'
    BY <1>6, <1>9 DEF OpenOk, CloseOk
  <2>7. Fd(p, n)'.size = size
    BY <1>2, <1>3 DEF Fd, All, Ind, TableType
  <2>8. file'.size = c.old /\ Pages(p, n, c.old)' /\ Filled(c.old)'
    BY <1>2, <1>6, <1>13, <1>14 DEF Current, Pages, Filled
  <2>9. TruncateOk(p)'
    BY <1>6, <1>9, <1>12, <2>1, <2>7, <2>8 DEF TruncateOk, Pages, Filled, Fd, Answered, Answering
  <2> QED
    BY <1>9, <2>2, <2>4, <2>5, <2>6, <2>9 DEF CallData
<1>16. ASSUME NEW q \in Procs \ {p} PROVE CallData(q)'
  BY <1>2, <1>8, <1>10, SyncKept DEF Answering
<1>17. ASSUME NEW q \in Procs, NEW m \in Fds PROVE FdData(q, m)'
  <2>1. CASE q = p /\ m = n
    BY <1>2, <1>6, <1>9, <2>1, Constants DEF FdData, Changing, Open
  <2>2. CASE ~(q = p /\ m = n)
    <3>1. ~Open(q, m)
      BY <1>10, <1>11, <2>2
    <3>2. FdData(q, m)
      BY DEF All, DataInd
    <3> QED
      BY <1>2, <3>1, <3>2 DEF FdData, Open
  <2> QED
    BY <2>1, <2>2
<1>18. FileData'
  BY <1>6, <1>9, Constants DEF FileData
<1>19. DiskData'
  <2>1. Open(p, n)' /\ ~Saved(p, n)'
    BY <1>2, <1>6, <1>9 DEF Open, Saved
  <2> QED
    BY <2>1 DEF DiskData, Open, Saved
<1>20. EntryData'
  BY <1>2 DEF All, DataInd, EntryData
<1> QED
  BY <1>15, <1>16, <1>17, <1>18, <1>19, <1>20 DEF DataInd

\* A step of who truncates does not make it less alone.
LEMMA StillSole ==
  ASSUME NEW p \in Procs, Sole(p), UNCHANGED fds, call'[p].n = call[p].n,
         \A q \in Procs \ {p} : call'[q] = call[q]
  PROVE  Sole(p)'
  BY DEF Sole, Open, Others

LEMMA TruncateAskData ==
  ASSUME All, NEW p \in Procs, NEW n \in Fds, call[p] # NIL, call[p].op = "truncate", call[p].n = n,
         ipc[p].at = "got", NEW c \in CallType, NEW rq \in Requests,
         c.op = "truncate", c.n = n, c.at \in {"map", "back"}, c.limit = call[p].limit,
         ipc' = [ipc EXCEPT ![p] = [at |-> "send", request |-> rq]], call' = [call EXCEPT ![p] = c],
         UNCHANGED <<server, fds, data, file, dirty, filefd, opentab, unsaved>>, failed \subseteq failed',
         Shape(c), Wanted(c, fds[p][n].fileid, rq), file.size = c.limit,
         c.at = "map" => Pages(p, n, c.i) /\ Filled(c.i),
         c.at = "back" => /\ Filled(c.old) /\ fds[p][n].fileid \in failed'
                          /\ \A i \in Indices : data[p][n][i] # NIL => i < c.limit
  PROVE  DataInd'
<1>1. call'[p] = c /\ \A q \in Procs \ {p} : call'[q] = call[q] /\ ipc'[q] = ipc[q]
  BY DEF All, Ind, CallsType
<1>2. ipc'[p].at = "send"
  <2>1. ipc'[p] = [at |-> "send", request |-> rq]
    BY DEF All, Ind, CallsType
  <2> QED
    BY <2>1, AskFields
<1>3. TruncateOk(p) /\ Shape(call[p])
  BY Parts
<1>4. Sole(p) /\ Fd(p, n).size = call[p].limit
  BY <1>3 DEF TruncateOk
<1>5. Sole(p)'
  BY <1>1, <1>4, StillSole
<1>6. ~Answered(p)' /\ Have(p)' = c.i
  BY <1>1, <1>2, NotAnswering DEF All, Answered, Answering, Have
<1>7. Fd(p, n)'.size = c.limit
  BY <1>4 DEF Fd
<1>8. TruncateOk(p)'
  <2>1. CASE c.at = "map"
    <3>1. Pages(p, n, c.i)' /\ Filled(c.i)'
      BY <2>1 DEF Pages, Filled
    <3> QED
      BY <1>1, <1>5, <1>6, <1>7, <2>1, <3>1 DEF TruncateOk, Pages, Filled, Fd
  <2>2. CASE c.at = "back"
    <3>1. Filled(c.old)'
      BY <2>2 DEF Filled
    <3> QED
      BY <1>1, <1>5, <1>6, <1>7, <2>2, <3>1 DEF TruncateOk, Filled, Fd
  <2> QED
    BY <2>1, <2>2
<1>9. OpenOk(p)' /\ CloseOk(p)'
  BY <1>1 DEF OpenOk, CloseOk
<1>10. \A q \in Procs \ {p} : call[q] # NIL => call[q].op # "truncate"
  BY <1>4 DEF Sole, Others
<1>11. call[p].at # "flush"
  BY <1>3 DEF Shape
<1> QED
  BY <1>8, <1>9, <1>10, <1>11, AskData

\* The end: the pages below the new size are those of the file, and the others are
\* unmapped.
LEMMA TruncatedData ==
  ASSUME All, NEW p \in Procs, NEW n \in Fds, call[p] # NIL, call[p].op = "truncate", call[p].n = n,
         ipc[p].at = "got", Return(p), UNCHANGED <<server, fds, file, dirty, filefd, opentab, failed>>,
         file.size = call[p].limit, Filled(file.size), Pages(p, n, file.size)',
         \A q \in Procs \ {p} : data'[q] = data[q], \A m \in Fds \ {n} : data'[p][m] = data[p][m]
  PROVE  DataInd'
<1>1. call'[p] = NIL /\ \A q \in Procs \ {p} : call'[q] = call[q]
  BY ReturnType DEF All
<1>2. TruncateOk(p) /\ CallOk(p)
  BY Parts DEF All, Ind, CallsOk
<1>3. Fd(p, n).size = file.size /\ Open(p, n)
  BY <1>2 DEF TruncateOk, CallOk, Opening
<1>4. ASSUME NEW m \in Fds PROVE FdData(p, m)'
  <2>1. CASE m # n
    <3>1. ~Changing(p, m)
      BY <2>1 DEF Changing
    <3> QED
      BY <2>1, <3>1, FdDataKept
  <2>2. CASE m = n
    <3>1. file.size \in 0 .. MaxSize /\ Indices = 0 .. MaxSize - 1 /\ MaxSize \in Nat
      BY FdParts DEF All
    <3>2. Fd(p, n)' = Fd(p, n) /\ Open(p, n)'
      BY <1>3 DEF Fd, Open
    <3>3. Current(p, n)'
      BY <1>3, <3>2 DEF Current, Pages
    <3>4. Loose(p, n)'
      BY <1>3, <3>1, <3>2 DEF Loose, Pages
    <3> QED
      BY <2>2, <3>2, <3>3, <3>4 DEF FdData
  <2> QED
    BY <2>1, <2>2
<1>5. DiskData'
  <2>1. Open(p, n)' /\ ~Saved(p, n)'
    BY <1>1, <1>3 DEF Open, Saved
  <2> QED
    BY <2>1 DEF DiskData, Open, Saved
<1> QED
  BY <1>3, <1>4, <1>5, ReturnData DEF Open

LEMMA TruncateNextData ==
  ASSUME All, NEW p \in Procs, NEW n \in Fds, call[p] # NIL, call[p].op = "truncate", call[p].n = n,
         ipc[p].at = "got", NEW c \in CallType, c.op = "truncate", c.n = n, c.old = call[p].old,
         c.limit = call[p].limit, c.then = call[p].then, c.arg = call[p].arg, file.size = c.limit,
         Left(c) => Pages(p, n, c.i) /\ Filled(c.i) /\ c.old <= c.i /\ c.old < c.limit,
         ~Left(c) => \A i \in Indices :
                       /\ i < c.limit => data[p][n][i] = file.block[i] /\ file.block[i] # NIL
                       /\ i >= c.limit /\ i >= c.old => data[p][n][i] = NIL,
         TruncateNext(p, c), UNCHANGED <<server, fds, opentab, filefd, file, dirty, failed>>
  PROVE  DataInd'
<1>1. /\ c.i \in 0 .. MaxSize /\ c.limit \in 0 .. MaxSize /\ c.old \in 0 .. MaxSize
      /\ Indices = 0 .. MaxSize - 1 /\ MaxSize \in Nat
  BY FileServerAssumption DEF CallType, Indices
<1>2. Shape(call[p]) /\ Open(p, n) /\ data[p][n] \in [Indices -> Blocks \cup {Private, NIL}]
  BY Parts DEF All, Ind, CallsOk, CallOk, Opening, DescType
<1>3. CASE Left(c)
  <2>1. PICK d \in CallType : d = [c EXCEPT !.at = "map"]
    BY DEF CallType
  <2>2. d.op = "truncate" /\ d.at = "map" /\ d.n = n /\ d.i = c.i /\ d.limit = c.limit
        /\ d.old = c.old /\ d.then = c.then /\ d.arg = c.arg
    BY <2>1 DEF CallType
  <2>3. Fd(p, n).fileid = fds[p][n].fileid /\ fds[p][n].fileid \in Nat /\ c.i \in Indices
    BY <1>1, <1>2, <1>3, Found, FdParts DEF All, Left
  <2>4. PICK rq \in Requests : rq = Request("MAP", Fd(p, n).fileid, c.i)
    BY <2>3 DEF Request, Requests
  <2>5. /\ ipc' = [ipc EXCEPT ![p] = [at |-> "send", request |-> rq]]
        /\ call' = [call EXCEPT ![p] = d] /\ UNCHANGED <<data, unsaved>>
    BY <1>3, <2>1, <2>4 DEF TruncateNext, MapNext, fsipc
  <2>6. Shape(d)
    BY <1>2, <1>3, <2>2 DEF Shape, Left
  <2>7. Wanted(d, fds[p][n].fileid, rq)
    BY <2>2, <2>3, <2>4 DEF Wanted
  <2> QED
    BY <1>3, <2>2, <2>5, <2>6, <2>7, TruncateAskData
<1>4. CASE ~Left(c)
  <2>1. truncated(p, c)
    BY <1>4 DEF TruncateNext
  <2>2. Return(p)
    BY <2>1 DEF truncated
  <2>3. Filled(file.size)
    BY <1>4 DEF Filled
  <2>4. CASE c.then = "write"
    <3>1. c.old < c.limit
      BY <1>1, <1>2, <2>4 DEF Shape
    <3>2. c.limit - 1 \in Indices /\ c.limit - 1 < c.limit
      BY <1>1, <3>1
    <3>3. data[p][n][c.limit - 1] # NIL
      BY <1>4, <3>2
    <3>4. UNCHANGED data
      BY <2>1, <2>4, <3>3 DEF truncated, Store
    <3>5. Pages(p, n, file.size)'
      BY <1>1, <1>4, <3>1, <3>4 DEF Pages
    <3> QED
      BY <2>2, <2>3, <3>4, <3>5, TruncatedData
  <2>5. CASE c.then # "write"
    <3>1. data' = [data EXCEPT ![p][n] = [i \in Indices |-> IF c.limit <= i /\ i < c.old THEN NIL ELSE @[i]]]
      BY <2>1, <2>5 DEF truncated, unmap_above
    <3>2. /\ data'[p][n] = [i \in Indices |-> IF c.limit <= i /\ i < c.old THEN NIL ELSE data[p][n][i]]
          /\ \A m \in Fds \ {n} : data'[p][m] = data[p][m]
          /\ \A q \in Procs \ {p} : data'[q] = data[q]
      BY <3>1 DEF All, Ind, DescType
    <3>3. Pages(p, n, file.size)'
      <4>1. ASSUME NEW i \in Indices PROVE data'[p][n][i] = IF i < file.size THEN file.block[i] ELSE NIL
        BY <1>1, <1>4, <3>2
      <4> QED
        BY <4>1 DEF Pages
    <3> QED
      BY <2>2, <2>3, <3>2, <3>3, TruncatedData
  <2> QED
    BY <2>4, <2>5
<1> QED
  BY <1>3, <1>4

LEMMA TruncateSetData ==
  ASSUME All, NEW p \in Procs, truncate_set(p)
  PROVE  DataInd'
<1>1. UNCHANGED <<server, fds, opentab, filefd, file, dirty>>
  BY DEF truncate_set, serverVars
<1>2. /\ call[p] \in CallType /\ call[p] # NIL /\ ipc[p].at = "got"
      /\ call[p].op = "truncate" /\ call[p].at = "truncate"
  BY GotFacts DEF truncate_set, All
<1>3. TruncateOk(p) /\ Shape(call[p]) /\ ResultOk(p)
  BY <1>2, Parts
<1>4. ~Answering(p) /\ Answered(p)
  BY <1>2, NotAnswering DEF All, Answered
<1>5. Good(p)
  BY <1>2, <1>3, <1>4 DEF ResultOk, Result, Good
<1>6. TruncateNext(p, call[p]) /\ UNCHANGED failed
  BY <1>5 DEF truncate_set
<1>7. PICK n \in Fds : call[p].n = n
  BY <1>2, CallParts DEF All
<1>8. PICK c \in CallType : c = call[p]
  BY <1>2
<1>9. /\ file.size = c.limit
      /\ \A i \in Indices : /\ i < c.old /\ i < c.limit => data[p][n][i] = file.block[i] /\ file.block[i] # NIL
                            /\ i >= c.old => data[p][n][i] = NIL
  BY <1>2, <1>3, <1>4, <1>7, <1>8 DEF TruncateOk
<1>10. /\ c.i = c.old /\ c.old \in 0 .. MaxSize /\ c.limit \in 0 .. MaxSize
       /\ Indices = 0 .. MaxSize - 1 /\ MaxSize \in Nat
  BY <1>2, <1>3, <1>8, CallParts DEF All, Shape, Indices
<1>11. Left(c) => Pages(p, n, c.i) /\ Filled(c.i) /\ c.old <= c.i /\ c.old < c.limit
  BY <1>9, <1>10 DEF Left, Pages, Filled
<1>12. ~Left(c) => \A i \in Indices :
                       /\ i < c.limit => data[p][n][i] = file.block[i] /\ file.block[i] # NIL
                       /\ i >= c.limit /\ i >= c.old => data[p][n][i] = NIL
  BY <1>9, <1>10 DEF Left
<1> QED
  BY <1>1, <1>2, <1>6, <1>7, <1>8, <1>9, <1>11, <1>12, TruncateNextData

LEMMA TruncateMappedData ==
  ASSUME All, NEW p \in Procs, truncate_mapped(p)
  PROVE  DataInd'
<1>1. UNCHANGED <<server, fds, opentab, filefd, file, dirty>>
  BY DEF truncate_mapped, serverVars
<1>2. /\ call[p] \in CallType /\ call[p] # NIL /\ ipc[p].at = "got" /\ CallOk(p)
      /\ call[p].op = "truncate" /\ call[p].at = "map"
  BY GotFacts DEF truncate_mapped, All
<1>3. TruncateOk(p) /\ Shape(call[p])
  BY <1>2, Parts
<1>4. PICK n \in Fds : call[p].n = n
  BY <1>2, CallParts DEF All
<1>5. PICK b \in CallType : b = call[p]
  BY <1>2
<1>6. file.size = b.limit /\ Pages(p, n, Have(p)) /\ Filled(Have(p))
  BY <1>2, <1>3, <1>4, <1>5 DEF TruncateOk
<1>7. /\ b.i < b.limit /\ b.old <= b.i /\ b.old < b.limit
      /\ b.i \in 0 .. MaxSize /\ b.old \in 0 .. MaxSize /\ b.limit \in 0 .. MaxSize
      /\ Indices = 0 .. MaxSize - 1 /\ MaxSize \in Nat
  BY <1>2, <1>3, <1>5, CallParts DEF All, Shape, Indices
<1>8. CASE Good(p)
  <2>1. b.i + 1 \in 0 .. MaxSize
    BY <1>7
  <2>2. PICK c \in CallType : c = [b EXCEPT !.i = @ + 1]
    BY <2>1 DEF CallType
  <2>3. /\ c.op = "truncate" /\ c.n = n /\ c.i = b.i + 1 /\ c.limit = b.limit /\ c.old = b.old
        /\ c.then = b.then /\ c.arg = b.arg
    BY <1>2, <1>4, <1>5, <2>2 DEF CallType
  <2>4. TruncateNext(p, c) /\ UNCHANGED failed
    BY <1>5, <1>8, <2>2 DEF truncate_mapped
  <2>5. Pages(p, n, c.i) /\ Filled(c.i)
    BY <1>2, <1>5, <1>6, <1>8, <2>3 DEF Have
  <2>6. ~Left(c) => \A i \in Indices :
                       /\ i < c.limit => data[p][n][i] = file.block[i] /\ file.block[i] # NIL
                       /\ i >= c.limit /\ i >= c.old => data[p][n][i] = NIL
    BY <1>7, <2>3, <2>5 DEF Left, Pages, Filled
  <2>7. c.old <= c.i /\ c.old < c.limit
    BY <1>7, <2>3
  <2> QED
    BY <1>1, <1>2, <1>4, <1>5, <1>6, <2>3, <2>4, <2>5, <2>6, <2>7, TruncateNextData
<1>9. CASE ~Good(p)
  <2>1. Open(p, n)
    BY <1>2, <1>4 DEF CallOk, Opening
  <2>2. Fd(p, n).fileid = fds[p][n].fileid /\ fds[p][n].fileid \in Nat
    BY <2>1, Found, FdParts DEF All
  <2>3. PICK rq \in Requests : rq = Request("SET_SIZE", Fd(p, n).fileid, b.old)
    BY <1>7, <2>2 DEF Request, Requests, Sizes
  <2>4. PICK c \in CallType : c = [b EXCEPT !.at = "back"]
    BY DEF CallType
  <2>5. /\ c.op = "truncate" /\ c.at = "back" /\ c.n = n /\ c.i = b.i /\ c.limit = b.limit /\ c.old = b.old
        /\ c.then = b.then /\ c.arg = b.arg
    BY <1>2, <1>4, <1>5, <2>4 DEF CallType
  <2>6. /\ fsipc(p, Request("SET_SIZE", Fd(p, call[p].n).fileid, call[p].old), [call[p] EXCEPT !.at = "back"])
        /\ Failed(p) /\ UNCHANGED <<data, unsaved>>
    BY <1>9 DEF truncate_mapped
  <2>7. /\ ipc' = [ipc EXCEPT ![p] = [at |-> "send", request |-> rq]] /\ call' = [call EXCEPT ![p] = c]
        /\ failed \subseteq failed' /\ fds[p][n].fileid \in failed'
    BY <1>4, <1>5, <2>3, <2>4, <2>6 DEF fsipc, Failed
  <2>8. Shape(c)
    BY <1>3, <1>4, <1>5, <1>7, <2>5 DEF Shape
  <2>9. Wanted(c, fds[p][n].fileid, rq)
    BY <2>2, <2>3, <2>5 DEF Wanted
  <2>10. Pages(p, n, b.i) /\ Filled(b.i)
    BY <1>5, <1>6, <1>9 DEF Have
  <2>11. Filled(c.old) /\ \A i \in Indices : data[p][n][i] # NIL => i < c.limit
    BY <1>7, <2>5, <2>10 DEF Filled, Pages
  <2> QED
    BY <1>1, <1>2, <1>4, <1>5, <1>6, <2>5, <2>6, <2>7, <2>8, <2>9, <2>11, TruncateAskData
<1> QED
  BY <1>8, <1>9

LEMMA TruncateBackData ==
  ASSUME All, NEW p \in Procs, truncate_back(p)
  PROVE  DataInd'
<1>1. Return(p) /\ UNCHANGED <<server, fds, data, opentab, filefd, file, dirty, unsaved, failed>>
  BY DEF truncate_back, serverVars, procVars
<1>2. /\ call[p] \in CallType /\ call[p] # NIL /\ ipc[p].at = "got" /\ CallOk(p)
      /\ call[p].op = "truncate" /\ call[p].at = "back"
  BY GotFacts DEF truncate_back, All
<1>3. TruncateOk(p) /\ Shape(call[p]) /\ Answered(p)
  BY <1>2, Parts DEF Answered
<1>4. PICK n \in Fds : call[p].n = n
  BY <1>2, CallParts DEF All
<1>5. Open(p, n)
  BY <1>2, <1>4 DEF CallOk, Opening
<1>6. /\ file.size = call[p].old /\ Filled(file.size) /\ fds[p][n].fileid \in failed
      /\ Fd(p, n).size = call[p].limit /\ \A i \in Indices : data[p][n][i] # NIL => i < call[p].limit
  BY <1>2, <1>3, <1>4 DEF TruncateOk
<1>7. call[p].old < call[p].limit /\ call[p].old \in 0 .. MaxSize /\ call[p].limit \in 0 .. MaxSize
      /\ MaxSize \in Nat
  BY <1>2, <1>3, CallParts DEF All, Shape
<1>8. Loose(p, n)
  BY <1>6, <1>7 DEF Loose
<1>9. Loose(p, n)' /\ Open(p, n)' /\ fds'[p][n].fileid \in failed'
  BY <1>1, <1>5, <1>6, <1>8 DEF Loose, Open, Fd
<1>10. FdData(p, n)'
  BY <1>9 DEF FdData
<1> QED
  BY <1>1, <1>2, <1>4, <1>6, <1>10, EndData

LEMMA SyncGotData ==
  ASSUME All, NEW p \in Procs, sync_got(p)
  PROVE  DataInd'
<1>1. Return(p) /\ UNCHANGED <<server, fds, data, opentab, filefd, file, dirty, unsaved, failed>>
  BY DEF sync_got, serverVars, procVars
<1>2. call[p] # NIL /\ ipc[p].at = "got" /\ call[p].op = "sync" /\ call[p].at = "sync"
  BY GotFacts DEF sync_got, All
<1>3. PICK n \in Fds : call[p].n = n
  BY <1>2, CallParts DEF All
<1> QED
  BY <1>1, <1>2, <1>3, EndData

\* Steps that change nothing here, except what the disk has or how far a message is.
LEMMA AsideData ==
  ASSUME All, UNCHANGED <<call, fds, data, file, dirty, filefd, opentab, failed>>,
         \A q \in Procs : /\ (ipc'[q].at = "got") <=> (ipc[q].at = "got")
                          /\ ipc[q].at = "got" => ipc'[q].r = ipc[q].r
                          /\ ipc[q].at # "got" => ipc'[q].request = ipc[q].request
                          /\ Answering(q)' <=> Answering(q)
                          /\ Answering(q) => server' = server,
         unsaved' \subseteq unsaved \/ DiskData'
  PROVE  DataInd'
<1>1. ASSUME NEW q \in Procs PROVE CallData(q)'
  <2>1. call[q] # NIL /\ call[q].op = "truncate" => Sole(q)'
    <3> SUFFICES ASSUME call[q] # NIL, call[q].op = "truncate" PROVE Sole(q)'
      OBVIOUS
    <3>1. Sole(q)
      BY DEF All, DataInd, CallData, TruncateOk
    <3> QED
      BY <3>1 DEF Sole, Open, Others
  <2> QED
    BY <2>1, CallDataKept
<1>2. ASSUME NEW q \in Procs, NEW n \in Fds PROVE FdData(q, n)'
  <2>1. Changing(q, n) => Changing(q, n)'
    BY DEF Changing
  <2> QED
    BY <2>1, FdDataKept
<1>3. FileData'
  <2>1. FileData
    BY DEF All, DataInd
  <2> QED
    BY <2>1 DEF FileData, Filled
<1>4. DiskData'
  <2>1. ASSUME NEW q \in Procs, NEW n \in Fds, Saved(q, n)' PROVE Saved(q, n)
    BY <2>1 DEF Saved, Answered
  <2> QED
    BY <2>1, DiskDataKept DEF Open
<1>5. EntryData'
  BY DEF All, DataInd, EntryData
<1> QED
  BY <1>1, <1>2, <1>3, <1>4, <1>5 DEF DataInd

LEMMA FtruncateData ==
  ASSUME All, NEW p \in Procs, ftruncate(p)
  PROVE  DataInd'
<1>1. PICK n \in Fds, size \in Sizes : Open(p, n) /\ resize(p, n, size, "")
  BY DEF ftruncate, Sizes
<1> QED
  BY <1>1, ResizeData DEF ftruncate

LEMMA WriteData ==
  ASSUME All, NEW p \in Procs, write(p)
  PROVE  DataInd'
<1>1. PICK n \in Fds, i \in Indices :
        /\ Open(p, n) /\ Usable(p, n)
        /\ IF i + 1 > Fd(p, n).size THEN resize(p, n, i + 1, "write")
           ELSE Store(p, n, i) /\ UNCHANGED <<serverVars, filefd, server, fds, call, ipc>>
  BY DEF write
<1>2. call[p] = NIL /\ UNCHANGED failed /\ Begin(p)
  BY BeginFacts DEF All, write, Begin, Idle
<1>3. CASE i + 1 > Fd(p, n).size
  <2>1. PICK size \in Sizes : size = i + 1
    BY FileServerAssumption DEF Sizes, Indices
  <2> QED
    BY <1>1, <1>2, <1>3, <2>1, ResizeData
<1>4. CASE ~(i + 1 > Fd(p, n).size)
  <2>1. Store(p, n, i) /\ UNCHANGED <<opentab, file, dirty, filefd, server, fds, call, ipc>>
    BY <1>1, <1>4 DEF serverVars
  <2>2. Current(p, n)
    <3>1. FdData(p, n) /\ ~Changing(p, n)
      BY <1>2 DEF All, DataInd, Changing
    <3> QED
      BY <1>1, <3>1 DEF FdData, Usable
  <2>3. Filled(file.size)
    <3>1. \A q \in Procs : call[q] # NIL => call[q].op # "truncate"
      BY <1>1, <1>2, NoTruncate
    <3> QED
      BY <3>1 DEF All, DataInd, FileData
  <2>4. i < file.size
    <3>1. Fd(p, n).size = file.size /\ file.size \in 0 .. MaxSize /\ i \in 0 .. MaxSize - 1 /\ MaxSize \in Nat
      BY <2>2, FdParts DEF All, Current, Indices
    <3> QED
      BY <1>4, <3>1
  <2>5. data[p][n][i] # NIL
    BY <2>2, <2>3, <2>4 DEF Current, Pages, Filled
  <2>6. UNCHANGED data
    BY <2>1, <2>5 DEF Store
  <2>7. DiskData'
    <3>1. Open(p, n)' /\ ~Saved(p, n)'
      BY <1>1, <1>2, <2>1 DEF Open, Saved
    <3> QED
      BY <3>1 DEF DiskData, Open, Saved
  <2> QED
    BY <1>2, <2>1, <2>6, <2>7, AsideData DEF Answering
<1> QED
  BY <1>3, <1>4

-----------------------------------------------------------------------------
(***************************************************************************)
(* Messages, sync, exit and fork.                                          *)
(***************************************************************************)
LEMMA SendData ==
  ASSUME All, NEW p \in Procs, Send(p)
  PROVE  DataInd'
<1>1. UNCHANGED <<call, fds, data, file, dirty, filefd, opentab, failed, unsaved>>
  BY DEF Send, serverVars, procVars
<1>2. server = Waiting /\ server' = [at |-> "serve", whom |-> p]
  BY DEF Send, ipc_send
<1>3. \A q \in Procs : ~Answering(q) /\ ~Answering(q)'
  BY <1>2 DEF Answering, Waiting
<1>4. ipc[p].at = "send" /\ ipc' = [ipc EXCEPT ![p].at = "sent"]
  BY DEF Send, ipc_send
<1>5. ipc[p] \in [at : {"send", "sent", "recv"}, request : Requests]
  BY <1>4 DEF All, Ind, CallsType, Messages, Silent
<1>6. ipc'[p].at = "sent" /\ ipc'[p].request = ipc[p].request
  BY <1>4, <1>5 DEF All, Ind, CallsType
<1>7. \A q \in Procs \ {p} : ipc'[q] = ipc[q]
  BY <1>4 DEF All, Ind, CallsType
<1> QED
  BY <1>1, <1>3, <1>4, <1>6, <1>7, AsideData

LEMMA RecvData ==
  ASSUME All, NEW p \in Procs, ipc_recv(p)
  PROVE  DataInd'
<1>1. UNCHANGED <<call, fds, data, file, dirty, filefd, opentab, failed, unsaved, server>>
  BY DEF ipc_recv, serverVars, procVars
<1>4. ipc[p].at = "sent" /\ ipc' = [ipc EXCEPT ![p].at = "recv"]
  BY DEF ipc_recv
<1>5. ipc[p] \in [at : {"send", "sent", "recv"}, request : Requests]
  BY <1>4 DEF All, Ind, CallsType, Messages, Silent
<1>6. ipc'[p].at = "recv" /\ ipc'[p].request = ipc[p].request
  BY <1>4, <1>5 DEF All, Ind, CallsType
<1>7. \A q \in Procs \ {p} : ipc'[q] = ipc[q]
  BY <1>4 DEF All, Ind, CallsType
<1> QED
  BY <1>1, <1>4, <1>6, <1>7, AsideData DEF Answering

LEMMA ExitData ==
  ASSUME All, UNCHANGED <<call, ipc, server, fds, data, file, dirty, filefd, opentab, failed, unsaved>>
  PROVE  DataInd'
  BY AsideData DEF Answering

LEMMA SyncData ==
  ASSUME All, NEW p \in Procs, sync(p)
  PROVE  DataInd'
<1>1. /\ Begin(p) /\ fsipc(p, [type |-> "SYNC"], Call("sync", 0))
      /\ UNCHANGED <<server, fds, data, opentab, filefd, file, dirty, unsaved>>
  BY DEF sync, serverVars
<1>2. ipc[p].at = "no" /\ UNCHANGED failed /\ call[p] = NIL
  BY <1>1, BeginFacts DEF All, Begin, Idle
<1>3. PICK rq \in Requests : rq = [type |-> "SYNC"]
  BY DEF Requests
<1>4. 0 \in Fds
  BY FileServerAssumption DEF Fds
<1>5. PICK c \in CallType : c = Call("sync", 0)
  BY <1>4, CallFacts
<1>6. c.op = "sync" /\ c.at = "sync" /\ c.then = "" /\ rq.type = "SYNC"
  BY <1>3, <1>5 DEF Call
<1>7. /\ ipc' = [ipc EXCEPT ![p] = [at |-> "send", request |-> rq]]
      /\ call' = [call EXCEPT ![p] = c]
  BY <1>1, <1>3, <1>5 DEF fsipc
<1>8. call'[p] = c
  BY <1>7 DEF All, Ind, CallsType
<1>9. Shape(c) /\ Wanted(c, fds[p][c.n].fileid, rq)
  BY <1>6 DEF Shape, Wanted
<1>10. OpenOk(p)' /\ TruncateOk(p)' /\ CloseOk(p)'
  BY <1>6, <1>8 DEF OpenOk, TruncateOk, CloseOk
<1> QED
  BY <1>1, <1>2, <1>6, <1>7, <1>9, <1>10, AskData

-----------------------------------------------------------------------------
(***************************************************************************)
(* The steps of close, dup and fork.                                       *)
(***************************************************************************)
\* The loop of DIRTY requests, and CLOSE.
LEMMA DirtyNextData ==
  ASSUME All, NEW p \in Procs, NEW n \in Fds, Open(p, n), ipc[p].at \notin {"sent", "recv"},
         call[p] # NIL => call[p].at # "flush" /\ call[p].op = "close" /\ call[p].n = n,
         NEW c \in CallType, c.op = "close", c.n = n, c.limit = Fd(p, n).size, c.i <= c.limit, Marked(c.i),
         c.then # "write", c.then = "dup" => c.arg # n, DirtyNext(p, c, Fd(p, n).fileid),
         UNCHANGED <<server, fds, data, opentab, filefd, file, dirty, unsaved, failed>>
  PROVE  DataInd'
<1>1. /\ c.i \in 0 .. MaxSize /\ c.limit \in 0 .. MaxSize
      /\ Indices = 0 .. MaxSize - 1 /\ MaxSize \in Nat
  BY FileServerAssumption DEF CallType, Indices
<1>2. Fd(p, n).fileid = fds[p][n].fileid /\ fds[p][n].fileid \in Nat
  BY Found, FdParts DEF All
<1>3. \A q \in Procs \ {p} : call[q] # NIL => call[q].op # "truncate"
  BY NoTruncate
<1>4. ASSUME NEW d \in CallType, NEW rq \in Requests, d.op = "close", d.n = n, d.limit = c.limit,
             d.at \in {"dirty", "flush"}, IF d.at = "dirty" THEN d.i = c.i + 1 ELSE d.i = c.i,
             Shape(d), Wanted(d, fds[p][n].fileid, rq),
             ipc' = [ipc EXCEPT ![p] = [at |-> "send", request |-> rq]], call' = [call EXCEPT ![p] = d]
      PROVE  DataInd'
  <2>1. call'[p] = d
    BY <1>4 DEF All, Ind, CallsType
  <2>2. ipc'[p].at = "send"
    <3>1. ipc'[p] = [at |-> "send", request |-> rq]
      BY <1>4 DEF All, Ind, CallsType
    <3> QED
      BY <3>1, AskFields
  <2>3. ~Answered(p)'
    BY <2>2, NotAnswering DEF All, Answered, Answering
  <2>4. Fd(p, n)' = Fd(p, n) /\ Marked(c.i)'
    BY DEF Fd, Marked
  <2>5. d.at = "dirty" => d.i - 1 = c.i
    BY <1>1, <1>4
  <2>6. CloseOk(p)'
    <3>1. call'[p].limit = Fd(p, n)'.size /\ call'[p].n = n
      BY <1>4, <2>1, <2>4
    <3>2. CASE d.at = "dirty"
      <4>1. call'[p].i - 1 = c.i /\ call'[p].at = "dirty"
        BY <2>1, <2>5, <3>2
      <4> QED
        BY <2>3, <2>4, <3>1, <4>1 DEF CloseOk, Fd, Marked
    <3>3. CASE d.at = "flush"
      <4>1. call'[p].i = c.i /\ call'[p].at = "flush"
        BY <1>4, <2>1, <3>3
      <4> QED
        BY <2>3, <2>4, <3>1, <4>1 DEF CloseOk, Fd, Marked
    <3> QED
      BY <1>4, <3>2, <3>3
  <2>7. OpenOk(p)' /\ TruncateOk(p)'
    BY <1>4, <2>1 DEF OpenOk, TruncateOk
  <2> QED
    BY <1>3, <1>4, <2>6, <2>7, AskData
<1>5. CASE c.i < c.limit
  <2>1. c.i \in Indices /\ c.i + 1 \in 0 .. MaxSize
    BY <1>1, <1>5
  <2>2. PICK d \in CallType : d = [c EXCEPT !.at = "dirty", !.i = @ + 1]
    BY <2>1 DEF CallType
  <2>3. /\ d.op = "close" /\ d.n = n /\ d.limit = c.limit /\ d.at = "dirty" /\ d.i = c.i + 1
        /\ d.then = c.then /\ d.arg = c.arg
    BY <2>2 DEF CallType
  <2>4. PICK rq \in Requests : rq = Request("DIRTY", Fd(p, n).fileid, c.i)
    BY <1>2, <2>1 DEF Request, Requests
  <2>5. Shape(d)
    BY <1>1, <1>5, <2>3 DEF Shape
  <2>6. d.i - 1 = c.i
    BY <1>1, <2>3
  <2>7. Wanted(d, fds[p][n].fileid, rq)
    BY <1>2, <2>3, <2>4, <2>6 DEF Wanted
  <2>8. ipc' = [ipc EXCEPT ![p] = [at |-> "send", request |-> rq]] /\ call' = [call EXCEPT ![p] = d]
    BY <1>5, <2>2, <2>4 DEF DirtyNext, fsipc
  <2> QED
    BY <1>4, <2>3, <2>5, <2>7, <2>8
<1>6. CASE ~(c.i < c.limit)
  <2>2. PICK d \in CallType : d = [c EXCEPT !.at = "flush"]
    BY DEF CallType
  <2>3. /\ d.op = "close" /\ d.n = n /\ d.limit = c.limit /\ d.at = "flush" /\ d.i = c.i
        /\ d.then = c.then /\ d.arg = c.arg
    BY <2>2 DEF CallType
  <2>4. PICK rq \in Requests : rq = Request("CLOSE", Fd(p, n).fileid, 0)
    BY <1>2, Constants DEF Request, Requests
  <2>5. Shape(d)
    BY <1>1, <1>6, <2>3 DEF Shape
  <2>7. Wanted(d, fds[p][n].fileid, rq)
    BY <1>2, <2>3, <2>4 DEF Wanted
  <2>8. ipc' = [ipc EXCEPT ![p] = [at |-> "send", request |-> rq]] /\ call' = [call EXCEPT ![p] = d]
    BY <1>6, <2>2, <2>4 DEF DirtyNext, fsipc
  <2> QED
    BY <1>4, <2>3, <2>5, <2>7, <2>8
<1> QED
  BY <1>5, <1>6

LEMMA CloseBeginData ==
  ASSUME All, NEW p \in Procs, NEW n \in Fds, Open(p, n), call[p] = NIL, UNCHANGED failed,
         NEW b \in CallType, b.op = "close", b.n = n, b.i = 0, b.then # "write", b.then = "dup" => b.arg # n,
         CloseBegin(p, b)
  PROVE  DataInd'
<1>1. UNCHANGED <<server, fds, data, opentab, filefd, file, dirty, unsaved>>
  BY DEF CloseBegin, serverVars
<1>2. Fd(p, n).size \in 0 .. MaxSize /\ MaxSize \in Nat
  BY FdParts DEF All
<1>3. PICK c \in CallType : c = [b EXCEPT !.limit = Fd(p, n).size]
  BY <1>2 DEF CallType
<1>4. /\ c.op = "close" /\ c.n = n /\ c.i = 0 /\ c.limit = Fd(p, n).size
      /\ c.then = b.then /\ c.arg = b.arg
  BY <1>3 DEF CallType
<1>5. DirtyNext(p, c, Fd(p, n).fileid)
  BY <1>3 DEF CloseBegin
<1>6. c.i <= c.limit /\ Marked(c.i)
  BY <1>2, <1>4, FileServerAssumption DEF Marked, Indices
<1>7. ipc[p].at \notin {"sent", "recv"}
  BY DEF All, Ind, CallsType, Silent
<1> QED
  BY <1>1, <1>4, <1>5, <1>6, <1>7, DirtyNextData

LEMMA CloseData ==
  ASSUME All, NEW p \in Procs, close(p)
  PROVE  DataInd'
<1>1. call[p] = NIL /\ UNCHANGED failed
  BY DEF close, Begin, Idle
<1>2. PICK n \in Fds : Open(p, n) /\ CloseBegin(p, Call("close", n))
  BY DEF close
<1>3. PICK b \in CallType : b = Call("close", n)
  BY CallFacts
<1>4. b.op = "close" /\ b.n = n /\ b.i = 0 /\ b.then = ""
  BY <1>3 DEF Call
<1> QED
  BY <1>1, <1>2, <1>3, <1>4, CloseBeginData

LEMMA CloseAllData ==
  ASSUME All, NEW p \in Procs, close_all(p)
  PROVE  DataInd'
<1>1. call[p] = NIL /\ UNCHANGED failed
  BY DEF close_all
<1>2. CASE UNCHANGED <<serverVars, filefd, unsaved, server, fds, data, call, ipc>>
  BY <1>1, <1>2, ExitData DEF serverVars
<1>3. ASSUME NEW n \in Fds, Open(p, n), CloseBegin(p, Call("close", n)) PROVE DataInd'
  <2>3. PICK b \in CallType : b = Call("close", n)
    BY CallFacts
  <2>4. b.op = "close" /\ b.n = n /\ b.i = 0 /\ b.then = ""
    BY <2>3 DEF Call
  <2> QED
    BY <1>1, <1>3, <2>3, <2>4, CloseBeginData
<1> QED
  BY <1>2, <1>3 DEF close_all

LEMMA CloseDirtiedData ==
  ASSUME All, NEW p \in Procs, close_dirtied(p)
  PROVE  DataInd'
<1>1. UNCHANGED <<server, fds, data, opentab, filefd, file, dirty, unsaved, failed>>
  BY DEF close_dirtied, serverVars, procVars
<1>2. /\ call[p] \in CallType /\ call[p] # NIL /\ ipc[p].at = "got" /\ CallOk(p)
      /\ call[p].op = "close" /\ call[p].at = "dirty"
  BY GotFacts DEF close_dirtied, All
<1>3. PICK n \in Fds : call[p].n = n
  BY <1>2, CallParts DEF All
<1>4. CloseOk(p) /\ Shape(call[p]) /\ Answered(p) /\ Open(p, n)
  BY <1>2, <1>3, Parts DEF Answered, CallOk, Opening
<1>5. PICK c \in CallType : c = call[p]
  BY <1>2
<1>6. c.limit = Fd(p, n).size /\ Marked(c.i)
  BY <1>2, <1>3, <1>4, <1>5 DEF CloseOk
<1>7. c.i <= c.limit /\ c.then # "write" /\ (c.then = "dup" => c.arg # n)
  BY <1>2, <1>3, <1>4, <1>5 DEF Shape, CallOk
<1>8. DirtyNext(p, c, Fd(p, n).fileid)
  BY <1>3, <1>5 DEF close_dirtied
<1> QED
  BY <1>1, <1>2, <1>3, <1>4, <1>5, <1>6, <1>7, <1>8, DirtyNextData

\* Only a call that has been answered by CLOSE can have closed a descriptor.
LEMMA CloseFlushedData ==
  ASSUME All, NEW p \in Procs, close_flushed(p)
  PROVE  DataInd'
<1>1. Return(p) /\ UNCHANGED <<server, opentab, filefd, file, dirty, unsaved, failed>>
  BY DEF close_flushed, serverVars, procVars
<1>2. /\ call[p] \in CallType /\ call[p] # NIL /\ ipc[p].at = "got" /\ CallOk(p)
      /\ call[p].op = "close" /\ call[p].at = "flush"
  BY GotFacts DEF close_flushed, All
<1>3. PICK n \in Fds, m \in Fds : call[p].n = n /\ call[p].arg = m
  BY <1>2, CallParts DEF All
<1>4. /\ CloseOk(p) /\ Shape(call[p]) /\ ResultOk(p) /\ Open(p, n)
      /\ Answered(p) /\ ~Answering(p)
  BY <1>2, <1>3, Parts, NotAnswering DEF All, Answered, CallOk, Opening
<1>5. Good(p)
  BY <1>2, <1>4 DEF ResultOk, Result, Good
<1>6. call[p].limit = Fd(p, n).size /\ (call[p].then = "dup" => m # n)
  BY <1>2, <1>3, <1>4 DEF CloseOk, Shape
<1>7. \A k \in Fds : FdData(p, k) /\ ~Changing(p, k)
  BY <1>2 DEF All, DataInd, Changing
<1>8. \A i \in Indices : data[p][n][i] # NIL => i < call[p].limit
  BY <1>4, <1>6, <1>7 DEF FdData, Loose
<1>9. call'[p] = NIL /\ \A q \in Procs \ {p} : call'[q] = call[q] /\ ipc'[q] = ipc[q]
  BY <1>1, ReturnType DEF All
<1> DEFINE pages == [data[p] EXCEPT ![n] = [i \in Indices |-> IF i < call[p].limit THEN NIL ELSE @[i]]]
<1>10. /\ data' = [data EXCEPT ![p] = IF call[p].then = "dup" THEN Mapped(pages, n, m) ELSE pages]
       /\ fds' = [fds EXCEPT ![p][n] = IF call[p].then = "dup" THEN fds[p][m] ELSE NIL]
  BY <1>3, <1>5 DEF close_flushed
<1>11. /\ pages \in [Fds -> [Indices -> Blocks \cup {Private, NIL}]]
       /\ \A i \in Indices : pages[n][i] = NIL
       /\ \A k \in Fds \ {n} : pages[k] = data[p][k]
  BY <1>8 DEF All, Ind, DescType
<1> HIDE DEF pages
<1>12. /\ fds'[p][n] = IF call[p].then = "dup" THEN fds[p][m] ELSE NIL
       /\ \A k \in Fds \ {n} : fds'[p][k] = fds[p][k]
       /\ \A q \in Procs \ {p} : fds'[q] = fds[q] /\ data'[q] = data[q]
       /\ data'[p] = IF call[p].then = "dup" THEN Mapped(pages, n, m) ELSE pages
  BY <1>10 DEF All, Ind, DescType
<1>13. \A k \in Fds \ {n} : data'[p][k] = data[p][k]
  BY <1>11, <1>12 DEF Mapped
<1>14. ASSUME NEW k \in Fds PROVE FdData(p, k)'
  <2>1. CASE k # n
    <3>1. ~Changing(p, k) /\ fds'[p][k] = fds[p][k] /\ data'[p][k] = data[p][k]
      BY <1>7, <1>12, <1>13, <2>1
    <3> QED
      BY <1>1, <3>1, FdDataKept
  <2>2. CASE k = n /\ call[p].then # "dup"
    BY <1>11, <1>12, <2>2 DEF FdData, Open
  <2>3. CASE k = n /\ call[p].then = "dup"
    <3>1. m # n /\ fds'[p][n] = fds[p][m] /\ data'[p] = Mapped(pages, n, m)
      BY <1>6, <1>12, <2>3
    <3>2. \A i \in Indices : data'[p][n][i] = IF pages[m][i] # NIL THEN pages[m][i] ELSE pages[n][i]
      BY <1>11, <3>1 DEF Mapped
    <3>3. \A i \in Indices : data'[p][n][i] = data[p][m][i]
      BY <1>11, <3>1, <3>2
    <3>4. CASE Open(p, m)
      <4>1. Loose(p, m) /\ (fds[p][m].fileid \notin failed => Current(p, m))
        BY <1>7, <3>4 DEF FdData
      <4>2. Fd(p, n)' = Fd(p, m) /\ Open(p, n)' /\ fds'[p][n].fileid = fds[p][m].fileid
        BY <1>1, <3>1, <3>4 DEF Fd, Open
      <4>3. Loose(p, n)'
        BY <1>1, <3>3, <4>1, <4>2 DEF Loose
      <4>4. Current(p, m) => Current(p, n)'
        BY <1>1, <3>3, <4>2 DEF Current, Pages
      <4> QED
        BY <1>1, <2>3, <4>1, <4>2, <4>3, <4>4 DEF FdData
    <3>5. CASE ~Open(p, m)
      <4>1. \A i \in Indices : data[p][m][i] = NIL
        BY <1>7, <3>5 DEF FdData
      <4> QED
        BY <2>3, <3>1, <3>3, <3>5, <4>1 DEF FdData, Open
    <3> QED
      BY <3>4, <3>5
  <2> QED
    BY <2>1, <2>2, <2>3
<1>15. DiskData'
  <2> SUFFICES ASSUME \A q \in Procs, k \in Fds : Open(q, k)' => Saved(q, k)'
               PROVE  \A q \in Procs, k \in Fds : Open(q, k) => Saved(q, k)
    BY <1>1, DiskDataKept
  <2>1. Saved(p, n)
    BY <1>2, <1>3, <1>4 DEF Saved
  <2>2. ASSUME NEW k \in Fds, k # n, Open(p, k) PROVE FALSE
    BY <1>9, <1>12, <2>2 DEF Open, Saved
  <2>3. ASSUME NEW q \in Procs \ {p}, NEW k \in Fds, Open(q, k) PROVE Saved(q, k)
    <3>1. Saved(q, k)'
      BY <1>12, <2>3 DEF Open
    <3> QED
      BY <1>1, <1>9, <3>1 DEF Saved, Answered, Answering
  <2> QED
    BY <2>1, <2>2, <2>3
<1> QED
  BY <1>1, <1>2, <1>4, <1>12, <1>14, <1>15, ReturnData

LEMMA DupData ==
  ASSUME All, NEW p \in Procs, dup(p)
  PROVE  DataInd'
<1>1. call[p] = NIL /\ UNCHANGED failed /\ Idle(p)
  BY DEF dup, Begin, Idle
<1>2. PICK m \in Fds, n \in Fds :
        /\ Open(p, m) /\ m # n
        /\ IF Open(p, n) THEN CloseBegin(p, [Call("close", n) EXCEPT !.then = "dup", !.arg = m])
           ELSE /\ data' = [data EXCEPT ![p] = Mapped(@, n, m)]
                /\ fds' = [fds EXCEPT ![p][n] = fds[p][m]]
                /\ UNCHANGED <<serverVars, filefd, unsaved, server, call, ipc>>
  BY DEF dup
<1>3. CASE Open(p, n)
  <2>1. PICK a \in CallType : a = Call("close", n)
    BY CallFacts
  <2>2. PICK b \in CallType : b = [a EXCEPT !.then = "dup", !.arg = m]
    BY DEF CallType
  <2>3. a.op = "close" /\ a.n = n /\ a.i = 0
    BY <2>1 DEF Call
  <2>4. b.op = "close" /\ b.n = n /\ b.i = 0 /\ b.then = "dup" /\ b.arg = m
    BY <2>2, <2>3 DEF CallType
  <2>5. CloseBegin(p, b)
    BY <1>2, <1>3, <2>1, <2>2
  <2> QED
    BY <1>1, <1>2, <1>3, <2>4, <2>5, CloseBeginData
<1>4. CASE ~Open(p, n)
  <2>1. /\ data' = [data EXCEPT ![p] = Mapped(@, n, m)]
        /\ fds' = [fds EXCEPT ![p][n] = fds[p][m]]
        /\ UNCHANGED <<opentab, file, dirty, filefd, unsaved, server, call, ipc>>
    BY <1>2, <1>4 DEF serverVars
  <2>2. /\ fds'[p][n] = fds[p][m] /\ \A k \in Fds \ {n} : fds'[p][k] = fds[p][k]
        /\ data'[p] = Mapped(data[p], n, m)
        /\ \A q \in Procs \ {p} : fds'[q] = fds[q] /\ data'[q] = data[q]
    BY <2>1 DEF All, Ind, DescType
  <2>3. \A k \in Fds : FdData(p, k) /\ ~Changing(p, k)
    BY <1>1 DEF All, DataInd, Changing
  <2>4. \A i \in Indices : data[p][n][i] = NIL
    BY <1>4, <2>3 DEF FdData
  <2>5. \A k \in Fds \ {n} : data'[p][k] = data[p][k]
    BY <2>2 DEF All, Ind, DescType, Mapped
  <2>6. \A i \in Indices : data'[p][n][i] = data[p][m][i]
    <3>1. data'[p][n] = [i \in Indices |-> IF data[p][m][i] # NIL THEN data[p][m][i] ELSE data[p][n][i]]
      BY <2>2 DEF All, Ind, DescType, Mapped
    <3> QED
      BY <2>4, <3>1
  <2>7. \A q \in Procs : call[q] # NIL => call[q].op # "truncate"
    BY <1>1, <1>2, NoTruncate
  <2>8. ASSUME NEW q \in Procs PROVE CallData(q)'
    <3>1. CASE q = p
      BY <1>1, <2>1, <3>1 DEF CallData
    <3>2. CASE q # p
      <4>1. Answering(q)' <=> Answering(q)
        BY <2>1 DEF Answering
      <4> QED
        BY <1>1, <2>1, <2>2, <2>7, <3>2, <4>1, CallDataKept
    <3> QED
      BY <3>1, <3>2
  <2>9. ASSUME NEW q \in Procs, NEW k \in Fds PROVE FdData(q, k)'
    <3>1. CASE ~(q = p /\ k = n)
      <4>1. fds'[q][k] = fds[q][k] /\ data'[q][k] = data[q][k]
        BY <2>2, <2>5, <3>1
      <4>2. Changing(q, k) => Changing(q, k)'
        BY <2>1 DEF Changing
      <4> QED
        BY <1>1, <2>1, <4>1, <4>2, FdDataKept
    <3>2. CASE q = p /\ k = n
      <4>1. Loose(p, m) /\ (fds[p][m].fileid \notin failed => Current(p, m))
        BY <1>2, <2>3 DEF FdData
      <4>2. Fd(p, n)' = Fd(p, m) /\ Open(p, n)' /\ fds'[p][n].fileid = fds[p][m].fileid
        BY <1>2, <2>1, <2>2 DEF Fd, Open
      <4>3. Loose(p, n)'
        BY <2>1, <2>6, <4>1, <4>2 DEF Loose
      <4>4. Current(p, m) => Current(p, n)'
        BY <2>1, <2>6, <4>2 DEF Current, Pages
      <4> QED
        BY <1>1, <3>2, <4>1, <4>2, <4>3, <4>4 DEF FdData
    <3> QED
      BY <3>1, <3>2
  <2>10. FileData'
    <3>1. FileData
      BY DEF All, DataInd
    <3> QED
      BY <2>1, <3>1 DEF FileData, Filled
  <2>11. DiskData'
    <3>1. Open(p, m)' /\ ~Saved(p, m)'
      BY <1>1, <1>2, <2>1, <2>2 DEF Open, Saved
    <3> QED
      BY <3>1 DEF DiskData, Open, Saved
  <2>12. EntryData'
    BY <2>1 DEF All, DataInd, EntryData
  <2> QED
    BY <2>8, <2>9, <2>10, <2>11, <2>12 DEF DataInd
<1> QED
  BY <1>3, <1>4

\* The child has what the father has, who is in no call.
LEMMA ForkData ==
  ASSUME All, NEW p \in Procs, NEW c \in Procs, fork(p, c)
  PROVE  DataInd'
<1>1. /\ call[p] = NIL /\ status[p] = "run" /\ status[c] = "unborn" /\ c # p
      /\ fds' = [fds EXCEPT ![c] = fds[p]] /\ data' = [data EXCEPT ![c] = data[p]]
      /\ UNCHANGED <<opentab, file, dirty, filefd, unsaved, server, call, ipc, failed>>
  BY DEF fork, Idle, serverVars
<1>2. call[c] = NIL
  BY <1>1 DEF All, Ind, CallsOk, CallOk
<1>3. /\ fds'[c] = fds[p] /\ data'[c] = data[p]
      /\ \A q \in Procs \ {c} : fds'[q] = fds[q] /\ data'[q] = data[q]
  BY <1>1 DEF All, Ind, DescType
<1>4. \A n \in Fds : ~Open(c, n)
  BY <1>1 DEF All, Fresh
<1>5. ASSUME NEW q \in Procs PROVE CallData(q)'
  <2>1. CASE q = c
    BY <1>1, <1>2, <2>1 DEF CallData
  <2>2. CASE q # c
    <3>1. call[q] # NIL /\ call[q].op = "truncate" => Sole(q)'
      <4> SUFFICES ASSUME call[q] # NIL, call[q].op = "truncate" PROVE Sole(q)'
        OBVIOUS
      <4>1. Sole(q) /\ q # p
        BY <1>1 DEF All, DataInd, CallData, TruncateOk
      <4>2. \A n \in Fds : fds[p][n] = NIL
        BY <4>1 DEF Sole, Open
      <4>3. \A x \in Procs, n \in Fds : fds'[x][n] # NIL => fds[x][n] # NIL
        BY <1>3, <4>2
      <4> QED
        BY <1>1, <4>1, <4>3 DEF Sole, Open, Others
    <3>2. Answering(q)' <=> Answering(q)
      BY <1>1 DEF Answering
    <3> QED
      BY <1>1, <1>3, <2>2, <3>1, <3>2, CallDataKept
  <2> QED
    BY <2>1, <2>2
<1>6. ASSUME NEW q \in Procs, NEW n \in Fds PROVE FdData(q, n)'
  <2>1. CASE q = c
    <3>1. FdData(p, n) /\ ~Changing(p, n)
      BY <1>1 DEF All, DataInd, Changing
    <3>2. fds'[q][n] = fds[p][n] /\ data'[q][n] = data[p][n]
      BY <1>3, <2>1
    <3>3. Fd(q, n)' = Fd(p, n)
      BY <1>1, <3>2 DEF Fd
    <3>4. Loose(p, n) => Loose(q, n)'
      BY <1>1, <3>2, <3>3 DEF Loose
    <3>5. Current(p, n) => Current(q, n)'
      BY <1>1, <3>2, <3>3 DEF Current, Pages
    <3> QED
      BY <1>1, <3>1, <3>2, <3>4, <3>5 DEF FdData, Open
  <2>2. CASE q # c
    <3>1. Changing(q, n) => Changing(q, n)'
      BY <1>1 DEF Changing
    <3> QED
      BY <1>1, <1>3, <2>2, <3>1, FdDataKept
  <2> QED
    BY <2>1, <2>2
<1>7. FileData'
  <2>1. FileData
    BY DEF All, DataInd
  <2> QED
    BY <1>1, <2>1 DEF FileData, Filled
<1>8. DiskData'
  <2> SUFFICES ASSUME \A q \in Procs, n \in Fds : Open(q, n)' => Saved(q, n)'
               PROVE  \A q \in Procs, n \in Fds : Open(q, n) => Saved(q, n)
    BY <1>1, DiskDataKept
  <2>1. ASSUME NEW q \in Procs, NEW n \in Fds, Open(q, n) PROVE Saved(q, n)
    <3>1. q # c
      BY <1>4, <2>1
    <3>2. Saved(q, n)'
      BY <1>3, <2>1, <3>1 DEF Open
    <3> QED
      BY <1>1, <3>2 DEF Saved, Answered, Answering
  <2> QED
    BY <2>1
<1>9. EntryData'
  BY <1>1 DEF All, DataInd, EntryData
<1> QED
  BY <1>5, <1>6, <1>7, <1>8, <1>9 DEF DataInd

-----------------------------------------------------------------------------
(***************************************************************************)
(* The reply.                                                              *)
(***************************************************************************)
\* What comes with it, by where the client is in its call.
LEMMA ReplyFacts ==
  ASSUME All, SendReply, NEW p \in Procs, p = server.whom
  PROVE  /\ call[p] # NIL /\ ipc[p].at = "recv" /\ server.r \in Answers /\ Answering(p)
         /\ server.r = "ok" /\ call[p].at = "open" =>
              call[p].op = "open" /\ server.page.kind = "Filefd" /\ server.page.o \in Entries
              /\ filefd[server.page.o].size = file.size
         /\ server.r = "ok" /\ call[p].at = "map" =>
              server.page.kind = "block" /\ server.page.b = file.block[call[p].i] /\ file.block[call[p].i] # NIL
         /\ ~(server.r = "ok" /\ call[p].at \in {"open", "map"}) => server.page.kind = "none"
         /\ call[p].op = "open" /\ call[p].at = "map" => server.r = "ok"
<1>1. /\ server.at = "send" /\ server.r \in Answers /\ server.page \in PageRecs /\ ipc[p].at = "recv"
  BY SendFacts DEF All
<1>2. call[p] # NIL /\ Answering(p)
  BY <1>1 DEF All, Ind, CallsType, Silent, Answering
<1>3. ReplyOk(p) /\ ResultOk(p) /\ Shape(call[p]) /\ call[p] \in CallType
  BY <1>2, Parts, CallParts DEF All
<1>4. ASSUME server.r = "ok", call[p].at = "open"
      PROVE  call[p].op = "open" /\ server.page.kind = "Filefd" /\ server.page.o \in Entries
             /\ filefd[server.page.o].size = file.size
  <2>1. call[p].op = "open"
    BY <1>3, <1>4 DEF Shape, CallType
  <2>2. server.page.kind = "Filefd"
    BY <1>1, <1>4, <2>1 DEF All, Ind, ServerOk, Opening
  <2>3. server.page.o \in Entries
    BY <1>1, <2>2 DEF PageRecs, NoPage
  <2> QED
    BY <1>2, <1>3, <1>4, <2>1, <2>2, <2>3 DEF ReplyOk
<1>5. ASSUME server.r = "ok", call[p].at = "map"
      PROVE  server.page.kind = "block" /\ server.page.b = file.block[call[p].i] /\ file.block[call[p].i] # NIL
  BY <1>2, <1>3, <1>5 DEF ReplyOk
<1>6. ASSUME ~(server.r = "ok" /\ call[p].at \in {"open", "map"}) PROVE server.page.kind = "none"
  BY <1>1, <1>2, <1>3, <1>6 DEF ReplyOk, Answers, NoPage
<1>7. ASSUME call[p].op = "open", call[p].at = "map" PROVE server.r = "ok"
  BY <1>2, <1>3, <1>7 DEF ResultOk, Answered, Result
<1> QED
  BY <1>1, <1>2, <1>4, <1>5, <1>6, <1>7

LEMMA ReplyStep ==
  ASSUME All, SendReply, NEW p \in Procs, p = server.whom
  PROVE  /\ UNCHANGED <<call, opentab, filefd, file, dirty, unsaved, failed>>
         /\ ipc'[p].at = "got" /\ ipc'[p].r = server.r
         /\ \A q \in Procs \ {p} : ipc'[q] = ipc[q] /\ fds'[q] = fds[q] /\ data'[q] = data[q] /\ ~Answering(q)
         /\ \A q \in Procs : ~Answering(q)'
         /\ server.page.kind # "Filefd" => fds' = fds
         /\ server.page.kind # "block" => data' = data
<1>1. UNCHANGED <<call, opentab, filefd, file, dirty, unsaved, failed>> /\ server' = Waiting
  BY DEF SendReply, serverVars, procVars
<1>2. PICK page \in PageRecs : page = server.page
  BY SendFacts DEF All
<1>3. /\ ipc' = [ipc EXCEPT ![p] = IF @.at = "recv" THEN [at |-> "got", r |-> server.r] ELSE @]
      /\ fds' = IF page.kind # "Filefd" THEN fds
                ELSE [fds EXCEPT ![p][call[p].n] = [o |-> page.o, fileid |-> filefd[page.o].fileid]]
      /\ data' = IF page.kind # "block" THEN data
                 ELSE [data EXCEPT ![p][call[p].n][call[p].i] = page.b]
  BY <1>2 DEF SendReply
<1>4. /\ ipc'[p] = [at |-> "got", r |-> server.r]
      /\ \A q \in Procs \ {p} : ipc'[q] = ipc[q]
  BY <1>3, SendFacts DEF All, Ind, CallsType, Messages
<1>5. \A q \in Procs \ {p} : fds'[q] = fds[q] /\ data'[q] = data[q]
  BY <1>3 DEF All, Ind, DescType
<1>6. \A q \in Procs : ~Answering(q)'
  BY <1>1 DEF Answering, Waiting
<1>7. \A q \in Procs \ {p} : ~Answering(q)
  BY DEF Answering
<1>8. ipc'[p].at = "got" /\ ipc'[p].r = server.r
  BY <1>4
<1> QED
  BY <1>1, <1>2, <1>3, <1>4, <1>5, <1>6, <1>7, <1>8

LEMMA ReplyParts ==
  ASSUME All, SendReply, NEW p \in Procs, p = server.whom
  PROVE  /\ Shape(call[p])' /\ RequestOk(p)' /\ ReplyOk(p)' /\ ResultOk(p)'
         /\ Answered(p) /\ Answered(p)' /\ Have(p) = call[p].i
         /\ Have(p)' = IF server.r = "ok" THEN call[p].i + 1 ELSE call[p].i
         /\ Good(p)' <=> server.r = "ok"
<1>1. call'[p] = call[p] /\ ipc'[p].at = "got" /\ ipc'[p].r = server.r /\ ~Answering(p)'
  BY ReplyStep
<1>2. call[p] # NIL /\ ipc[p].at = "recv" /\ Answering(p)
  BY ReplyFacts
<1>3. Shape(call[p]) /\ ResultOk(p)
  BY <1>2, Parts
<1>4. Answered(p) /\ Answered(p)' /\ Result(p) = server.r /\ Result(p)' = server.r /\ Have(p) = call[p].i
  BY <1>1, <1>2 DEF Answered, Result, Have
<1>5. (Good(p)' <=> server.r = "ok") /\ Have(p)' = IF server.r = "ok" THEN call[p].i + 1 ELSE call[p].i
  BY <1>1 DEF Good, Have
<1>6. Shape(call[p])' /\ RequestOk(p)' /\ ReplyOk(p)'
  BY <1>1, <1>3 DEF RequestOk, ReplyOk
<1>7. ResultOk(p)'
  BY <1>1, <1>3, <1>4 DEF ResultOk
<1> QED
  BY <1>4, <1>5, <1>6, <1>7

\* What the reply leaves alone.
LEMMA ReplyOthers ==
  ASSUME All, SendReply, NEW p \in Procs, p = server.whom, NEW n \in Fds, call[p].n = n,
         fds' = fds \/ (call[p].op = "open" /\ Open(p, n)'),
         OpenOk(p)', TruncateOk(p)', CloseOk(p)', FdData(p, n)',
         \A m \in Fds \ {n} : fds'[p][m] = fds[p][m] /\ data'[p][m] = data[p][m]
  PROVE  DataInd'
<1>1. /\ UNCHANGED <<call, opentab, filefd, file, dirty, unsaved, failed>>
      /\ \A q \in Procs \ {p} : ipc'[q] = ipc[q] /\ fds'[q] = fds[q] /\ data'[q] = data[q] /\ ~Answering(q)
      /\ \A q \in Procs : ~Answering(q)'
  BY ReplyStep
<1>2. call[p] # NIL /\ Answered(p)
  BY ReplyFacts, ReplyParts
<1>3. CallData(p)'
  BY ReplyParts DEF CallData
<1>4. ASSUME NEW q \in Procs \ {p} PROVE CallData(q)'
  <2>1. call[q] # NIL /\ call[q].op = "truncate" => Sole(q)'
    <3> SUFFICES ASSUME call[q] # NIL, call[q].op = "truncate" PROVE Sole(q)'
      OBVIOUS
    <3>1. Sole(q)
      BY DEF All, DataInd, CallData, TruncateOk
    <3>2. call[p].op = "sync"
      BY <1>2, <3>1 DEF Sole, Others
    <3>3. UNCHANGED fds
      BY <3>2
    <3> QED
      BY <1>1, <3>1, <3>3 DEF Sole, Open, Others
  <2> QED
    BY <1>1, <2>1, CallDataKept
<1>5. ASSUME NEW q \in Procs, NEW m \in Fds, ~(q = p /\ m = n) PROVE FdData(q, m)'
  <2>1. fds'[q][m] = fds[q][m] /\ data'[q][m] = data[q][m]
    BY <1>1, <1>5
  <2>2. Changing(q, m) => Changing(q, m)'
    BY <1>1 DEF Changing
  <2> QED
    BY <1>1, <2>1, <2>2, FdDataKept
<1>6. FileData'
  <2>1. FileData
    BY DEF All, DataInd
  <2> QED
    BY <1>1, <2>1 DEF FileData, Filled
<1>7. DiskData'
  <2>1. CASE fds' = fds
    <3>1. ASSUME NEW q \in Procs, NEW m \in Fds, Saved(q, m)' PROVE Saved(q, m)
      <4>1. Answered(q)
        BY <1>1, <1>2, <3>1 DEF Saved, Answered
      <4> QED
        BY <1>1, <3>1, <4>1 DEF Saved
    <3> QED
      BY <1>1, <2>1, <3>1, DiskDataKept DEF Open
  <2>2. CASE call[p].op = "open" /\ Open(p, n)'
    <3>1. call[p].at # "flush"
      BY <1>2, <2>2, Parts DEF Shape
    <3>2. ~Saved(p, n)'
      BY <1>1, <3>1 DEF Saved
    <3> QED
      BY <2>2, <3>2 DEF DiskData, Open, Saved
  <2> QED
    BY <2>1, <2>2
<1>8. EntryData'
  BY <1>1 DEF All, DataInd, EntryData
<1> QED
  BY <1>3, <1>4, <1>5, <1>6, <1>7, <1>8 DEF DataInd

\* A reply with no page.
LEMMA ReplyNone ==
  ASSUME All, SendReply, server.page.kind = "none"
  PROVE  DataInd'
<1>1. PICK p \in Procs : p = server.whom
  BY SendFacts DEF All
<1>2. call[p] # NIL /\ server.r \in Answers /\ ipc[p].at = "recv"
  BY <1>1, ReplyFacts
<1>3. PICK n \in Fds : call[p].n = n
  BY <1>2, CallParts DEF All
<1>4. UNCHANGED <<call, opentab, filefd, file, dirty, unsaved, failed, fds, data>>
  BY <1>1, ReplyStep
<1>5. OpenOk(p) /\ TruncateOk(p) /\ CloseOk(p) /\ Shape(call[p]) /\ FdData(p, n)
  BY <1>2, Parts DEF All, DataInd
<1>6. /\ Answered(p) /\ Answered(p)' /\ Have(p) = call[p].i
      /\ Have(p)' = IF server.r = "ok" THEN call[p].i + 1 ELSE call[p].i
      /\ (Good(p)' <=> server.r = "ok")
  BY <1>1, ReplyParts
<1>7. /\ server.r = "ok" => call[p].at \notin {"open", "map"}
      /\ call[p].op = "open" => call[p].at # "map"
  BY <1>1, ReplyFacts
<1>8. OpenOk(p)'
  <2>1. CASE call[p].op # "open"
    BY <1>4, <2>1 DEF OpenOk
  <2>2. CASE call[p].op = "open"
    <3>1. call[p].at = "open" /\ ~Good(p)'
      BY <1>5, <1>6, <1>7, <2>2 DEF Shape
    <3>2. ~Open(p, n)
      BY <1>2, <1>3, <1>5, <2>2, <3>1 DEF OpenOk
    <3> QED
      BY <1>3, <1>4, <3>1, <3>2 DEF OpenOk, Open
  <2> QED
    BY <2>1, <2>2
<1>9. TruncateOk(p)'
  <2>1. CASE call[p].op # "truncate"
    BY <1>4, <2>1 DEF TruncateOk
  <2>2. CASE call[p].op = "truncate"
    <3>1. Fd(p, n)' = Fd(p, n) /\ (Sole(p) => Sole(p)')
      BY <1>4 DEF Fd, Sole, Open, Others
    <3>2. call[p].at = "map" => Have(p)' = Have(p)
      BY <1>6, <1>7
    <3> QED
      BY <1>3, <1>4, <1>5, <1>6, <2>2, <3>1, <3>2 DEF TruncateOk, Pages, Filled, Fd
  <2> QED
    BY <2>1, <2>2
<1>10. CloseOk(p)'
  BY <1>4, <1>5, <1>6 DEF CloseOk, Marked, Fd
<1>11. FdData(p, n)'
  BY <1>4, <1>5 DEF FdData, Open, Changing, Loose, Current, Pages, Fd
<1> QED
  <2>1. /\ fds' = fds
        /\ \A m \in Fds \ {n} : fds'[p][m] = fds[p][m] /\ data'[p][m] = data[p][m]
    BY <1>4
  <2>2. fds' = fds \/ (call[p].op = "open" /\ Open(p, n)')
    BY <2>1
  <2>3. \A m \in Fds \ {n} : fds'[p][m] = fds[p][m] /\ data'[p][m] = data[p][m]
    BY <2>1
  <2> QED
    BY <1>1, <1>3, <1>8, <1>9, <1>10, <1>11, <2>2, <2>3, ReplyOthers

\* The answer to OPEN, with the Filefd page.
LEMMA ReplyFilefd ==
  ASSUME All, SendReply, server.page.kind = "Filefd"
  PROVE  DataInd'
<1>1. PICK p \in Procs : p = server.whom
  BY SendFacts DEF All
<1>2. /\ call[p] # NIL /\ server.r = "ok" /\ ipc[p].at = "recv" /\ call[p].at = "open" /\ call[p].op = "open"
      /\ server.page.o \in Entries /\ filefd[server.page.o].size = file.size
  BY <1>1, ReplyFacts DEF Answers
<1>3. PICK n \in Fds : call[p].n = n
  BY <1>2, CallParts DEF All
<1>4. UNCHANGED <<call, opentab, filefd, file, dirty, unsaved, failed, data>>
  BY <1>1, ReplyStep
<1>5. PICK d \in Descriptors : d = [o |-> server.page.o, fileid |-> filefd[server.page.o].fileid]
  BY <1>2 DEF All, Ind, TableType, Descriptors
<1>6. fds' = [fds EXCEPT ![p][n] = d]
  BY <1>1, <1>3, <1>5 DEF SendReply
<1>7. fds'[p][n] = d /\ \A m \in Fds \ {n} : fds'[p][m] = fds[p][m]
  BY <1>6 DEF All, Ind, DescType
<1>8. Open(p, n)' /\ Fd(p, n)' = filefd[server.page.o]
  BY <1>4, <1>5, <1>7, Constants DEF Open, Fd
<1>9. \A i \in Indices : data[p][n][i] = NIL
  <2>1. OpenOk(p) /\ FdData(p, n)
    BY <1>2, Parts DEF All, DataInd
  <2>2. ~Open(p, n)
    BY <1>2, <1>3, <2>1 DEF OpenOk
  <2> QED
    BY <2>1, <2>2 DEF FdData
<1>10. Good(p)' /\ ipc'[p].at = "got"
  BY <1>1, <1>2, ReplyParts, ReplyStep
<1>11. OpenOk(p)'
  <2>1. Pages(p, n, 0)'
    BY <1>4, <1>9, FileServerAssumption DEF Pages, Indices
  <2>2. Fd(p, n)'.size = file'.size
    BY <1>2, <1>4, <1>8
  <2> QED
    BY <1>2, <1>3, <1>4, <1>10, <2>1, <2>2 DEF OpenOk, Pages, Fd
<1>12. TruncateOk(p)' /\ CloseOk(p)'
  BY <1>2, <1>4 DEF TruncateOk, CloseOk
<1>13. FdData(p, n)'
  BY <1>2, <1>3, <1>4, <1>8 DEF FdData, Changing
<1> QED
  BY <1>1, <1>2, <1>3, <1>4, <1>7, <1>8, <1>11, <1>12, <1>13, ReplyOthers

\* The answer to MAP, with a block.
LEMMA ReplyBlock ==
  ASSUME All, SendReply, server.page.kind = "block"
  PROVE  DataInd'
<1>1. PICK p \in Procs : p = server.whom
  BY SendFacts DEF All
<1>2. /\ call[p] # NIL /\ server.r = "ok" /\ ipc[p].at = "recv" /\ call[p].at = "map"
      /\ server.page.b = file.block[call[p].i] /\ file.block[call[p].i] # NIL
  BY <1>1, ReplyFacts DEF Answers
<1>3. PICK n \in Fds : call[p].n = n
  BY <1>2, CallParts DEF All
<1>4. UNCHANGED <<call, opentab, filefd, file, dirty, unsaved, failed, fds>>
  BY <1>1, ReplyStep
<1>5. OpenOk(p) /\ TruncateOk(p) /\ CloseOk(p) /\ Shape(call[p]) /\ FdData(p, n)
  BY <1>2, Parts DEF All, DataInd
<1>6. /\ call[p].i \in 0 .. MaxSize /\ call[p].limit \in 0 .. MaxSize /\ call[p].i < call[p].limit
      /\ Indices = 0 .. MaxSize - 1 /\ MaxSize \in Nat
  BY <1>2, <1>5, CallParts DEF All, Shape, Indices
<1>7. PICK i \in Indices : i = call[p].i
  BY <1>6
<1>8. data' = [data EXCEPT ![p][n][i] = file.block[i]]
  <2>1. data' = [data EXCEPT ![p][call[p].n][call[p].i] = server.page.b]
    BY <1>1 DEF SendReply
  <2> QED
    BY <1>2, <1>3, <1>7, <2>1
<1>9. /\ \A m \in Fds \ {n} : data'[p][m] = data[p][m]
      /\ \A j \in Indices : data'[p][n][j] = IF j = i THEN file.block[i] ELSE data[p][n][j]
  BY <1>8 DEF All, Ind, DescType
<1>10. ipc'[p].at = "got" /\ Have(p) = i /\ Have(p)' = i + 1 /\ Answered(p) /\ Answered(p)'
  BY <1>1, <1>2, <1>7, ReplyParts, ReplyStep
<1>11. Open(p, n) /\ call[p].op \in {"open", "truncate"}
  BY <1>2, <1>3, <1>5, CallParts DEF All, Ind, CallsOk, CallOk, Opening, Shape, CallType
<1>12. Pages(p, n, i) => Pages(p, n, i + 1)'
  <2> SUFFICES ASSUME Pages(p, n, i), NEW j \in Indices
               PROVE  data'[p][n][j] = IF j < i + 1 THEN file.block[j] ELSE NIL
    BY <1>4 DEF Pages
  <2>1. data[p][n][j] = IF j < i THEN file.block[j] ELSE NIL
    BY DEF Pages
  <2> QED
    BY <1>6, <1>9, <2>1
<1>13. Filled(i) => Filled(i + 1)'
  BY <1>2, <1>4, <1>6, <1>7 DEF Filled
<1>14. Fd(p, n)' = Fd(p, n)
  BY <1>4 DEF Fd
<1>15. OpenOk(p)'
  <2>1. CASE call[p].op # "open"
    BY <1>4, <2>1 DEF OpenOk
  <2>2. CASE call[p].op = "open"
    <3>1. Fd(p, n).size = file.size /\ call[p].limit = file.size /\ Pages(p, n, i)
      BY <1>2, <1>3, <1>5, <1>10, <2>2 DEF OpenOk
    <3>2. Pages(p, n, i + 1)' /\ Fd(p, n)'.size = file'.size
      BY <1>4, <1>12, <1>14, <3>1
    <3> QED
      BY <1>2, <1>3, <1>4, <1>10, <3>1, <3>2 DEF OpenOk, Pages, Fd
  <2> QED
    BY <2>1, <2>2
<1>16. TruncateOk(p)'
  <2>1. CASE call[p].op # "truncate"
    BY <1>4, <2>1 DEF TruncateOk
  <2>2. CASE call[p].op = "truncate"
    <3>1. Sole(p) /\ Fd(p, n).size = call[p].limit /\ file.size = call[p].limit /\ Pages(p, n, i) /\ Filled(i)
      BY <1>2, <1>3, <1>5, <1>10, <2>2 DEF TruncateOk
    <3>2. Sole(p)'
      BY <1>4, <3>1 DEF Sole, Open, Others
    <3>3. Pages(p, n, i + 1)' /\ Filled(i + 1)' /\ Fd(p, n)'.size = call[p].limit
      BY <1>12, <1>13, <1>14, <3>1
    <3> QED
      BY <1>2, <1>3, <1>4, <1>10, <2>2, <3>1, <3>2, <3>3 DEF TruncateOk, Pages, Filled, Fd
  <2> QED
    BY <2>1, <2>2
<1>17. CloseOk(p)'
  BY <1>4, <1>11 DEF CloseOk
<1>18. FdData(p, n)'
  BY <1>2, <1>3, <1>4, <1>11 DEF FdData, Open, Changing
<1> QED
  <2>1. /\ fds' = fds
        /\ \A m \in Fds \ {n} : fds'[p][m] = fds[p][m] /\ data'[p][m] = data[p][m]
    BY <1>4, <1>9
  <2>2. fds' = fds \/ (call[p].op = "open" /\ Open(p, n)')
    BY <2>1
  <2>3. \A m \in Fds \ {n} : fds'[p][m] = fds[p][m] /\ data'[p][m] = data[p][m]
    BY <2>1
  <2> QED
    BY <1>1, <1>3, <1>15, <1>16, <1>17, <1>18, <2>2, <2>3, ReplyOthers

LEMMA SendReplyData ==
  ASSUME All, SendReply
  PROVE  DataInd'
<1>1. server.page \in PageRecs
  BY SendFacts DEF All
<1>2. server.page.kind \in {"none", "Filefd", "block"}
  BY <1>1 DEF PageRecs, NoPage
<1> QED
  BY <1>2, ReplyNone, ReplyFilefd, ReplyBlock

-----------------------------------------------------------------------------
(***************************************************************************)
(* The server.                                                             *)
(***************************************************************************)
LEMMA ReplyIs ==
  ASSUME NEW p, NEW r, NEW page, reply(p, r, page)
  PROVE  /\ server'.at = "send" /\ server'.whom = p /\ server'.r = r /\ server'.page = page
         /\ Answering(p)' /\ Answered(p)' /\ Result(p)' = r
  BY DEF reply, Answering, Answered, Result

LEMMA AnswerIs ==
  ASSUME NEW p, Ok(p) \/ Err(p)
  PROVE  /\ server'.at = "send" /\ server'.whom = p /\ server'.page = NoPage
         /\ Answering(p)' /\ Answered(p)' /\ Result(p)' = server'.r
         /\ Ok(p) => server'.r = "ok"
         /\ server'.r \in Answers
  BY DEF Ok, Err, reply, Answering, Answered, Result, Answers

\* A request that leaves the file as it is.
LEMMA ServeAsideData ==
  ASSUME All, server.at = "serve", NEW p \in Procs, p = server.whom, server'.at = "send", server'.whom = p,
         UNCHANGED <<call, ipc, fds, data, failed, file>>, dirty \subseteq dirty',
         \A q \in Procs, n \in Fds : Open(q, n) => filefd'[fds[q][n].o] = filefd[fds[q][n].o],
         CallData(p)', EntryData', DiskData'
  PROVE  DataInd'
<1>1. \A q \in Procs \ {p} : ~Answering(q) /\ ~Answering(q)'
  BY DEF Answering
<1>2. ASSUME NEW q \in Procs \ {p} PROVE CallData(q)'
  <2>1. call[q] # NIL /\ call[q].op = "truncate" => Sole(q)'
    <3> SUFFICES ASSUME call[q] # NIL, call[q].op = "truncate" PROVE Sole(q)'
      OBVIOUS
    <3>1. Sole(q)
      BY DEF All, DataInd, CallData, TruncateOk
    <3> QED
      BY <3>1 DEF Sole, Open, Others
  <2> QED
    BY <1>1, <2>1, CallDataKept
<1>3. ASSUME NEW q \in Procs, NEW n \in Fds PROVE FdData(q, n)'
  <2>1. Changing(q, n) => Changing(q, n)'
    BY DEF Changing
  <2> QED
    BY <2>1, FdDataKept
<1>4. FileData'
  <2>1. FileData
    BY DEF All, DataInd
  <2> QED
    BY <2>1 DEF FileData, Filled
<1> QED
  BY <1>2, <1>3, <1>4 DEF DataInd

LEMMA ServeDiskKept ==
  ASSUME All, server.at = "serve", NEW p \in Procs, p = server.whom, server'.whom = p,
         UNCHANGED <<call, ipc, fds, file>>, unsaved' \subseteq unsaved, call[p] # NIL, call[p].at # "flush"
  PROVE  DiskData'
<1>1. ASSUME NEW q \in Procs, NEW m \in Fds, Saved(q, m)' PROVE Saved(q, m)
  <2>1. q # p
    BY <1>1 DEF Saved
  <2>2. ~Answering(q) /\ ~Answering(q)'
    BY <2>1 DEF Answering
  <2> QED
    BY <1>1, <2>2 DEF Saved, Answered
<1> QED
  BY <1>1, DiskDataKept DEF Open

\* A request of who is alone with the file.
LEMMA ServeAloneData ==
  ASSUME All, server.at = "serve", NEW p \in Procs, p = server.whom, server'.at = "send", server'.whom = p,
         call[p] # NIL, call[p].op = "truncate",
         UNCHANGED <<call, ipc, fds, data, failed, opentab, filefd>>, CallData(p)'
  PROVE  DataInd'
<1>1. PICK n \in Fds : call[p].n = n
  BY CallParts DEF All
<1>2. Sole(p) /\ Shape(call[p]) /\ Open(p, n)
  BY <1>1, Parts DEF TruncateOk, All, Ind, CallsOk, CallOk, Opening
<1>3. ASSUME NEW q \in Procs \ {p} PROVE CallData(q)'
  <2>1. call[q] # NIL => call[q].op = "sync"
    BY <1>2 DEF Sole, Others
  <2>2. ~Answering(q) /\ ~Answering(q)'
    BY DEF Answering
  <2> QED
    BY <2>1, <2>2, SyncKept
<1>4. ASSUME NEW q \in Procs, NEW m \in Fds PROVE FdData(q, m)'
  <2>1. CASE q = p /\ m = n
    BY <1>1, <1>2, <2>1 DEF FdData, Changing, Open
  <2>2. CASE ~(q = p /\ m = n)
    <3>1. ~Open(q, m)
      BY <1>1, <1>2, <2>2 DEF Sole
    <3>2. FdData(q, m)
      BY DEF All, DataInd
    <3> QED
      BY <3>1, <3>2 DEF FdData, Open
  <2> QED
    BY <2>1, <2>2
<1>5. FileData'
  BY DEF FileData
<1>6. DiskData'
  <2>1. Open(p, n)' /\ ~Saved(p, n)'
    BY <1>2 DEF Open, Saved, Shape
  <2> QED
    BY <2>1 DEF DiskData, Open, Saved
<1>7. EntryData'
  BY DEF All, DataInd, EntryData
<1> QED
  BY <1>3, <1>4, <1>5, <1>6, <1>7 DEF DataInd

\* The server works on the request of p about its descriptor n.
Serving(p, n, rq) ==
  /\ server.at = "serve" /\ server.whom = p /\ ipc[p].request = rq /\ ipc[p].at \in {"sent", "recv"}
  /\ call[p] # NIL /\ call[p].n = n /\ Shape(call[p]) /\ Wanted(call[p], fds[p][n].fileid, rq)
  /\ call[p].at \notin {"open", "sync"} => Open(p, n) /\ open_lookup(fds[p][n].fileid) # {}
  /\ UNCHANGED <<status, calls, failed, fds, data, call, ipc>>

\* What the server has been asked, and by whom.
LEMMA Asked ==
  ASSUME All, serve
  PROVE  \E p \in Procs, rq \in Requests, n \in Fds :
           /\ Serving(p, n, rq)
           /\ \/ rq.type = "OPEN" /\ serve_open(p, rq)
              \/ rq.type = "MAP" /\ serve_map(p, rq)
              \/ rq.type = "SET_SIZE" /\ serve_set_size(p, rq)
              \/ rq.type = "DIRTY" /\ serve_dirty(p, rq)
              \/ rq.type = "CLOSE" /\ serve_close(p, rq)
              \/ rq.type = "SYNC" /\ serve_sync(p)
<1>1. PICK p \in Procs, rq \in Requests :
        p = server.whom /\ rq = ipc[server.whom].request
  BY ServeFacts DEF All
<1>2. /\ server.at = "serve" /\ ipc[p].at \in {"sent", "recv"}
      /\ UNCHANGED <<status, calls, failed, fds, data, call, ipc>>
  BY <1>1, ServeFacts DEF All
<1>3. call[p] # NIL
  BY <1>2 DEF All, Ind, CallsType, Silent
<1>4. PICK n \in Fds : call[p].n = n
  BY <1>3, CallParts DEF All
<1>5. Wanted(call[p], fds[p][n].fileid, rq) /\ Shape(call[p])
  BY <1>1, <1>2, <1>3, <1>4, Parts DEF RequestOk
<1>6. ASSUME call[p].at \notin {"open", "sync"} PROVE Open(p, n) /\ open_lookup(fds[p][n].fileid) # {}
  <2>1. Open(p, n)
    <3>1. call[p].op # "sync" /\ ~Opening(p)
      BY <1>5, <1>6 DEF Shape, Opening
    <3> QED
      BY <1>3, <1>4, <3>1 DEF All, Ind, CallsOk, CallOk
  <2> QED
    BY <2>1, Found
<1>7. \/ rq.type = "OPEN" /\ serve_open(p, rq)
      \/ rq.type = "MAP" /\ serve_map(p, rq)
      \/ rq.type = "SET_SIZE" /\ serve_set_size(p, rq)
      \/ rq.type = "DIRTY" /\ serve_dirty(p, rq)
      \/ rq.type = "CLOSE" /\ serve_close(p, rq)
      \/ rq.type = "SYNC" /\ serve_sync(p)
  BY <1>1 DEF serve
<1>8. Serving(p, n, rq)
  BY <1>1, <1>2, <1>3, <1>4, <1>5, <1>6 DEF Serving
<1> QED
  BY <1>7, <1>8

\* Where the client is in its call, by its request.
LEMMA AskedAt ==
  ASSUME All, NEW p \in Procs, NEW n \in Fds, NEW rq \in Requests, Serving(p, n, rq)
  PROVE  /\ rq.type = "OPEN" => call[p].op = "open" /\ call[p].at = "open"
         /\ rq.type = "SYNC" => call[p].op = "sync" /\ call[p].at = "sync"
         /\ rq.type = "MAP" => call[p].op \in {"open", "truncate"} /\ call[p].at = "map" /\ rq.i = call[p].i
         /\ rq.type = "SET_SIZE" =>
              /\ call[p].op = "truncate" /\ call[p].at \in {"truncate", "back"}
              /\ rq.i = IF call[p].at = "back" THEN call[p].old ELSE call[p].limit
         /\ rq.type = "DIRTY" => call[p].op = "close" /\ call[p].at = "dirty" /\ rq.i = call[p].i - 1
         /\ rq.type = "CLOSE" => call[p].op = "close" /\ call[p].at = "flush"
         /\ rq.type \notin {"OPEN", "SYNC"} => rq.id = fds[p][n].fileid /\ Open(p, n) /\ open_lookup(rq.id) # {}
<1> DEFINE c == call[p]
<1>1. c \in CallType /\ Shape(c) /\ Wanted(c, fds[p][n].fileid, rq)
  BY CallParts DEF All, Serving
<1>2. c.at # "close"
  BY <1>1 DEF Shape, CallType
<1> HIDE DEF c
<1>3. c.at \in {"open", "map", "truncate", "back", "dirty", "flush", "sync"}
  BY <1>1, <1>2 DEF CallType
<1>4. /\ rq.type = "OPEN" => c.at = "open"
      /\ rq.type = "SYNC" => c.at = "sync"
      /\ rq.type = "MAP" => c.at = "map" /\ rq.i = c.i
      /\ rq.type = "SET_SIZE" => c.at \in {"truncate", "back"} /\ rq.i = IF c.at = "back" THEN c.old ELSE c.limit
      /\ rq.type = "DIRTY" => c.at = "dirty" /\ rq.i = c.i - 1
      /\ rq.type = "CLOSE" => c.at = "flush"
      /\ rq.type \notin {"OPEN", "SYNC"} => rq.id = fds[p][n].fileid /\ c.at \notin {"open", "sync"}
  BY <1>1, <1>3 DEF Wanted, Request
<1>5. /\ c.at = "open" => c.op = "open"
      /\ c.at = "sync" => c.op = "sync"
      /\ c.at = "map" => c.op \in {"open", "truncate"}
      /\ c.at \in {"truncate", "back"} => c.op = "truncate"
      /\ c.at \in {"dirty", "flush"} => c.op = "close"
  BY <1>1 DEF Shape, CallType
<1>6. c.at \notin {"open", "sync"} => Open(p, n) /\ open_lookup(fds[p][n].fileid) # {}
  BY DEF Serving, c
<1> QED
  BY <1>4, <1>5, <1>6 DEF c

\* The next fileid of an entry is one of that entry.
LEMMA DivMod ==
  ASSUME NEW a \in Nat, NEW m \in Nat \ {0}
  PROVE  a = (m * (a \div m)) + (a % m) /\ a % m \in 0 .. m - 1 /\ a \div m \in Int
  OBVIOUS

LEMMA NextFileid ==
  ASSUME NEW a \in Nat, NEW m \in Nat \ {0}
  PROVE  (a + m) % m = a % m
<1>1. PICK q \in Int, r \in 0 .. m - 1 : a = (m * q) + r /\ r = a % m
  BY DivMod
<1>2. PICK k \in Int, s \in 0 .. m - 1 : a + m = (m * k) + s /\ s = (a + m) % m
  <2>1. a + m \in Nat
    OBVIOUS
  <2> QED
    BY <2>1, DivMod
<1> DEFINE d == k - q - 1
<1>3. d \in Int
  OBVIOUS
<1>4. m * d = r - s
  <2>1. (m * d) = (m * k) - (m * q) - m
    OBVIOUS
  <2> QED
    BY <1>1, <1>2, <2>1
<1> HIDE DEF d
<1>5. ~(d >= 1)
  <2> SUFFICES ASSUME d >= 1 PROVE FALSE
    OBVIOUS
  <2>1. m * d >= m
    BY <1>3
  <2> QED
    BY <1>4, <2>1
<1>6. ~(d <= -1)
  <2> SUFFICES ASSUME d <= -1 PROVE FALSE
    OBVIOUS
  <2>1. m * d <= -m
    BY <1>3
  <2> QED
    BY <1>4, <2>1
<1>7. d = 0
  BY <1>3, <1>5, <1>6
<1>8. m * d = 0
  BY <1>7
<1>9. r = s
  BY <1>4, <1>8
<1> QED
  BY <1>1, <1>2, <1>9

LEMMA ServeOpenData ==
  ASSUME All, NEW p \in Procs, NEW n \in Fds, NEW rq \in Requests, Serving(p, n, rq),
         rq.type = "OPEN", serve_open(p, rq)
  PROVE  DataInd'
<1>1. /\ server.at = "serve" /\ server.whom = p /\ call[p] # NIL /\ call[p].n = n
      /\ ipc[p].at \in {"sent", "recv"} /\ UNCHANGED <<failed, fds, data, call, ipc>>
  BY DEF Serving
<1>2. call[p].op = "open" /\ call[p].at = "open"
  BY AskedAt
<1>3. CASE open_alloc = {}
  <2>1. server' = [at |-> "lost"] /\ UNCHANGED <<opentab, file, dirty, filefd, unsaved>>
    BY <1>3 DEF serve_open, serverVars
  <2>2. \A q \in Procs : ~Answering(q) /\ ~Answering(q)'
    BY <1>1, <2>1 DEF Answering
  <2> QED
    BY <1>1, <2>1, <2>2, AsideData
<1>4. CASE open_alloc # {}
  <2>1. PICK o \in open_alloc, id \in {opentab[x].fileid + MAXOPEN : x \in open_alloc} :
          /\ opentab' = [opentab EXCEPT ![o] = [fileid |-> id, page |-> TRUE]]
          /\ filefd' = [filefd EXCEPT ![o] = IF rq.found THEN [fileid |-> id, size |-> file.size]
                                             ELSE [fileid |-> 0, size |-> 0]]
          /\ IF rq.found THEN reply(p, "ok", [kind |-> "Filefd", o |-> o]) ELSE Err(p)
          /\ UNCHANGED <<file, dirty, unsaved>>
    BY <1>4 DEF serve_open
  <2>2. o \in Entries /\ Unused(o) /\ MAXOPEN \in Nat \ {0} /\ Entries = 0 .. MAXOPEN - 1
    BY FileServerAssumption DEF open_alloc, Entries
  <2>3. id = opentab[o].fileid + MAXOPEN
    <3>1. PICK x \in open_alloc : id = opentab[x].fileid + MAXOPEN
      OBVIOUS
    <3>2. x \in Entries /\ Unused(x) /\ (\A y \in 0 .. x - 1 : ~Unused(y)) /\ \A y \in 0 .. o - 1 : ~Unused(y)
      BY DEF open_alloc
    <3>3. x = o
      BY <2>2, <3>2
    <3> QED
      BY <3>1, <3>3
  <2>4. EntryData'
    <3>1. opentab[o].fileid \in Nat /\ opentab[o].fileid % MAXOPEN = o
      BY <2>2 DEF All, Ind, TableType, DataInd, EntryData
    <3>2. id % MAXOPEN = o
      BY <2>2, <2>3, <3>1, NextFileid
    <3>3. opentab'[o].fileid = id /\ \A x \in Entries \ {o} : opentab'[x] = opentab[x]
      BY <2>1, <2>2 DEF All, Ind, TableType
    <3> QED
      BY <3>2, <3>3 DEF All, DataInd, EntryData
  <2>5. \A q \in Procs, m \in Fds : Open(q, m) => filefd'[fds[q][m].o] = filefd[fds[q][m].o]
    <3> SUFFICES ASSUME NEW q \in Procs, NEW m \in Fds, Open(q, m)
                 PROVE  filefd'[fds[q][m].o] = filefd[fds[q][m].o]
      OBVIOUS
    <3>1. fds[q][m].o \in Entries /\ opentab[fds[q][m].o].page
      BY FdFacts DEF All, HeldInd, Same
    <3>2. fds[q][m].o # o
      BY <2>2, <3>1, UnusedIsFree DEF All
    <3> QED
      BY <2>1, <2>2, <3>1, <3>2 DEF All, Ind, TableType
  <2>6. /\ server'.at = "send" /\ server'.whom = p
        /\ server'.r = "error" => server'.page = NoPage
        /\ server'.r = "ok" => filefd'[server'.page.o].size = file.size
    <3>1. CASE rq.found
      <4>1. reply(p, "ok", [kind |-> "Filefd", o |-> o]) /\ filefd'[o] = [fileid |-> id, size |-> file.size]
        BY <2>1, <2>2, <3>1 DEF All, Ind, TableType
      <4> QED
        BY <4>1 DEF reply
    <3>2. CASE ~rq.found
      BY <2>1, <3>2 DEF Err, reply
    <3> QED
      BY <3>1, <3>2
  <2>7. CallData(p)'
    <3>1. Shape(call[p]) /\ RequestOk(p) /\ OpenOk(p) /\ ~Open(p, n)
      BY <1>1, <1>2, Parts DEF OpenOk
    <3>2. Shape(call[p])' /\ RequestOk(p)'
      BY <1>1, <3>1 DEF RequestOk
    <3>3. ReplyOk(p)'
      BY <1>1, <1>2, <2>1, <2>6 DEF ReplyOk, NoPage
    <3>4. ResultOk(p)' /\ TruncateOk(p)' /\ CloseOk(p)'
      BY <1>1, <1>2 DEF ResultOk, TruncateOk, CloseOk
    <3>5. OpenOk(p)'
      BY <1>1, <1>2, <3>1 DEF OpenOk, Open
    <3> QED
      BY <3>2, <3>3, <3>4, <3>5 DEF CallData
  <2>8. DiskData'
    BY <1>1, <1>2, <2>1, <2>6, ServeDiskKept
  <2> QED
    BY <1>1, <2>1, <2>4, <2>5, <2>6, <2>7, <2>8, ServeAsideData
<1> QED
  BY <1>3, <1>4

LEMMA ServeSyncData ==
  ASSUME All, NEW p \in Procs, NEW n \in Fds, NEW rq \in Requests, Serving(p, n, rq),
         rq.type = "SYNC", serve_sync(p)
  PROVE  DataInd'
<1>1. /\ server.at = "serve" /\ server.whom = p /\ call[p] # NIL /\ Shape(call[p])
      /\ UNCHANGED <<failed, fds, data, call, ipc>>
  BY DEF Serving
<1>2. call[p].op = "sync" /\ call[p].at = "sync"
  BY AskedAt
<1>3. /\ UNCHANGED <<opentab, file, dirty, filefd>> /\ unsaved' \subseteq unsaved
      /\ server'.at = "send" /\ server'.whom = p /\ server'.page = NoPage
  BY AnswerIs DEF serve_sync, serverVars
<1>4. CallData(p)'
  <2>1. RequestOk(p)
    BY <1>1, Parts
  <2>2. Shape(call[p])' /\ RequestOk(p)' /\ ReplyOk(p)'
    BY <1>1, <1>2, <1>3, <2>1 DEF RequestOk, ReplyOk
  <2>3. ResultOk(p)' /\ OpenOk(p)' /\ TruncateOk(p)' /\ CloseOk(p)'
    BY <1>1, <1>2 DEF ResultOk, OpenOk, TruncateOk, CloseOk
  <2> QED
    BY <2>2, <2>3 DEF CallData
<1>5. DiskData'
  BY <1>1, <1>2, <1>3, ServeDiskKept
<1>6. EntryData'
  BY <1>3 DEF All, DataInd, EntryData
<1> QED
  BY <1>1, <1>3, <1>4, <1>5, <1>6, ServeAsideData

LEMMA ServeDirtyData ==
  ASSUME All, NEW p \in Procs, NEW n \in Fds, NEW rq \in Requests, Serving(p, n, rq),
         rq.type = "DIRTY", serve_dirty(p, rq)
  PROVE  DataInd'
<1>1. /\ server.at = "serve" /\ server.whom = p /\ call[p] # NIL /\ call[p].n = n /\ Shape(call[p])
      /\ ipc[p].at \in {"sent", "recv"} /\ UNCHANGED <<failed, fds, data, call, ipc>>
  BY DEF Serving
<1>2. call[p].op = "close" /\ call[p].at = "dirty" /\ rq.i = call[p].i - 1
      /\ Open(p, n) /\ open_lookup(rq.id) # {}
  BY AskedAt
<1>3. /\ IF file.block[rq.i] = NIL THEN Err(p) /\ UNCHANGED dirty
         ELSE Ok(p) /\ dirty' = dirty \cup {file.block[rq.i]}
      /\ UNCHANGED <<opentab, filefd, file, unsaved>>
  BY <1>2 DEF serve_dirty, Lookup
<1>4. server'.at = "send" /\ server'.whom = p /\ server'.page = NoPage /\ Answered(p)'
  BY <1>3, AnswerIs
<1>5. CallData(p)'
  <2>1. RequestOk(p) /\ CloseOk(p) /\ ~Answered(p)
    BY <1>1, Parts DEF Answered, Answering
  <2>2. Shape(call[p])' /\ RequestOk(p)' /\ ReplyOk(p)'
    BY <1>1, <1>2, <1>4, <2>1 DEF RequestOk, ReplyOk
  <2>3. ResultOk(p)' /\ OpenOk(p)' /\ TruncateOk(p)'
    BY <1>1, <1>2 DEF ResultOk, OpenOk, TruncateOk
  <2>4. call[p].limit = Fd(p, n).size /\ Marked(call[p].i - 1)
    BY <1>1, <1>2, <2>1 DEF CloseOk
  <2>5. call[p].i \in 0 .. MaxSize /\ Indices = 0 .. MaxSize - 1 /\ MaxSize \in Nat
    BY <1>1, CallParts DEF All, Indices
  <2>6. Marked(call[p].i)'
    BY <1>1, <1>2, <1>3, <2>4, <2>5 DEF Marked
  <2>7. Fd(p, n)'.size = call[p].limit
    BY <1>1, <1>3, <2>4 DEF Fd
  <2>8. CloseOk(p)'
    BY <1>1, <1>2, <1>4, <2>6, <2>7 DEF CloseOk, Marked, Fd
  <2> QED
    BY <2>2, <2>3, <2>8 DEF CallData
<1>6. DiskData'
  BY <1>1, <1>2, <1>3, <1>4, ServeDiskKept
<1>7. EntryData'
  BY <1>3 DEF All, DataInd, EntryData
<1> QED
  BY <1>1, <1>3, <1>4, <1>5, <1>6, <1>7, ServeAsideData

\* CLOSE: every block that DIRTY has named goes to the disk.
LEMMA ServeCloseData ==
  ASSUME All, NEW p \in Procs, NEW n \in Fds, NEW rq \in Requests, Serving(p, n, rq),
         rq.type = "CLOSE", serve_close(p, rq)
  PROVE  DataInd'
<1>1. /\ server.at = "serve" /\ server.whom = p /\ call[p] # NIL /\ call[p].n = n /\ Shape(call[p])
      /\ ipc[p].at \in {"sent", "recv"} /\ UNCHANGED <<failed, fds, data, call, ipc>>
  BY DEF Serving
<1>2. call[p].op = "close" /\ call[p].at = "flush" /\ Open(p, n) /\ open_lookup(rq.id) # {}
  BY AskedAt
<1>3. unsaved' = Flushed /\ Ok(p) /\ UNCHANGED <<opentab, file, dirty, filefd>>
  BY <1>2 DEF serve_close, Lookup, serverVars
<1>4. /\ server'.at = "send" /\ server'.whom = p /\ server'.page = NoPage /\ server'.r = "ok"
      /\ Answered(p)' /\ Result(p)' = server'.r
  BY <1>3, AnswerIs
<1>5. RequestOk(p) /\ CloseOk(p)
  BY <1>1, Parts
<1>6. CallData(p)'
  <2>2. Shape(call[p])' /\ RequestOk(p)' /\ ReplyOk(p)'
    BY <1>1, <1>2, <1>4, <1>5 DEF RequestOk, ReplyOk
  <2>3. ResultOk(p)'
    BY <1>4 DEF ResultOk
  <2>4. OpenOk(p)' /\ TruncateOk(p)'
    BY <1>1, <1>2 DEF OpenOk, TruncateOk
  <2>5. CloseOk(p)'
    BY <1>1, <1>2, <1>3, <1>5 DEF CloseOk, Marked, Fd
  <2> QED
    BY <2>2, <2>3, <2>4, <2>5 DEF CallData
<1>7. DiskData'
  <2>1. call[p].limit = Fd(p, n).size /\ Marked(call[p].limit)
    BY <1>1, <1>2, <1>5 DEF CloseOk, Shape
  <2>2. Fd(p, n).size >= file.size
    <3>1. FdData(p, n) /\ ~Changing(p, n)
      BY <1>2 DEF All, DataInd, Changing
    <3> QED
      BY <1>2, <3>1 DEF FdData, Loose
  <2>3. /\ Fd(p, n).size \in 0 .. MaxSize /\ file.size \in 0 .. MaxSize
        /\ Indices = 0 .. MaxSize - 1 /\ MaxSize \in Nat /\ NIL \notin Blocks /\ unsaved \subseteq Blocks
    BY <1>2, FdParts DEF All
  <2>4. ASSUME NEW i \in Indices, i < file.size PROVE file.block[i] \notin unsaved'
    <3>1. i < call[p].limit /\ i <= file.size
      BY <2>1, <2>2, <2>3, <2>4
    <3>2. CASE file.block[i] = NIL
      BY <1>3, <2>3, <3>2 DEF Flushed
    <3>3. CASE file.block[i] # NIL
      <4>1. file.block[i] \in dirty
        BY <2>1, <3>1, <3>3 DEF Marked
      <4> QED
        BY <1>3, <3>1, <4>1 DEF Flushed
    <3> QED
      BY <3>2, <3>3
  <2> QED
    BY <1>3, <2>4 DEF DiskData
<1>8. EntryData'
  BY <1>3 DEF All, DataInd, EntryData
<1> QED
  BY <1>1, <1>3, <1>4, <1>6, <1>7, <1>8, ServeAsideData

\* MAP: a block that is missing can only be one that a longer file is to get.
LEMMA ServeMapData ==
  ASSUME All, NEW p \in Procs, NEW n \in Fds, NEW rq \in Requests, Serving(p, n, rq),
         rq.type = "MAP", serve_map(p, rq)
  PROVE  DataInd'
<1>1. /\ server.at = "serve" /\ server.whom = p /\ call[p] # NIL /\ call[p].n = n /\ Shape(call[p])
      /\ ipc[p].at \in {"sent", "recv"} /\ UNCHANGED <<failed, fds, data, call, ipc>>
  BY DEF Serving
<1>2. /\ call[p].op \in {"open", "truncate"} /\ call[p].at = "map" /\ rq.i = call[p].i
      /\ Open(p, n) /\ open_lookup(rq.id) # {}
  BY AskedAt
<1>3. PICK i \in Indices : i = rq.i
  BY DEF Requests
<1>4. \/ file.block[i] = NIL /\ Err(p) /\ UNCHANGED <<opentab, file, dirty, filefd, unsaved>>
      \/ \E g \in GetBlock(i) : /\ file' = g.file /\ reply(p, "ok", [kind |-> "block", b |-> g.b])
                                /\ UNCHANGED <<opentab, filefd, dirty, unsaved>>
  BY <1>2, <1>3 DEF serve_map, Lookup, WithBlock, serverVars
<1>5. RequestOk(p) /\ OpenOk(p) /\ TruncateOk(p) /\ ~Answered(p) /\ Have(p) = i
  BY <1>1, <1>2, <1>3, Parts DEF Answered, Answering, Have
<1>6. i < call[p].limit /\ i \in 0 .. MaxSize - 1 /\ MaxSize \in Nat
      /\ file.size \in 0 .. MaxSize /\ call[p].limit \in 0 .. MaxSize
  BY <1>1, <1>2, <1>3, CallParts, FdParts DEF All, Shape, Indices
<1>7. call[p].op = "open" => file.block[i] # NIL
  <2> SUFFICES ASSUME call[p].op = "open" PROVE file.block[i] # NIL
    OBVIOUS
  <2>1. \A q \in Procs : call[q] # NIL => call[q].op # "truncate"
    BY <1>1, NoTruncate
  <2>2. Filled(file.size)
    BY <2>1 DEF All, DataInd, FileData
  <2>3. call[p].limit = file.size
    BY <1>1, <1>2, <1>5 DEF OpenOk
  <2> QED
    BY <1>6, <2>2, <2>3 DEF Filled
<1>8. Shape(call[p])' /\ RequestOk(p)' /\ CloseOk(p)' /\ Have(p)' = i
  BY <1>1, <1>2, <1>3, <1>5 DEF RequestOk, CloseOk, Have
<1>9. CASE file.block[i] # NIL
  <2>1. UNCHANGED <<opentab, file, dirty, filefd, unsaved>> /\ reply(p, "ok", [kind |-> "block", b |-> file.block[i]])
    <3>1. PICK g \in GetBlock(i) : /\ file' = g.file /\ reply(p, "ok", [kind |-> "block", b |-> g.b])
                                   /\ UNCHANGED <<opentab, filefd, dirty, unsaved>>
      BY <1>4, <1>9
    <3>2. g = [file |-> file, b |-> file.block[i]]
      BY <1>9 DEF GetBlock
    <3>3. g.file = file /\ g.b = file.block[i]
      BY <3>2
    <3> QED
      BY <3>1, <3>3
  <2>2. /\ server'.at = "send" /\ server'.whom = p /\ server'.r = "ok"
        /\ server'.page = [kind |-> "block", b |-> file.block[i]] /\ Result(p)' = "ok" /\ Answered(p)'
    BY <2>1, ReplyIs
  <2>3. ReplyOk(p)' /\ ResultOk(p)'
    <3>1. ReplyOk(p)'
      BY <1>1, <1>2, <1>3, <1>9, <2>1, <2>2 DEF ReplyOk
    <3>2. ResultOk(p)'
      BY <2>2 DEF ResultOk
    <3> QED
      BY <3>1, <3>2
  <2>4. Fd(p, n)' = Fd(p, n) /\ (Sole(p) => Sole(p)') /\ (Pages(p, n, i) => Pages(p, n, i)')
    BY <1>1, <2>1 DEF Fd, Sole, Open, Others, Pages
  <2>5. OpenOk(p)'
    <3>1. CASE call[p].op # "open"
      BY <1>1, <3>1 DEF OpenOk
    <3>2. CASE call[p].op = "open"
      <4>1. Fd(p, n).size = file.size /\ call[p].limit = file.size /\ Pages(p, n, i)
        BY <1>1, <1>2, <1>5, <3>2 DEF OpenOk
      <4>2. Fd(p, n)'.size = file'.size /\ call'[p].limit = file'.size /\ Pages(p, n, i)'
        BY <1>1, <2>1, <2>4, <4>1
      <4> QED
        BY <1>1, <1>2, <1>8, <4>2 DEF OpenOk, Pages, Fd
    <3> QED
      BY <3>1, <3>2
  <2>6. TruncateOk(p)'
    <3>1. CASE call[p].op # "truncate"
      BY <1>1, <3>1 DEF TruncateOk
    <3>2. CASE call[p].op = "truncate"
      <4>1. Sole(p) /\ Fd(p, n).size = call[p].limit /\ file.size = call[p].limit /\ Pages(p, n, i) /\ Filled(i)
        BY <1>1, <1>2, <1>5, <3>2 DEF TruncateOk
      <4>2. Sole(p)' /\ Fd(p, n)'.size = call[p].limit /\ Pages(p, n, i)' /\ Filled(i)'
        BY <2>1, <2>4, <4>1 DEF Filled
      <4> QED
        BY <1>1, <1>2, <1>8, <2>1, <3>2, <4>1, <4>2 DEF TruncateOk, Pages, Filled, Fd
    <3> QED
      BY <3>1, <3>2
  <2>7. CallData(p)'
    BY <1>8, <2>3, <2>5, <2>6 DEF CallData
  <2>8. DiskData'
    BY <1>1, <1>2, <2>1, <2>2, ServeDiskKept
  <2>9. EntryData'
    BY <2>1 DEF All, DataInd, EntryData
  <2> QED
    BY <1>1, <2>1, <2>2, <2>7, <2>8, <2>9, ServeAsideData
<1>10. CASE file.block[i] = NIL
  <2>1. call[p].op = "truncate"
    BY <1>2, <1>7, <1>10
  <2>2. Sole(p) /\ Fd(p, n).size = call[p].limit /\ file.size = call[p].limit /\ Pages(p, n, i) /\ Filled(i)
    BY <1>1, <1>2, <1>5, <2>1 DEF TruncateOk
  <2>3. /\ UNCHANGED <<opentab, filefd>> /\ file'.size = file.size
        /\ \A j \in Indices \ {i} : file'.block[j] = file.block[j]
        /\ server'.at = "send" /\ server'.whom = p
        /\ server'.r = "ok" => file'.block[i] # NIL /\ server'.page = [kind |-> "block", b |-> file'.block[i]]
        /\ server'.r = "error" => server'.page = NoPage
    <3>1. CASE Err(p) /\ UNCHANGED <<opentab, file, dirty, filefd, unsaved>>
      BY <3>1 DEF Err, reply
    <3>2. CASE \E g \in GetBlock(i) : /\ file' = g.file /\ reply(p, "ok", [kind |-> "block", b |-> g.b])
                                      /\ UNCHANGED <<opentab, filefd, dirty, unsaved>>
      <4>1. PICK b \in Blocks : /\ file' = [file EXCEPT !.block[i] = b]
                                /\ reply(p, "ok", [kind |-> "block", b |-> b])
                                /\ UNCHANGED <<opentab, filefd, dirty, unsaved>>
        BY <1>10, <3>2 DEF GetBlock
      <4>2. /\ file'.size = file.size /\ file'.block[i] = b
            /\ \A j \in Indices \ {i} : file'.block[j] = file.block[j]
        BY <4>1 DEF All, Ind, FileType
      <4> QED
        BY <4>1, <4>2, Constants DEF reply
    <3> QED
      BY <1>4, <3>1, <3>2
  <2>4. Fd(p, n)'.size = call[p].limit /\ Sole(p)' /\ Pages(p, n, i)' /\ Filled(i)'
    <3>1. Fd(p, n)'.size = call[p].limit /\ Sole(p)'
      BY <1>1, <2>2, <2>3 DEF Fd, Sole, Open, Others
    <3>2. Pages(p, n, i)' /\ Filled(i)'
      BY <1>1, <1>6, <2>2, <2>3 DEF Pages, Filled
    <3> QED
      BY <3>1, <3>2
  <2>5. TruncateOk(p)'
    BY <1>1, <1>2, <1>8, <2>1, <2>2, <2>3, <2>4 DEF TruncateOk, Pages, Filled, Fd
  <2>6. ReplyOk(p)'
    BY <1>1, <1>2, <1>3, <2>3 DEF ReplyOk, NoPage
  <2>7. ResultOk(p)' /\ OpenOk(p)'
    BY <1>1, <1>2, <2>1 DEF ResultOk, OpenOk
  <2>8. CallData(p)'
    BY <1>8, <2>5, <2>6, <2>7 DEF CallData
  <2> QED
    BY <1>1, <2>1, <2>3, <2>8, ServeAloneData
<1> QED
  BY <1>9, <1>10

\* SET_SIZE: what is below both sizes stays.
LEMMA SetSizeIs ==
  ASSUME All, NEW size \in Sizes, file' = file_set_size(size)
  PROVE  /\ file'.size = size
         /\ \A i \in Indices : i < size => file'.block[i] = file.block[i]
<1>1. size \in 0 .. MaxSize /\ Indices = 0 .. MaxSize - 1 /\ MaxSize \in Nat /\ file.size \in 0 .. MaxSize
  BY FileServerAssumption DEF Sizes, Indices, All, Ind, FileType
<1>2. CASE size < file.size
  <2>1. file' = Truncated(size)
    BY <1>2 DEF file_set_size
  <2>2. /\ file'.size = size
        /\ \A i \in Indices : file'.block[i] = IF (size = 0 \/ i > size) /\ i <= file.size THEN NIL ELSE file.block[i]
    BY <2>1 DEF Truncated
  <2> QED
    BY <1>1, <2>2
<1>3. CASE ~(size < file.size)
  BY <1>3 DEF file_set_size, All, Ind, FileType
<1> QED
  BY <1>2, <1>3

LEMMA ServeSetSizeData ==
  ASSUME All, NEW p \in Procs, NEW n \in Fds, NEW rq \in Requests, Serving(p, n, rq),
         rq.type = "SET_SIZE", serve_set_size(p, rq)
  PROVE  DataInd'
<1>1. /\ server.at = "serve" /\ server.whom = p /\ call[p] # NIL /\ call[p].n = n /\ Shape(call[p])
      /\ ipc[p].at \in {"sent", "recv"} /\ UNCHANGED <<failed, fds, data, call, ipc>>
  BY DEF Serving
<1>2. /\ call[p].op = "truncate" /\ call[p].at \in {"truncate", "back"} /\ Open(p, n) /\ open_lookup(rq.id) # {}
      /\ rq.i = IF call[p].at = "back" THEN call[p].old ELSE call[p].limit
  BY AskedAt
<1>3. PICK size \in Sizes : size = rq.i
  BY DEF Requests
<1>4. file' = file_set_size(size) /\ Ok(p) /\ UNCHANGED <<opentab, filefd, dirty, unsaved>>
  BY <1>2, <1>3 DEF serve_set_size, Lookup
<1>5. /\ server'.at = "send" /\ server'.whom = p /\ server'.page = NoPage /\ server'.r = "ok"
      /\ Answered(p)' /\ Result(p)' = "ok"
  BY <1>4, AnswerIs
<1>6. file'.size = size /\ \A i \in Indices : i < size => file'.block[i] = file.block[i]
  BY <1>4, SetSizeIs
<1>7. TruncateOk(p) /\ RequestOk(p) /\ ~Answered(p)
  BY <1>1, Parts DEF Answered, Answering
<1>8. /\ call[p].old \in 0 .. MaxSize /\ call[p].limit \in 0 .. MaxSize
      /\ Indices = 0 .. MaxSize - 1 /\ MaxSize \in Nat
  BY <1>1, CallParts DEF All, Indices
<1>9. Sole(p)' /\ Fd(p, n)'.size = call[p].limit
  BY <1>1, <1>2, <1>4, <1>7 DEF TruncateOk, Sole, Open, Others, Fd
<1>10. TruncateOk(p)'
  <2>1. CASE call[p].at = "truncate"
    <3>1. file.size = call[p].old /\ Pages(p, n, call[p].old) /\ Filled(call[p].old) /\ size = call[p].limit
      BY <1>1, <1>2, <1>3, <1>7, <2>1 DEF TruncateOk
    <3>2. ASSUME NEW i \in Indices
          PROVE  /\ i < call[p].old /\ i < call[p].limit => data'[p][n][i] = file'.block[i] /\ file'.block[i] # NIL
                 /\ i >= call[p].old => data'[p][n][i] = NIL
      BY <1>1, <1>6, <1>8, <3>1 DEF Pages, Filled
    <3> QED
      BY <1>1, <1>2, <1>5, <1>6, <1>9, <2>1, <3>1, <3>2 DEF TruncateOk, Fd
  <2>2. CASE call[p].at = "back"
    <3>1. /\ Filled(call[p].old) /\ size = call[p].old /\ fds[p][n].fileid \in failed
          /\ \A i \in Indices : data[p][n][i] # NIL => i < call[p].limit
      BY <1>1, <1>2, <1>3, <1>7, <2>2 DEF TruncateOk
    <3>2. Filled(call[p].old)'
      BY <1>1, <1>6, <3>1 DEF Filled
    <3> QED
      BY <1>1, <1>2, <1>5, <1>6, <1>9, <2>2, <3>1, <3>2 DEF TruncateOk, Filled, Fd
  <2> QED
    BY <1>2, <2>1, <2>2
<1>11. Shape(call[p])' /\ RequestOk(p)' /\ OpenOk(p)' /\ CloseOk(p)'
  BY <1>1, <1>2, <1>7 DEF RequestOk, OpenOk, CloseOk
<1>12. ReplyOk(p)' /\ ResultOk(p)'
  BY <1>1, <1>2, <1>5 DEF ReplyOk, ResultOk
<1>13. CallData(p)'
  BY <1>10, <1>11, <1>12 DEF CallData
<1> QED
  BY <1>1, <1>2, <1>4, <1>5, <1>13, ServeAloneData

LEMMA ServeData ==
  ASSUME All, serve
  PROVE  DataInd'
<1>1. PICK p \in Procs, rq \in Requests, n \in Fds :
        /\ Serving(p, n, rq)
        /\ \/ rq.type = "OPEN" /\ serve_open(p, rq)
           \/ rq.type = "MAP" /\ serve_map(p, rq)
           \/ rq.type = "SET_SIZE" /\ serve_set_size(p, rq)
           \/ rq.type = "DIRTY" /\ serve_dirty(p, rq)
           \/ rq.type = "CLOSE" /\ serve_close(p, rq)
           \/ rq.type = "SYNC" /\ serve_sync(p)
  BY Asked
<1> QED
  BY <1>1, ServeOpenData, ServeMapData, ServeSetSizeData, ServeDirtyData, ServeCloseData, ServeSyncData

-----------------------------------------------------------------------------
(***************************************************************************)
(* The invariant, and what it is for.                                      *)
(***************************************************************************)
\* The file begins with as many blocks as its size says.
LEMMA InitFilled ==
  ASSUME Init
  PROVE  Filled(file.size)
<1>1. PICK b \in [Indices -> Blocks \cup {NIL}] :
        /\ \A i \in Indices : b[i] # NIL => b[i] = i + 1 /\ \A j \in 0 .. i : b[j] # NIL
        /\ file = [size |-> Cardinality({i \in Indices : b[i] # NIL}), block |-> b]
  BY DEF Init
<1>2. Indices = 0 .. MaxSize - 1 /\ MaxSize \in Nat
  BY FileServerAssumption DEF Indices
<1> DEFINE S == {i \in Indices : b[i] # NIL}
<1>3. S \subseteq Indices /\ \A i \in S : \A j \in 0 .. i : j \in S
  <2> SUFFICES ASSUME NEW i \in S, NEW j \in 0 .. i PROVE j \in S
    OBVIOUS
  <2>1. b[j] # NIL /\ i \in Indices
    BY <1>1
  <2>2. j \in Indices
    BY <1>2, <2>1
  <2> QED
    BY <2>1, <2>2
<1> HIDE DEF S
<1>4. ASSUME NEW i \in Indices, i < Cardinality(S) PROVE i \in S
  <2> SUFFICES ASSUME i \notin S PROVE FALSE
    OBVIOUS
  <2>1. i \in Nat
    BY <1>2
  <2>2. S \in SUBSET (0 .. i - 1)
    <3> SUFFICES ASSUME NEW j \in S PROVE j \in 0 .. i - 1
      OBVIOUS
    <3>1. j \in Indices /\ i \notin 0 .. j
      BY <1>3
    <3> QED
      BY <1>2, <2>1, <3>1
  <2>3. IsFiniteSet(0 .. i - 1) /\ Cardinality(0 .. i - 1) = i
    <3>1. 0 \in Int /\ i - 1 \in Int
      BY <2>1
    <3>2. IsFiniteSet(0 .. i - 1)
          /\ Cardinality(0 .. i - 1) = IF 0 > i - 1 THEN 0 ELSE (i - 1) - 0 + 1
      BY <3>1, FS_Interval
    <3> QED
      BY <2>1, <3>2
  <2>4. Cardinality(S) \in Nat /\ Cardinality(S) <= i
    BY <2>2, <2>3, FS_Subset, FS_CardinalityType
  <2> QED
    BY <1>4, <2>1, <2>4
<1>5. file.size = Cardinality(S) /\ file.block = b
  BY <1>1 DEF S
<1> QED
  BY <1>4, <1>5 DEF Filled, S

LEMMA InitData == Init => Fresh /\ DataInd
<1> SUFFICES ASSUME Init PROVE Fresh /\ DataInd
  OBVIOUS
<1>1. \A p \in Procs : call[p] = NIL
  BY DEF Init
<1>2. \A p \in Procs, n \in Fds : fds[p][n] = NIL /\ \A i \in Indices : data[p][n][i] = NIL
  BY DEF Init, NoFds, NoPages
<1>3. Fresh
  BY <1>2 DEF Fresh, Open
<1>4. (\A p \in Procs : CallData(p)) /\ \A p \in Procs, n \in Fds : FdData(p, n)
  BY <1>1, <1>2 DEF CallData, FdData, Open
<1>5. FileData /\ DiskData
  BY InitFilled DEF FileData, DiskData, Init
<1>6. EntryData
  <2>1. ASSUME NEW o \in Entries PROVE o % MAXOPEN = o
    BY FileServerAssumption DEF Entries
  <2> QED
    BY <2>1 DEF EntryData, Init
<1> QED
  BY <1>3, <1>4, <1>5, <1>6 DEF DataInd

\* Only who runs gets descriptors.
LEMMA FreshKept ==
  ASSUME Fresh, \A q \in Procs : status'[q] = "unborn" => status[q] = "unborn" /\ fds'[q] = fds[q]
  PROVE  Fresh'
  BY DEF Fresh, Open

LEMMA FreshStep ==
  ASSUME Ind, Fresh, NEW p \in Procs, status[p] # "unborn", status'[p] # "unborn",
         \A q \in Procs \ {p} : status'[q] = status[q] /\ fds'[q] = fds[q]
  PROVE  Fresh'
  BY FreshKept

LEMMA FreshNext == Ind /\ Fresh /\ [Next]_vars => Fresh'
<1> SUFFICES ASSUME Ind, Fresh, [Next]_vars PROVE Fresh'
  OBVIOUS
<1>1. CASE UNCHANGED <<status, fds>>
  BY <1>1, FreshKept
<1>2. CASE SendReply
  <2>1. PICK p \in Procs, page \in PageRecs : p = server.whom /\ page = server.page
    BY <1>2, SendFacts
  <2>2. call[p] # NIL
    BY <1>2, <2>1, SendFacts DEF Ind, CallsType, Silent
  <2>3. status[p] \in {"run", "exit"}
    BY <2>2 DEF Ind, CallsOk, CallOk
  <2>4. fds' = IF page.kind # "Filefd" THEN fds
               ELSE [fds EXCEPT ![p][call[p].n] = [o |-> page.o, fileid |-> filefd[page.o].fileid]]
    BY <1>2, <2>1 DEF SendReply
  <2>5. UNCHANGED status /\ \A q \in Procs \ {p} : fds'[q] = fds[q]
    BY <1>2, <2>4 DEF SendReply, procVars, Ind, DescType
  <2> QED
    BY <2>3, <2>5, FreshStep
<1>3. ASSUME NEW p \in Procs, dup(p) \/ close_flushed(p) PROVE Fresh'
  <2>1. status[p] \in {"run", "exit"} /\ UNCHANGED status
    <3>1. CASE dup(p)
      BY <3>1 DEF dup, Begin, Idle
    <3>2. CASE close_flushed(p)
      BY <3>2, GotFacts DEF close_flushed, CallOk, procVars
    <3> QED
      BY <1>3, <3>1, <3>2
  <2>2. \A q \in Procs \ {p} : fds'[q] = fds[q]
    BY <1>3 DEF dup, close_flushed, CloseBegin, Ind, DescType
  <2> QED
    BY <2>1, <2>2, FreshStep
<1>4. ASSUME NEW p \in Procs, NEW q \in Procs, fork(p, q) PROVE Fresh'
  <2>1. status' = [status EXCEPT ![q] = "run"] /\ fds' = [fds EXCEPT ![q] = fds[p]]
    BY <1>4 DEF fork
  <2>2. status'[q] = "run" /\ \A x \in Procs \ {q} : status'[x] = status[x] /\ fds'[x] = fds[x]
    BY <2>1 DEF Ind, ProcType, DescType
  <2> QED
    BY <2>2, FreshKept
<1>5. ASSUME NEW p \in Procs, exit(p) \/ (close_all(p) /\ status' # status) PROVE Fresh'
  <2>1. status[p] \in {"run", "exit"} /\ UNCHANGED fds
    BY <1>5 DEF exit, close_all, Idle
  <2>2. \E s \in {"exit", "done"} : status' = [status EXCEPT ![p] = s]
    BY <1>5 DEF exit, close_all
  <2>3. status'[p] # "unborn" /\ \A q \in Procs \ {p} : status'[q] = status[q]
    BY <2>2 DEF Ind, ProcType
  <2> QED
    BY <2>1, <2>3, FreshStep
<1>6. CASE serve
  BY <1>1, <1>6 DEF serve, procVars
<1>7. ASSUME NEW p \in Procs, open(p) \/ ftruncate(p) \/ write(p) \/ close(p) \/ sync(p) PROVE Fresh'
  <2>1. UNCHANGED <<status, fds>>
    BY <1>7 DEF open, ftruncate, write, close, sync, Begin, resize, CloseBegin
  <2> QED
    BY <1>1, <2>1
<1>8. ASSUME NEW p \in Procs, Send(p) \/ ipc_recv(p) \/ open_got(p) \/ open_mapped(p)
        \/ truncate_set(p) \/ truncate_mapped(p) \/ truncate_back(p) \/ close_dirtied(p) \/ sync_got(p)
      PROVE Fresh'
  <2>1. UNCHANGED <<status, fds>>
    BY <1>8 DEF Send, ipc_recv, open_got, open_mapped, truncate_set, truncate_mapped, truncate_back,
       close_dirtied, sync_got, procVars
  <2> QED
    BY <1>1, <2>1
<1>9. ASSUME NEW p \in Procs, close_all(p), status' = status PROVE Fresh'
  <2>1. UNCHANGED fds
    BY <1>9 DEF close_all, CloseBegin
  <2> QED
    BY <1>1, <1>9, <2>1
<1>10. CASE UNCHANGED vars
  BY <1>1, <1>10 DEF vars, procVars
<1> QED
  BY <1>2, <1>3, <1>4, <1>5, <1>6, <1>7, <1>8, <1>9, <1>10 DEF Next, GoOn

LEMMA DataNext == All /\ [Next]_vars => DataInd'
<1> SUFFICES ASSUME All, [Next]_vars PROVE DataInd'
  OBVIOUS
<1>1. CASE serve
  BY <1>1, ServeData
<1>2. CASE SendReply
  BY <1>2, SendReplyData
<1>3. ASSUME NEW p \in Procs, open(p) \/ ftruncate(p) \/ write(p) \/ close(p) \/ dup(p) \/ sync(p)
      PROVE  DataInd'
  BY <1>3, OpenData, FtruncateData, WriteData, CloseData, DupData, SyncData
<1>4. ASSUME NEW p \in Procs, exit(p) PROVE DataInd'
  BY <1>4, ExitData DEF exit, serverVars
<1>5. ASSUME NEW p \in Procs, NEW q \in Procs, fork(p, q) PROVE DataInd'
  BY <1>5, ForkData
<1>6. ASSUME NEW p \in Procs, GoOn(p) PROVE DataInd'
  BY <1>6, SendData, RecvData, OpenGotData, OpenMappedData, TruncateSetData, TruncateMappedData,
     TruncateBackData, CloseDirtiedData, CloseFlushedData, SyncGotData, CloseAllData DEF GoOn
<1>7. CASE UNCHANGED vars
  BY <1>7, ExitData DEF vars, serverVars, procVars
<1> QED
  BY <1>1, <1>2, <1>3, <1>4, <1>5, <1>6, <1>7 DEF Next

LEMMA AllSafe == Spec => []All
<1>1. Init => All
  <2>1. Init => HeldInd
    BY DEF Init, HeldInd, Open, NoFds, Waiting
  <2> QED
    BY <2>1, InitInd, InitData DEF All
<1>2. All /\ [Next]_vars => All'
  BY NextInd, HeldNext, FreshNext, DataNext DEF All
<1> QED
  BY <1>1, <1>2, PTL DEF Spec

(***************************************************************************)
(* What a process sees through a descriptor that no call of its own is     *)
(* changing is the file, unless a change of its size has failed half way:  *)
(* the size in the shared Filefd page, and the blocks that open, ftruncate *)
(* and write (file.c) have mapped.                                         *)
(***************************************************************************)
THEOREM MappingsSafe == Spec => []MappingsCurrent
<1>1. All => MappingsCurrent
  <2> SUFFICES ASSUME All, NEW p \in Procs, NEW n \in Fds,
                      Open(p, n), p \notin InCall(n), fds[p][n].fileid \notin failed
               PROVE  /\ Fd(p, n).size = file.size
                      /\ \A i \in Indices : data[p][n][i] = IF i < file.size THEN file.block[i] ELSE NIL
    BY DEF MappingsCurrent
  <2>1. FdData(p, n)
    BY DEF All, DataInd
  <2>2. ~Changing(p, n)
    BY DEF Changing, InCall
  <2>3. Current(p, n)
    BY <2>1, <2>2 DEF FdData
  <2> QED
    BY <2>3 DEF Current, Pages
<1> QED
  BY <1>1, AllSafe, PTL

(***************************************************************************)
(* Once nobody has the file open, everything that was written to it is on  *)
(* the disk: file_close (file.c) has asked for every block below the size  *)
(* to be marked, and CLOSE (serv.c) has written the marked ones.           *)
(***************************************************************************)
THEOREM ClosedDataSafe == Spec => []ClosedDataOnDisk
<1>1. All => ClosedDataOnDisk
  BY DEF All, DataInd, DiskData, ClosedDataOnDisk
<1> QED
  BY <1>1, AllSafe, PTL
=============================================================================
