-------------------------------- MODULE Rpc ---------------------------------
(***************************************************************************)
(* What a call to a server promises: each request is carried out once,     *)
(* after it was made and before the caller goes on, and the caller gets    *)
(* the answer to its own request.                                          *)
(***************************************************************************)
CONSTANTS Procs, Answers, NIL

VARIABLES phase,    \* of each caller: "idle", "asked" or "done"
          answer    \* the answer of the server, or of the last call

TypeOK == phase \in [Procs -> {"idle", "asked", "done"}] /\ answer \in [Procs -> Answers \cup {NIL}]

Move(p, from, to) == phase[p] = from /\ phase' = [phase EXCEPT ![p] = to]

Ask(p)     == Move(p, "idle", "asked") /\ answer' = [answer EXCEPT ![p] = NIL]
Execute(p) == Move(p, "asked", "done") /\ \E r \in Answers : answer' = [answer EXCEPT ![p] = r]
Return(p)  == Move(p, "done", "idle") /\ UNCHANGED answer
Forget(p)  == Move(p, "idle", "idle") /\ answer' = [answer EXCEPT ![p] = NIL]

Init == phase = [p \in Procs |-> "idle"] /\ answer = [p \in Procs |-> NIL]
Next == \E p \in Procs : Ask(p) \/ Execute(p) \/ Return(p) \/ Forget(p)

RpcSpec == Init /\ [][Next]_<<phase, answer>>
=============================================================================
