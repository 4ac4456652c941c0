-------------------------------- MODULE Fork --------------------------------
(***************************************************************************)
(* What fork promises about memory: a program sees its own copy of every   *)
(* page, made at one instant of the fork, except for the pages that are    *)
(* marked to be shared, of which there is one copy for all who have it.    *)
(***************************************************************************)
CONSTANTS Envs, VPNs, Shared, Words, Zero, Unmapped

VARIABLE view     \* view[e][v]: the word e finds in page v

TypeOK == view \in [Envs -> [VPNs -> Words \cup {Unmapped}]]

\* A page that was never touched is blank when it is.
Touch(e, v) ==
  /\ view[e][v] = Unmapped /\ v \notin Shared
  /\ view' = [view EXCEPT ![e][v] = Zero]

Store(e, v, w) ==
  /\ view[e][v] # Unmapped
  /\ view' = [f \in Envs |->
       [view[f] EXCEPT ![v] = IF f = e \/ (v \in Shared /\ @ # Unmapped) THEN w ELSE @]]

\* fork gives page v to the child.
Copy(e, c, v) ==
  /\ view[c][v] = Unmapped /\ view[e][v] # Unmapped
  /\ view' = [view EXCEPT ![c][v] = view[e][v]]

Exit(e) == view' = [view EXCEPT ![e] = [v \in VPNs |-> Unmapped]]

Next ==
  \E e \in Envs :
    \/ Exit(e)
    \/ \E v \in VPNs :
         \/ Touch(e, v)
         \/ \E w \in Words : Store(e, v, w)
         \/ \E c \in Envs \ {e} : Copy(e, c, v)

Init == view \in [Envs -> [VPNs -> Words \cup {Unmapped}]]

ForkSpec == Init /\ [][Next]_view
=============================================================================
