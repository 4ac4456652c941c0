------------------------------- MODULE MCPmap -------------------------------
(* Small instances of Pmap for TLC. *)
EXTENDS Pmap, TLC

MCLow == {<<0, 0>>}
MCGuard == {<<0, 2>>}

\* Which ASID an environment has makes no difference, nor does which page it
\* has: page_init's order is only the order in which they are first handed out.
Names == Permutations(FreePages) \cup Permutations(ASIDs)
=============================================================================
