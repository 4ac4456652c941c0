------------------------------- MODULE MCCow --------------------------------
EXTENDS Cow

\* Page 1 is not mapped at first, page 2 is shared, page 3 is the stack.
MCPrivate == {1, 3}
MCShared  == {2}
MCTouched == {2, 3}
MCPages   == 1 .. 4
=============================================================================
