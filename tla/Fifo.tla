-------------------------------- MODULE Fifo --------------------------------
(***************************************************************************)
(* What a pipe promises about the bytes that go through it: at most N of   *)
(* them are under way, and they come out in the order they went in, none   *)
(* lost, invented or doubled.  The k-th byte sent is called k.             *)
(***************************************************************************)
EXTENDS Naturals, Sequences

CONSTANT N

VARIABLES chan,  \* the bytes under way
          in,    \* how many were sent
          out    \* the byte received last, 0 before the first

fifoVars == <<chan, in, out>>

FifoInit == chan = <<>> /\ in = 0 /\ out = 0

Send ==
  /\ Len(chan) < N
  /\ in' = in + 1
  /\ chan' = Append(chan, in')
  /\ UNCHANGED out

Receive ==
  /\ chan # <<>>
  /\ out' = Head(chan)
  /\ chan' = Tail(chan)
  /\ UNCHANGED in

FifoSpec == FifoInit /\ [][Send \/ Receive]_fifoVars
=============================================================================
