-------------------------------- MODULE Pipe --------------------------------
(***************************************************************************)
(* What a tunnel promises to the two programs at its ends: a byte pipe in  *)
(* each direction.  Chunk n of a stream is the number n.  A stream arrives *)
(* in order, without gap and without repetition; it may be cut off at any  *)
(* point, and once cut nothing of it arrives any more.                     *)
(***************************************************************************)
EXTENDS Naturals, Sequences

CONSTANT Ends       \* the receiving ends

VARIABLES
    sent,           \* chunks put into the pipe that leads to an end
    got,            \* chunks that came out of it, in order
    cut             \* whether it still delivers

pipeVars == <<sent, got, cut>>

PipeInit ==
    /\ sent = [e \in Ends |-> 0]
    /\ got = [e \in Ends |-> <<>>]
    /\ cut = [e \in Ends |-> FALSE]

Send(e) ==
    /\ sent' = [sent EXCEPT ![e] = @ + 1]
    /\ UNCHANGED <<got, cut>>

Deliver(e) ==
    /\ ~cut[e]
    /\ Len(got[e]) < sent[e]
    /\ got' = [got EXCEPT ![e] = Append(@, Len(@) + 1)]
    /\ UNCHANGED <<sent, cut>>

Cut(e) ==
    /\ cut' = [cut EXCEPT ![e] = TRUE]
    /\ UNCHANGED <<sent, got>>

PipeNext == \E e \in Ends : Send(e) \/ Deliver(e) \/ Cut(e)

PipeSpec == PipeInit /\ [][PipeNext]_pipeVars
=============================================================================
