-------------------------- MODULE MCStreamBuffer ---------------------------
(***************************************************************************)
(* Instances of StreamBuffer for TLC.  The ISN is chosen so that the       *)
(* stream crosses the end of the sequence space, and the stream is shorter *)
(* than half of it, as a TCP window is.                                    *)
(***************************************************************************)
EXTENDS StreamBuffer

CONSTANT StreamLen  \* bytes the sender sends

\* every segment of up to three bytes, cut anywhere
AnyCut == {g \in [off : 0 .. StreamLen - 1, len : 1 .. 3] : g.off + g.len <= StreamLen}

\* a sender that always cuts its stream at the same places
FixedCut == {g \in [off : 0 .. StreamLen - 1, len : {2}] :
                g.off % 2 = 0 /\ g.off + g.len <= StreamLen}
=============================================================================
