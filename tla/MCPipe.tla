------------------------------- MODULE MCPipe -------------------------------
EXTENDS Pipe

CONSTANTS r, rw, w

MCReader == {r, rw}
MCWriter == {rw, w}

\* Calls shorter than the ring beside calls that fill it.
MCLen == [t \in {r, rw, w} |-> IF t = rw THEN 2 ELSE 1]
=============================================================================
