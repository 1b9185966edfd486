--------------------------- MODULE MCEventLoop ---------------------------
(* Small instances of EventLoop: two producers that contend for the tail,  *)
(* two workers so that the tasks of two lists can overlap.                 *)
EXTENDS EventLoop

CONSTANTS p1, p2, r1, r2, note, beat

MCProducers == {p1, p2}
MCRunners == {r1, r2}
MCTypes == {note, beat}

=============================================================================
