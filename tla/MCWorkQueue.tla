--------------------------- MODULE MCWorkQueue ---------------------------
(* Small instances of WorkQueue: two workers, so that assign has to choose *)
(* and can fail, and tasks enough to keep both busy with one left over.    *)
EXTENDS WorkQueue

CONSTANTS p1, p2

MCProducers == {p1, p2}

=============================================================================
