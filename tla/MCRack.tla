------------------------------- MODULE MCRack -------------------------------
(* Small instances of Rack: a driver thread that triggers cycles, and a    *)
(* worker that asks for syncs from outside the rack thread.                *)
EXTENDS Rack

CONSTANTS driver, worker

MCWorkers == {worker}
MCDrivers == {driver}
MCRequests == {{Upstream}, {GlobSync}, {SyncDuration}, {Upstream, Downstream}}

=============================================================================
