-------------------------- MODULE MCRawImageYielder --------------------------
(* A yielder, and a runner of a live source with a callback of its own.     *)
EXTENDS RawImageYielder

MCRunners     == {"yielder", "live"}
MCWithAppsrc  == {"yielder"}
MCWithAppsink == {"yielder", "live"}
MCRunner      == "yielder"
MCLastSample  == [r \in MCRunners |-> IF r = "yielder" THEN 2 ELSE 1]
MCMaxErrors   == [r \in MCRunners |-> IF r = "yielder" THEN 1 ELSE 0]
=============================================================================
