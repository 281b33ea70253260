-------------------------- MODULE MCBoundedProcess --------------------------
(***************************************************************************)
(* One descendant that outlives the child and holds its pipes, pipes of    *)
(* one byte so that writers block, channels counted up to two bytes, a     *)
(* kill that takes a tick to land, and a poll interval that does not       *)
(* divide the timeout.  Writers may write without end.                     *)
(***************************************************************************)
EXTENDS BoundedProcess

MCTimeout == 3
MCPollInterval == 2
MCGrace == 1
MCKillLatency == 1
MCPipeCapacity == 1
MCMaxQueued == 2
=============================================================================
