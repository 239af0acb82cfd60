---------------------------- MODULE MCNodeStore -----------------------------
(* An instance of NodeStore: a snapshot with contents of its own, longer than *)
(* what the component may hold after its first write and shorter than what it *)
(* may hold after its last.                                                   *)
EXTENDS NodeStore

MCSnapshots == {<<-1, -2>>}
=============================================================================
