----------------------- MODULE MCForkStateManagerCopies -----------------------
(* The node's manager and one copy, one snapshot a write produces, blocks *)
(* 0 (below the fork) and 1 (the fork), and one remote root.            *)
EXTENDS ForkStateManagerCopies

CONSTANTS mo, mc, w1, r0

MCManagers == {mo, mc}
MCWritten == {w1}
MCBlockNumbers == {0, 1}
MCPastBlockRoots == {r0}

=============================================================================
