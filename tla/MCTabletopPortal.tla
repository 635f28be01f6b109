--------------------------- MODULE MCTabletopPortal ---------------------------
(***************************************************************************)
(* A small instance of TabletopPortal: a Dungeon Master of two worlds who  *)
(* plays in one of them, and a player of both.                             *)
(***************************************************************************)
EXTENDS TabletopPortal, TLC

CONSTANTS dm, player, w1, w2

MCDm == {<<w1, dm>>, <<w2, dm>>}
MCPlayer == {<<w1, dm>>, <<w1, player>>, <<w2, player>>}
MCStatus == {"SCHEDULED", "LIVE", "COMPLETED"}

Symmetric == Permutations(Thread)
==============================================================================
