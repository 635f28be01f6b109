--------------------------- MODULE MCWorldAuthority ---------------------------
(***************************************************************************)
(* A small instance of WorldAuthority.                                     *)
(***************************************************************************)
EXTENDS WorldAuthority, TLC

MCRoles == {{}, {"DM"}, {"PLAYER"}}
MCBotGrants == {{"act"}}

Symmetric == Permutations(Thread)
==============================================================================
