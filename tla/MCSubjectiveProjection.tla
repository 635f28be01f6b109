------------------------ MODULE MCSubjectiveProjection ------------------------
(***************************************************************************)
(* Events of which the first two contradict each other and the third       *)
(* claims nothing.                                                         *)
(***************************************************************************)
EXTENDS SubjectiveProjection

CONSTANTS open, closed

MCValue == {open, closed}
MCGrants == [e \in Event |-> Observer]
MCClaim == [e \in Event |-> IF e = 1 THEN open ELSE IF e = 2 THEN closed ELSE NoClaim]
===============================================================================
