------------------------ MODULE MCFounderApprovals ------------------------
(* FounderApprovals with two founders and three clicks.                    *)
EXTENDS FounderApprovals
=============================================================================
