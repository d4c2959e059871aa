--------------------------- MODULE FounderVerdict ---------------------------
(***************************************************************************)
(* What a proposal to the founders promises: it is decided once, what is   *)
(* put to a vote is decided by what the votes have come to, what policy    *)
(* bars is refused, and an agent is told of an approval once.  Only a      *)
(* column that somebody sets directly, or clicks on a directive that       *)
(* overlap, excuse another verdict.                                        *)
(*                                                                         *)
(* Nothing here says by which buttons, links, tokens and statements that   *)
(* comes about; that is FounderApprovals, which is shown to implement this *)
(* module.                                                                 *)
(***************************************************************************)
EXTENDS Naturals

CONSTANTS
  Founders,
  Assigned    \* the founders who are asked about a yellow decision

VARIABLES
  kind,       \* of the proposal
  votes,      \* of the founders, as they stand
  tally,      \* what they have come to at some time
  verdict,
  told,       \* how often the agent has been told
  excused

verdictVars == <<kind, votes, tally, verdict, told, excused>>

Verdicts == {"approved", "rejected"}

\* A red decision needs every founder, and all in favour; a yellow one anybody asked.
Come(k, v) ==
  IF k = "red"
  THEN {o \in Verdicts : /\ \A f \in Founders : v[f] # "none"
                         /\ o = "approved" <=> \A f \in Founders : v[f] = "approved"}
  ELSE {o \in Verdicts : \E f \in Assigned : v[f] = o}

Proposed ==
  /\ kind \in {"red", "yellow", "barred", "directive", "message"}
  /\ votes = [f \in Founders |-> "none"] /\ tally = {}
  /\ verdict = "pending" /\ told = 0 /\ excused = FALSE

Cast ==
  /\ \E f \in Founders : \A g \in Founders \ {f} : votes'[g] = votes[g]
  /\ tally' = tally \cup Come(kind, votes')
  /\ UNCHANGED <<verdict, told>>

Decide ==
  /\ verdict = "pending" /\ verdict' \in Verdicts
  /\ kind \in {"red", "yellow"} => verdict' \in tally
  /\ kind = "barred" => verdict' = "rejected"
  /\ UNCHANGED <<votes, tally, told>>

Tell ==
  /\ kind = "message" /\ verdict = "approved" /\ told = 0 /\ told' = 1
  /\ UNCHANGED <<votes, tally, verdict>>

Overrule == excused' /\ kind # "message" /\ UNCHANGED <<votes, tally, told>>

VerdictNext ==
  /\ kind' = kind /\ (excused => excused')
  /\ Cast \/ Decide \/ Tell \/ Overrule

VerdictSpec == Proposed /\ [][VerdictNext]_verdictVars

=============================================================================
