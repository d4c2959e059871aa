-------------------------- MODULE FounderApprovals --------------------------
(***************************************************************************)
(* What agents may not do by themselves is put to people: decisions, of    *)
(* which a red one needs every founder (server.ts                          *)
(* handleAgent365DecisionAction), directives that the chief of staff       *)
(* proposes, decided by a button in Teams or by one of two links           *)
(* (handleDirectiveActionExecute, directiveApproval.ts), and deliverables  *)
(* for a customer (approvalHandler.ts, handleCustomerApprovalAction).      *)
(*                                                                         *)
(* Proposals do not touch one another, so there is one, of any kind.  A    *)
(* click is a request whose statements interleave with those of others and *)
(* may fail; one that finds the proposal closed, or is of somebody who is  *)
(* not asked, changes nothing and is left out.  So are the traces that a   *)
(* decision leaves for agents to learn from, and logs.  "pending" stands   *)
(* for the proposed, "approved" for the active directive.                  *)
(***************************************************************************)
EXTENDS Naturals

CONSTANTS
  Founders,
  Assigned,   \* the founders who are asked about a yellow decision
  Clicks,     \* requests that can be in progress together
  MaxFaults   \* bound: requests that die or whose statement fails

ASSUME ApprovalAssumption ==
  Founders # {} /\ Assigned \subseteq Founders /\ Assigned # {} /\ MaxFaults \in Nat

Verdicts == {"approved", "rejected"}

VARIABLES
  kind,     \* of the proposal; "barred" decisions are refused by policy
  status,   \* its status column
  votes,    \* rows of decision_approvals
  tokens,   \* links that have not been used
  late,     \* more than 48 hours since it was made
  woken,    \* wakes queued for the agent of a deliverable
  at,       \* where each click is
  want,     \*   and what it is about to decide
  first,    \* history: the first decision,
  added,    \*   what the votes have come to at some time,
  overlap,  \*   two clicks on a directive were in progress together,
  direct,   \*   somebody has set the column past all this
  faults

proposal == <<kind, status>>
clicks == <<at, want>>
history == <<first, added, overlap, direct>>
vars == <<proposal, votes, tokens, late, woken, clicks, history, faults>>

Voting == {"red", "yellow"}
Decisions == Voting \cup {"barred"}
Kinds == Decisions \cup {"directive", "message"}

\* The clicks on a proposal of this kind go through these places.
PlacesOf(k) ==
  CASE k \in Decisions -> {"vote", "read", "finalize"}
    [] k = "directive" -> {"set", "burn", "linked", "use", "sibling", "decide"}
    [] k = "message"   -> {"wake"}

Places == {"idle"} \cup UNION {PlacesOf(k) : k \in Kinds}

Init ==
  /\ kind \in Kinds /\ status = "pending"
  /\ votes = [f \in Founders |-> "none"]
  /\ tokens \in IF kind = "directive" THEN {{}, Verdicts} ELSE {{}}
  /\ late = FALSE /\ woken = 0
  /\ at = [t \in Clicks |-> "idle"] /\ want = [t \in Clicks |-> "none"]
  /\ first = "none" /\ added = {} /\ overlap = FALSE /\ direct = FALSE
  /\ faults = 0

-----------------------------------------------------------------------------
Go(t, place, verdict) ==
  /\ at' = [at EXCEPT ![t] = place]
  /\ want' = [want EXCEPT ![t] = verdict]

End(t) == Go(t, "idle", "none")

Decided(v) ==
  /\ status' = v
  /\ first' = IF first = "none" THEN v ELSE first

\* resolveDecisionFounders
Required == IF kind = "red" THEN Founders ELSE Assigned

\* What these votes come to: a red decision needs them all, and all in favour; a
\* yellow one is decided by any.
Outcomes(v) ==
  IF kind = "red"
  THEN IF \E f \in Founders : v[f] = "none" THEN {}
       ELSE IF \A f \in Founders : v[f] = "approved" THEN {"approved"} ELSE {"rejected"}
  ELSE {v[f] : f \in Assigned} \ {"none"}

-----------------------------------------------------------------------------
(***************************************************************************)
(* A decision.  The handler looks at the status once, at the start.        *)
(***************************************************************************)
OpenDecision(t) ==
  /\ kind \in Decisions /\ status = "pending" /\ at[t] = "idle"
  /\ IF kind = "barred" THEN Go(t, "finalize", "rejected") ELSE Go(t, "vote", "none")
  /\ UNCHANGED <<proposal, votes, tokens, late, woken, history, faults>>

\* Fault variant: a yellow decision takes its verdict from nowhere.
Vote_Forgotten(t, f, v) ==
  /\ at[t] = "vote" /\ f \in Required
  /\ votes' = [votes EXCEPT ![f] = v]
  /\ added' = added \cup Outcomes(votes')
  /\ IF kind = "red" THEN Go(t, "read", "none") ELSE Go(t, "finalize", "none")
  /\ UNCHANGED <<proposal, tokens, late, woken, first, overlap, direct, faults>>

\* The upsert of the founder's row, even if the decision has been made meanwhile.
Vote(t, f, v) ==
  /\ at[t] = "vote" /\ f \in Required
  /\ votes' = [votes EXCEPT ![f] = v]
  /\ added' = added \cup Outcomes(votes')
  /\ IF kind = "red" THEN Go(t, "read", "none") ELSE Go(t, "finalize", v)
  /\ UNCHANGED <<proposal, tokens, late, woken, first, overlap, direct, faults>>

\* Fault variant: it is enough that nobody is against it.
ReadVotes_NoQuorum(t) ==
  /\ at[t] = "read"
  /\ Go(t, "finalize",
        IF \E f \in Founders : votes[f] = "rejected" THEN "rejected" ELSE "approved")
  /\ UNCHANGED <<proposal, votes, tokens, late, woken, history, faults>>

\* A founder is missing, or the rows make the verdict.
ReadVotes(t) ==
  /\ at[t] = "read"
  /\ \/ Outcomes(votes) = {} /\ End(t)
     \/ \E v \in Outcomes(votes) : Go(t, "finalize", v)
  /\ UNCHANGED <<proposal, votes, tokens, late, woken, history, faults>>

\* finalizeDecisionFromTeams: UPDATE ... WHERE status = 'pending'.
Finalize(t) ==
  /\ at[t] = "finalize" /\ End(t)
  /\ IF status = "pending" THEN Decided(want[t]) ELSE UNCHANGED <<status, first>>
  /\ UNCHANGED <<kind, votes, tokens, late, woken, added, overlap, direct, faults>>

-----------------------------------------------------------------------------
(***************************************************************************)
(* A directive, by the button: the column is set by id.                    *)
(***************************************************************************)
Enter(t) == overlap' = (overlap \/ \E u \in Clicks \ {t} : at[u] # "idle")

OpenProposal(t, v) ==
  /\ kind = "directive" /\ status = "pending" /\ at[t] = "idle"
  /\ Go(t, "set", v) /\ Enter(t)
  /\ UNCHANGED <<proposal, votes, tokens, late, woken, first, added, direct, faults>>

SetStatus(t) ==
  /\ at[t] = "set" /\ Decided(want[t]) /\ Go(t, "burn", "none")
  /\ UNCHANGED <<kind, votes, tokens, late, woken, added, overlap, direct, faults>>

\* A failure is ignored.
BurnTokens(t) ==
  /\ at[t] = "burn" /\ End(t) /\ tokens' \in {{}, tokens}
  /\ UNCHANGED <<proposal, votes, late, woken, history, faults>>

(***************************************************************************)
(* A directive, by a link: the POST of its page.  The page itself reads    *)
(* the same rows and writes nothing.                                       *)
(***************************************************************************)
FollowLink(t, v) ==
  /\ v \in tokens /\ ~late /\ at[t] = "idle"
  /\ Go(t, "linked", v) /\ Enter(t)
  /\ UNCHANGED <<proposal, votes, tokens, late, woken, first, added, direct, faults>>

\* Fault variant: an unused token is enough.
LookUp_Trusting(t) ==
  /\ at[t] = "linked" /\ Go(t, "use", want[t])
  /\ UNCHANGED <<proposal, votes, tokens, late, woken, history, faults>>

LookUp(t) ==
  /\ at[t] = "linked"
  /\ IF status = "pending" THEN Go(t, "use", want[t]) ELSE End(t)
  /\ UNCHANGED <<proposal, votes, tokens, late, woken, history, faults>>

UseToken(t) ==
  /\ at[t] = "use" /\ Go(t, "sibling", want[t])
  /\ tokens' = tokens \ {want[t]}
  /\ UNCHANGED <<proposal, votes, late, woken, history, faults>>

UseSibling(t) ==
  /\ at[t] = "sibling" /\ Go(t, "decide", want[t])
  /\ tokens' = {}
  /\ UNCHANGED <<proposal, votes, late, woken, history, faults>>

DecideByLink(t) ==
  /\ at[t] = "decide" /\ Decided(want[t]) /\ End(t)
  /\ UNCHANGED <<kind, votes, tokens, late, woken, added, overlap, direct, faults>>

-----------------------------------------------------------------------------
(***************************************************************************)
(* A deliverable: UPDATE ... WHERE status = 'pending'.  A button in Slack  *)
(* also wakes the agent, one in Teams does not.  Nothing calls             *)
(* expireStaleApprovals.                                                   *)
(***************************************************************************)
Answer(t, v) ==
  /\ kind = "message" /\ status = "pending" /\ at[t] = "idle"
  /\ Decided(v)
  /\ \/ UNCHANGED clicks
     \/ v = "approved" /\ Go(t, "wake", "none")
  /\ UNCHANGED <<kind, votes, tokens, late, woken, added, overlap, direct, faults>>

QueueWake(t) ==
  /\ at[t] = "wake" /\ End(t) /\ woken' = woken + 1
  /\ UNCHANGED <<proposal, votes, tokens, late, history, faults>>

-----------------------------------------------------------------------------
\* The dashboard's PATCH, and update_directive_progress of the chief of staff, set
\* the column of a decision or a directive whatever it holds, and reopen it as well.
SetDirectly(v) ==
  /\ kind # "message" /\ status' = v /\ direct' = TRUE
  /\ UNCHANGED <<kind, votes, tokens, late, woken, clicks, first, added, overlap, faults>>

\* The request dies, or its next statement throws.
Fail(t) ==
  /\ at[t] # "idle" /\ faults < MaxFaults /\ faults' = faults + 1 /\ End(t)
  /\ UNCHANGED <<proposal, votes, tokens, late, woken, history>>

TimePasses ==
  /\ ~late /\ late' = TRUE
  /\ UNCHANGED <<proposal, votes, tokens, woken, clicks, history, faults>>

Next ==
  \/ \E t \in Clicks :
       \/ OpenDecision(t) \/ ReadVotes(t) \/ Finalize(t)
       \/ \E f \in Founders, v \in Verdicts : Vote(t, f, v)
       \/ SetStatus(t) \/ BurnTokens(t)
       \/ LookUp(t) \/ UseToken(t) \/ UseSibling(t) \/ DecideByLink(t)
       \/ QueueWake(t) \/ Fail(t)
       \/ \E v \in Verdicts : OpenProposal(t, v) \/ FollowLink(t, v) \/ Answer(t, v)
  \/ \E v \in Verdicts \cup {"pending"} : SetDirectly(v)
  \/ TimePasses

Spec == Init /\ [][Next]_vars

-----------------------------------------------------------------------------
\* The rows of a proposal are well formed, and a click is only where a click on a
\* proposal of its kind can be.
TypeOK ==
  /\ kind \in Kinds /\ status \in Verdicts \cup {"pending"}
  /\ votes \in [Founders -> Verdicts \cup {"none"}]
  /\ tokens \subseteq Verdicts /\ (tokens # {} => kind = "directive")
  /\ late \in BOOLEAN /\ woken \in Nat
  /\ at \in [Clicks -> {"idle"} \cup PlacesOf(kind)]
  /\ want \in [Clicks -> Verdicts \cup {"none"}]
  /\ first \in Verdicts \cup {"none"} /\ added \subseteq Verdicts
  /\ overlap \in BOOLEAN /\ direct \in BOOLEAN /\ faults \in Nat

\* The founders' votes decide: a red decision that is approved had every founder
\* in favour at one time, even if they change their minds while it is counted;
\* and whoever is last to vote brings it about - unless his request fails.
VotesDecide ==
  kind \in Voting =>
    /\ ~direct /\ status # "pending" => status \in added
    /\ (\A t \in Clicks : at[t] = "idle") /\ faults = 0 /\ ~direct /\ Outcomes(votes) # {}
         => status # "pending"

\* Refinement: the column is the verdict, the wakes tell the agent, and what excuses
\* another verdict is a column set past all this and, on a directive, an overlap.
Verdict == INSTANCE FounderVerdict WITH
  tally   <- added,
  verdict <- status,
  told    <- woken,
  excused <- direct \/ (kind = "directive" /\ overlap)

ImplementsFounderVerdict == Verdict!VerdictSpec

=============================================================================
