----------------------- MODULE FounderApprovalsProofs -----------------------
(***************************************************************************)
(* Proofs about FounderApprovals, for any number of founders and clicks.   *)
(***************************************************************************)
EXTENDS FounderApprovals, TLAPS

\* The first decision stands, also against a link whose token was not burned; on a
\* directive only as long as two clicks do not overlap.  The agent is woken at
\* most once, and only for an approval.
DecidedOnce ==
  /\ first # "none" /\ ~direct /\ (kind = "directive" => ~overlap) => status = first
  /\ woken <= 1 /\ (woken = 1 => status = "approved")

\* What a vote has come to is remembered, and a click that finalizes carries it.
Counted ==
  kind \in Voting =>
    /\ Outcomes(votes) \subseteq added
    /\ \A t \in Clicks : at[t] = "finalize" => want[t] \in added
    /\ ~direct /\ status # "pending" => status \in added

\* Without faults somebody is on the way to an outcome that is not yet decided.
UnderWay ==
  kind \in Voting /\ faults = 0 /\ ~direct /\ Outcomes(votes) # {} /\ status = "pending"
    => \E t \in Clicks : at[t] \in {"read", "finalize"}

\* The first decision is what the column was first set to.
FirstIsDecision == ~direct => (first = "none" <=> status = "pending")

Stands == ~direct /\ first # "none" /\ (kind = "directive" => ~overlap) => status = first

\* While clicks on a directive have not overlapped there is one at a time, and what
\* it has looked up still holds.
Alone ==
  kind = "directive" /\ ~overlap =>
    /\ \A t, u \in Clicks : at[t] # "idle" /\ at[u] # "idle" => t = u
    /\ \A t \in Clicks : ~direct /\ at[t] \in {"set", "use", "sibling", "decide"}
                           => status = "pending"

\* A click on its way to a wake is alone, and has approved.
Waking ==
  /\ woken \in {0, 1}
  /\ woken = 1 => status = "approved" /\ kind = "message"
                  /\ \A t \in Clicks : at[t] # "wake"
  /\ \A t \in Clicks : at[t] = "wake" => status = "approved" /\ woken = 0
  /\ \A t, u \in Clicks : at[t] = "wake" /\ at[u] = "wake" => t = u

Carrying ==
  \A t \in Clicks :
    at[t] \in {"finalize", "set", "linked", "use", "sibling", "decide"} => want[t] \in Verdicts

Inv ==
  /\ TypeOK /\ Carrying /\ Counted /\ UnderWay
  /\ FirstIsDecision /\ Stands /\ Alone /\ Waking

-----------------------------------------------------------------------------
\* The outcomes of votes are verdicts, and depend on the votes alone.
LEMMA OutcomeType ==
  ASSUME TypeOK PROVE Outcomes(votes) \subseteq Verdicts
<1> USE ApprovalAssumption
<1>1. CASE kind = "red" BY <1>1 DEF Outcomes, Verdicts, TypeOK
<1>2. CASE kind # "red" BY <1>2 DEF Outcomes, Verdicts, TypeOK
<1> QED BY <1>1, <1>2

LEMMA OutcomeTypeNext ==
  ASSUME votes' \in [Founders -> Verdicts \cup {"none"}]
  PROVE  Outcomes(votes') \subseteq Verdicts
<1> USE ApprovalAssumption
<1>1. CASE kind = "red" BY <1>1 DEF Outcomes, Verdicts
<1>2. CASE kind # "red" BY <1>2 DEF Outcomes, Verdicts
<1> QED BY <1>1, <1>2

\* A proposal keeps its kind.
LEMMA KindStays == ASSUME [Next]_vars PROVE kind' = kind
BY DEF Next, vars, proposal, OpenDecision, ReadVotes, Finalize, Vote, SetStatus,
   BurnTokens, LookUp, UseToken, UseSibling, DecideByLink, QueueWake, Fail,
   OpenProposal, FollowLink, Answer, SetDirectly, TimePasses

\* Initially nothing has been decided.
LEMMA InitHolds == ASSUME Init PROVE Inv
<1> USE ApprovalAssumption DEF Init, Verdicts
<1>1. TypeOK BY DEF TypeOK, Kinds
<1>2. Outcomes(votes) = {} BY DEF Outcomes
<1>3. Counted /\ UnderWay BY <1>2 DEF Counted, UnderWay
<1>4. Carrying /\ FirstIsDecision /\ Stands /\ Alone /\ Waking
  BY DEF Carrying, FirstIsDecision, Stands, Alone, Waking
<1> QED BY <1>1, <1>3, <1>4 DEF Inv

\* Where a click is tells the kind of the proposal.
LEMMA PlaceKind ==
  ASSUME TypeOK, NEW t \in Clicks
  PROVE  /\ at[t] \in {"vote", "read", "finalize"} => kind \in Decisions
         /\ at[t] \in {"set", "burn", "linked", "use", "sibling", "decide"}
              => kind = "directive"
         /\ at[t] = "wake" => kind = "message"
BY DEF TypeOK, PlacesOf, Kinds, Decisions, Voting

-----------------------------------------------------------------------------
(* The rows and clicks stay well formed.                                   *)

LEMMA TypeStep == ASSUME TypeOK, Carrying, [Next]_vars PROVE TypeOK'
<1> USE ApprovalAssumption DEF TypeOK, Go, End, Decided
<1>0. kind' = kind BY KindStays
<1>k. \A t \in Clicks :
        /\ at[t] \in {"vote", "read", "finalize"} => kind \in Decisions
        /\ at[t] \in {"set", "burn", "linked", "use", "sibling", "decide"}
             => kind = "directive"
        /\ at[t] = "wake" => kind = "message"
  BY PlaceKind
<1>p. /\ kind \in Decisions => {"vote", "read", "finalize"} \subseteq PlacesOf(kind)
      /\ kind = "directive" =>
           {"set", "burn", "linked", "use", "sibling", "decide"} \subseteq PlacesOf(kind)
      /\ kind = "message" => "wake" \in PlacesOf(kind)
  BY DEF PlacesOf, Decisions, Voting
<1>q. PlacesOf(kind)' = PlacesOf(kind) BY <1>0 DEF PlacesOf
<1>1. ASSUME NEW t \in Clicks, OpenDecision(t) PROVE TypeOK'
  BY <1>1, <1>p, <1>q DEF OpenDecision, proposal, history, Verdicts
<1>2. ASSUME NEW t \in Clicks, NEW f \in Founders, NEW v \in Verdicts, Vote(t, f, v)
      PROVE  TypeOK'
  <2>1. votes' \in [Founders -> Verdicts \cup {"none"}] BY <1>2 DEF Vote
  <2>2. added' \subseteq Verdicts BY <1>2, <2>1, OutcomeTypeNext DEF Vote
  <2> QED BY <1>2, <1>k, <1>p, <1>q, <2>1, <2>2 DEF Vote, proposal
<1>3. ASSUME NEW t \in Clicks, ReadVotes(t) PROVE TypeOK'
  BY <1>3, <1>k, <1>p, <1>q, OutcomeType DEF ReadVotes, proposal, history
<1>4. ASSUME NEW t \in Clicks, Finalize(t) PROVE TypeOK'
  BY <1>4, <1>q DEF Finalize, Carrying
<1>5. ASSUME NEW t \in Clicks, SetStatus(t) PROVE TypeOK'
  BY <1>5, <1>k, <1>p, <1>q DEF SetStatus, Carrying
<1>6. ASSUME NEW t \in Clicks, BurnTokens(t) PROVE TypeOK'
  BY <1>6, <1>q DEF BurnTokens, proposal, history
<1>7. ASSUME NEW t \in Clicks, LookUp(t) PROVE TypeOK'
  BY <1>7, <1>k, <1>p, <1>q DEF LookUp, proposal, history
<1>8. ASSUME NEW t \in Clicks, UseToken(t) PROVE TypeOK'
  BY <1>8, <1>k, <1>p, <1>q DEF UseToken, proposal, history
<1>9. ASSUME NEW t \in Clicks, UseSibling(t) PROVE TypeOK'
  BY <1>9, <1>k, <1>p, <1>q DEF UseSibling, proposal, history
<1>10. ASSUME NEW t \in Clicks, DecideByLink(t) PROVE TypeOK'
  BY <1>10, <1>q DEF DecideByLink, Carrying
<1>11. ASSUME NEW t \in Clicks, QueueWake(t) PROVE TypeOK'
  BY <1>11, <1>q DEF QueueWake, proposal, history
<1>12. ASSUME NEW t \in Clicks, Fail(t) PROVE TypeOK'
  BY <1>12, <1>q DEF Fail, proposal, history
<1>13. ASSUME NEW t \in Clicks, NEW v \in Verdicts, OpenProposal(t, v) PROVE TypeOK'
  BY <1>13, <1>p, <1>q DEF OpenProposal, Enter, proposal
<1>14. ASSUME NEW t \in Clicks, NEW v \in Verdicts, FollowLink(t, v) PROVE TypeOK'
  BY <1>14, <1>p, <1>q DEF FollowLink, Enter, proposal
<1>15. ASSUME NEW t \in Clicks, NEW v \in Verdicts, Answer(t, v) PROVE TypeOK'
  BY <1>15, <1>p, <1>q DEF Answer, clicks
<1>16. ASSUME NEW v \in Verdicts \cup {"pending"}, SetDirectly(v) PROVE TypeOK'
  BY <1>16, <1>q DEF SetDirectly, clicks
<1>17. CASE TimePasses BY <1>17, <1>q DEF TimePasses, proposal, clicks, history
<1>18. CASE UNCHANGED vars
  BY <1>18, <1>q DEF vars, proposal, clicks, history
<1> QED
  BY <1>1, <1>2, <1>3, <1>4, <1>5, <1>6, <1>7, <1>8, <1>9, <1>10, <1>11, <1>12,
     <1>13, <1>14, <1>15, <1>16, <1>17, <1>18 DEF Next

\* A click that is about to decide has a verdict.
LEMMA CarryStep == ASSUME TypeOK, Carrying, [Next]_vars PROVE Carrying'
<1> SUFFICES ASSUME NEW u \in Clicks,
                    at'[u] \in {"finalize", "set", "linked", "use", "sibling", "decide"}
             PROVE  want'[u] \in Verdicts
  BY DEF Carrying
<1> USE DEF TypeOK, Carrying, Go, End
<1>1. ASSUME NEW t \in Clicks,
             OpenDecision(t) \/ (\E f \in Founders, v \in Verdicts : Vote(t, f, v))
      PROVE  want'[u] \in Verdicts
  BY <1>1 DEF OpenDecision, Vote, Verdicts
<1>2. ASSUME NEW t \in Clicks, ReadVotes(t) PROVE want'[u] \in Verdicts
  BY <1>2, OutcomeType DEF ReadVotes
<1>3. ASSUME NEW t \in Clicks,
             Finalize(t) \/ SetStatus(t) \/ BurnTokens(t) \/ DecideByLink(t)
      PROVE  want'[u] \in Verdicts
  BY <1>3 DEF Finalize, SetStatus, BurnTokens, DecideByLink
<1>4. ASSUME NEW t \in Clicks,
             LookUp(t) \/ UseToken(t) \/ UseSibling(t) \/ QueueWake(t) \/ Fail(t)
      PROVE  want'[u] \in Verdicts
  BY <1>4 DEF LookUp, UseToken, UseSibling, QueueWake, Fail
<1>5. ASSUME NEW t \in Clicks, NEW v \in Verdicts,
             OpenProposal(t, v) \/ FollowLink(t, v) \/ Answer(t, v)
      PROVE  want'[u] \in Verdicts
  BY <1>5 DEF OpenProposal, FollowLink, Answer, clicks
<1>6. CASE (\E v \in Verdicts \cup {"pending"} : SetDirectly(v)) \/ TimePasses \/ UNCHANGED vars
  BY <1>6 DEF SetDirectly, TimePasses, vars, clicks
<1> QED BY <1>1, <1>2, <1>3, <1>4, <1>5, <1>6 DEF Next

-----------------------------------------------------------------------------
(* The votes decide.                                                       *)

\* Outcomes of the same votes are the same.
LEMMA OutcomesStay ==
  ASSUME kind' = kind, votes' = votes PROVE Outcomes(votes)' = Outcomes(votes)
BY DEF Outcomes

LEMMA CountStep == ASSUME Inv, [Next]_vars PROVE Counted' /\ UnderWay'
<1> USE DEF Inv, TypeOK, Go, End, Decided
<1>0. kind' = kind BY KindStays
<1>a. ASSUME kind \notin Voting PROVE Counted' /\ UnderWay'
  BY <1>0, <1>a DEF Counted, UnderWay
<1>b. ASSUME kind \in Voting, UNCHANGED votes PROVE Outcomes(votes)' = Outcomes(votes)
  BY <1>0, <1>b, OutcomesStay
<1>c. \A t \in Clicks : kind \in Voting => at[t] \in {"idle", "vote", "read", "finalize"}
  BY DEF PlacesOf, Voting, Decisions
<1>1. ASSUME NEW t \in Clicks, OpenDecision(t), kind \in Voting PROVE Counted' /\ UnderWay'
  <2>1. kind # "barred" BY <1>1 DEF Voting
  <2> QED BY <1>0, <1>1, <1>b, <2>1 DEF OpenDecision, Counted, UnderWay, proposal, history
<1>2. ASSUME NEW t \in Clicks, NEW f \in Founders, NEW v \in Verdicts, Vote(t, f, v),
             kind \in Voting
      PROVE  Counted' /\ UnderWay'
  <2>1. Outcomes(votes)' = Outcomes(votes') BY <1>0 DEF Outcomes
  <2>2. at'[t] \in {"read", "finalize"} BY <1>2 DEF Vote
  <2>3. UnderWay' BY <2>2 DEF UnderWay
  <2>4. kind = "yellow" => v \in Outcomes(votes')
    <3>1. kind = "yellow" => f \in Assigned /\ Assigned \subseteq Founders
      BY <1>2, ApprovalAssumption DEF Vote, Required
    <3>2. votes'[f] = v /\ v # "none" BY <1>2 DEF Vote, Verdicts
    <3> QED BY <3>1, <3>2 DEF Outcomes
  <2>5. Counted'
    BY <1>0, <1>2, <2>1, <2>4 DEF Vote, Counted, Voting, proposal
  <2> QED BY <2>3, <2>5
<1>3. ASSUME NEW t \in Clicks, ReadVotes(t), kind \in Voting PROVE Counted' /\ UnderWay'
  <2>1. Outcomes(votes)' = Outcomes(votes) /\ Outcomes(votes) \subseteq added
    BY <1>3, <1>b DEF ReadVotes, Counted, proposal, history
  <2>2. CASE Outcomes(votes) = {} /\ End(t)
    BY <1>0, <1>3, <2>1, <2>2 DEF ReadVotes, Counted, UnderWay, proposal, history
  <2>3. ASSUME NEW v \in Outcomes(votes), Go(t, "finalize", v) PROVE Counted' /\ UnderWay'
    BY <1>0, <1>3, <2>1, <2>3 DEF ReadVotes, Counted, UnderWay, proposal, history
  <2> QED BY <1>3, <2>2, <2>3 DEF ReadVotes
<1>4. ASSUME NEW t \in Clicks, Finalize(t), kind \in Voting PROVE Counted' /\ UnderWay'
  <2>1. Outcomes(votes)' = Outcomes(votes) BY <1>4, <1>b DEF Finalize
  <2>2. status' # "pending"
    BY <1>4 DEF Finalize, Carrying, Verdicts
  <2>3. UnderWay' BY <2>2 DEF UnderWay
  <2>4. Counted' BY <1>0, <1>4, <2>1 DEF Finalize, Counted
  <2> QED BY <2>3, <2>4
<1>5. ASSUME NEW t \in Clicks, kind \in Voting,
             SetStatus(t) \/ BurnTokens(t) \/ LookUp(t) \/ UseToken(t) \/ UseSibling(t)
             \/ DecideByLink(t) \/ QueueWake(t)
      PROVE  FALSE
  BY <1>5, <1>c DEF SetStatus, BurnTokens, LookUp, UseToken, UseSibling, DecideByLink,
     QueueWake
<1>6. ASSUME NEW t \in Clicks, Fail(t), kind \in Voting PROVE Counted' /\ UnderWay'
  <2>1. Outcomes(votes)' = Outcomes(votes)
    BY <1>6, <1>b DEF Fail, proposal, history
  <2>2. faults' # 0 BY <1>6 DEF Fail
  <2> QED BY <1>0, <1>6, <2>1, <2>2 DEF Fail, Counted, UnderWay, proposal, history
<1>7. ASSUME NEW t \in Clicks, NEW v \in Verdicts, kind \in Voting,
             OpenProposal(t, v) \/ FollowLink(t, v) \/ Answer(t, v)
      PROVE  FALSE
  BY <1>7 DEF OpenProposal, FollowLink, Answer, Voting
<1>8. ASSUME NEW v \in Verdicts \cup {"pending"}, SetDirectly(v), kind \in Voting PROVE Counted' /\ UnderWay'
  <2>1. Outcomes(votes)' = Outcomes(votes) BY <1>8, <1>b DEF SetDirectly
  <2>2. direct' BY <1>8 DEF SetDirectly
  <2>3. UnderWay' BY <2>2 DEF UnderWay
  <2>4. Counted' BY <1>0, <1>8, <2>1, <2>2 DEF SetDirectly, Counted, clicks
  <2> QED BY <2>3, <2>4
<1>9. ASSUME TimePasses \/ UNCHANGED vars, kind \in Voting PROVE Counted' /\ UnderWay'
  <2>1. Outcomes(votes)' = Outcomes(votes)
    BY <1>9, <1>b DEF TimePasses, vars
  <2> QED BY <1>0, <1>9, <2>1
          DEF TimePasses, vars, Counted, UnderWay, proposal, clicks, history
<1> QED
  BY <1>a, <1>1, <1>2, <1>3, <1>4, <1>5, <1>6, <1>7, <1>8, <1>9 DEF Next

-----------------------------------------------------------------------------
(* The first decision stands.                                              *)

LEMMA StandStep ==
  ASSUME Inv, [Next]_vars PROVE FirstIsDecision' /\ Stands' /\ Alone'
<1> USE DEF Inv, TypeOK, Go, End, Decided, FirstIsDecision, Stands
<1>0. kind' = kind BY KindStays
<1>k. \A t \in Clicks :
        /\ at[t] \in {"vote", "read", "finalize"} => kind \in Decisions
        /\ at[t] \in {"set", "burn", "linked", "use", "sibling", "decide"}
             => kind = "directive"
        /\ at[t] = "wake" => kind = "message"
  BY PlaceKind
<1>d. kind \in Decisions \/ kind = "message" => kind # "directive"
  BY DEF Decisions, Voting
<1>1. ASSUME NEW t \in Clicks,
             OpenDecision(t) \/ ReadVotes(t)
             \/ \E f \in Founders, v \in Verdicts : Vote(t, f, v)
      PROVE  FirstIsDecision' /\ Stands' /\ Alone'
  BY <1>0, <1>1, <1>d, <1>k DEF OpenDecision, ReadVotes, Vote, Alone, proposal, history
<1>2. ASSUME NEW t \in Clicks, Finalize(t)
      PROVE  FirstIsDecision' /\ Stands' /\ Alone'
  BY <1>0, <1>2, <1>d, <1>k DEF Finalize, Alone, Carrying, Verdicts
<1>3. ASSUME NEW t \in Clicks, SetStatus(t) \/ DecideByLink(t)
      PROVE  FirstIsDecision' /\ Stands' /\ Alone'
  <2>1. kind = "directive" /\ want[t] \in Verdicts
    BY <1>3, <1>k DEF SetStatus, DecideByLink, Carrying
  <2>2. ~overlap /\ ~direct => status = "pending" /\ first = "none"
    BY <1>3, <2>1 DEF Alone, SetStatus, DecideByLink
  <2>3. FirstIsDecision' /\ Stands'
    BY <1>0, <1>3, <2>1, <2>2 DEF SetStatus, DecideByLink, Verdicts
  <2>4. Alone' BY <1>0, <1>3, <2>1 DEF Alone, SetStatus, DecideByLink
  <2> QED BY <2>3, <2>4
<1>4. ASSUME NEW t \in Clicks,
             BurnTokens(t) \/ LookUp(t) \/ UseToken(t) \/ UseSibling(t) \/ Fail(t)
      PROVE  FirstIsDecision' /\ Stands' /\ Alone'
  <2>1. FirstIsDecision' /\ Stands'
    BY <1>0, <1>4 DEF BurnTokens, LookUp, UseToken, UseSibling, Fail, proposal, history
  <2>2. Alone'
    BY <1>0, <1>4
       DEF Alone, BurnTokens, LookUp, UseToken, UseSibling, Fail, proposal, history
  <2> QED BY <2>1, <2>2
<1>5. ASSUME NEW t \in Clicks, QueueWake(t) PROVE FirstIsDecision' /\ Stands' /\ Alone'
  BY <1>0, <1>5, <1>d, <1>k DEF QueueWake, Alone, proposal, history
<1>6. ASSUME NEW t \in Clicks, NEW v \in Verdicts, OpenProposal(t, v) \/ FollowLink(t, v)
      PROVE  FirstIsDecision' /\ Stands' /\ Alone'
  <2>1. FirstIsDecision' /\ Stands'
    BY <1>0, <1>6 DEF OpenProposal, FollowLink, Enter, proposal
  <2>2. ~overlap' => ~overlap /\ \A u \in Clicks \ {t} : at[u] = "idle"
    BY <1>6 DEF OpenProposal, FollowLink, Enter
  <2>3. \A u \in Clicks \ {t} : at'[u] = at[u]
    BY <1>6 DEF OpenProposal, FollowLink
  <2>4. ~overlap' => \A u, w \in Clicks : at'[u] # "idle" /\ at'[w] # "idle" => u = w
    BY <2>2, <2>3
  <2>5. at'[t] = "set" => status' = "pending"
    BY <1>6 DEF OpenProposal, FollowLink, proposal
  <2>6. at'[t] \in {"set", "linked"}
    BY <1>6 DEF OpenProposal, FollowLink
  <2>7. Alone' BY <2>2, <2>3, <2>4, <2>5, <2>6 DEF Alone
  <2> QED BY <2>1, <2>7
<1>7. ASSUME NEW t \in Clicks, NEW v \in Verdicts, Answer(t, v)
      PROVE  FirstIsDecision' /\ Stands' /\ Alone'
  BY <1>0, <1>7 DEF Answer, Alone, Verdicts
<1>8. ASSUME NEW v \in Verdicts \cup {"pending"}, SetDirectly(v)
      PROVE  FirstIsDecision' /\ Stands' /\ Alone'
  BY <1>0, <1>8 DEF SetDirectly, Alone, clicks
<1>9. CASE TimePasses \/ UNCHANGED vars
  BY <1>0, <1>9 DEF TimePasses, vars, Alone, proposal, clicks, history
<1> QED BY <1>1, <1>2, <1>3, <1>4, <1>5, <1>6, <1>7, <1>8, <1>9 DEF Next

\* A wake is for the one click that approved.
LEMMA WakeStep == ASSUME Inv, [Next]_vars PROVE Waking'
<1> USE DEF Inv, TypeOK, Go, End, Decided, Waking
<1>0. kind' = kind BY KindStays
<1>k. \A t \in Clicks :
        /\ at[t] \in {"vote", "read", "finalize"} => kind \in Decisions
        /\ at[t] \in {"set", "burn", "linked", "use", "sibling", "decide"}
             => kind = "directive"
        /\ at[t] = "wake" => kind = "message"
  BY PlaceKind
<1>d. kind \in Decisions \/ kind = "directive" => kind # "message"
  BY DEF Decisions, Voting
<1>1. ASSUME NEW t \in Clicks,
             OpenDecision(t) \/ ReadVotes(t)
             \/ \E f \in Founders, v \in Verdicts : Vote(t, f, v)
      PROVE  Waking'
  BY <1>1, <1>d, <1>k DEF OpenDecision, ReadVotes, Vote, proposal, history
<1>2. ASSUME NEW t \in Clicks, Finalize(t) \/ SetStatus(t) \/ DecideByLink(t) PROVE Waking'
  BY <1>0, <1>2, <1>d, <1>k DEF Finalize, SetStatus, DecideByLink
<1>3. ASSUME NEW t \in Clicks,
             BurnTokens(t) \/ LookUp(t) \/ UseToken(t) \/ UseSibling(t) \/ Fail(t)
      PROVE  Waking'
  BY <1>0, <1>3 DEF BurnTokens, LookUp, UseToken, UseSibling, Fail, proposal, history
<1>4. ASSUME NEW t \in Clicks, QueueWake(t) PROVE Waking'
  BY <1>0, <1>4, <1>k DEF QueueWake, proposal, history
<1>5. ASSUME NEW t \in Clicks, NEW v \in Verdicts, OpenProposal(t, v) \/ FollowLink(t, v)
      PROVE  Waking'
  BY <1>0, <1>5 DEF OpenProposal, FollowLink, proposal
<1>6. ASSUME NEW t \in Clicks, NEW v \in Verdicts, Answer(t, v) PROVE Waking'
  <2>1. woken = 0 /\ \A u \in Clicks : at[u] # "wake" BY <1>6 DEF Answer
  <2> QED BY <1>0, <1>6, <2>1 DEF Answer, clicks
<1>7. ASSUME NEW v \in Verdicts \cup {"pending"}, SetDirectly(v) PROVE Waking'
  BY <1>0, <1>7, <1>k DEF SetDirectly, clicks
<1>8. CASE TimePasses \/ UNCHANGED vars
  BY <1>0, <1>8 DEF TimePasses, vars, proposal, clicks, history
<1> QED BY <1>1, <1>2, <1>3, <1>4, <1>5, <1>6, <1>7, <1>8 DEF Next

-----------------------------------------------------------------------------
\* The invariant is inductive.
THEOREM Invariant == Spec => []Inv
<1>1. Init => Inv BY InitHolds
<1>2. Inv /\ [Next]_vars => Inv'
  <2> SUFFICES ASSUME Inv, [Next]_vars PROVE Inv' OBVIOUS
  <2>1. TypeOK' /\ Carrying' BY TypeStep, CarryStep DEF Inv
  <2> QED BY <2>1, CountStep, StandStep, WakeStep DEF Inv
<1> QED BY <1>1, <1>2, PTL DEF Spec

\* Proposals, votes, tokens and clicks stay well formed.
THEOREM TypeCorrect == Spec => []TypeOK
<1>1. Inv => TypeOK BY DEF Inv
<1> QED BY <1>1, Invariant, PTL

\* However clicks of any number of founders interleave, what is decided is what the
\* votes came to at one time, and the last vote is not left uncounted.
THEOREM VotesHaveDecided == Spec => []VotesDecide
<1>1. Inv => VotesDecide BY DEF Inv, VotesDecide, Counted, UnderWay
<1> QED BY <1>1, Invariant, PTL

\* The first decision stands, and an agent is woken once and for an approval.
THEOREM FirstStands == Spec => []DecidedOnce
<1>1. Inv => DecidedOnce BY DEF Inv, DecidedOnce, Stands, Waking
<1> QED BY <1>1, Invariant, PTL

-----------------------------------------------------------------------------
(***************************************************************************)
(* The handlers implement FounderVerdict.  Most steps change nothing that  *)
(* it speaks of; a vote is cast, a decision is taken while the proposal is *)
(* pending, or somebody has been excused.                                  *)
(***************************************************************************)
\* A click on a barred decision can only refuse it.
Refused ==
  kind = "barred" => \A t \in Clicks : at[t] = "idle" \/ (at[t] = "finalize" /\ want[t] = "rejected")

\* A deliverable has no column that anybody sets directly.
Undirected == kind = "message" => ~direct

Excused == direct \/ (kind = "directive" /\ overlap)

LEMMA RefusedStep == ASSUME Inv, Refused, [Next]_vars PROVE Refused'
<1> USE DEF Inv, TypeOK, Go, End, Refused
<1>0. kind' = kind BY KindStays
<1>1. ASSUME NEW t \in Clicks, kind = "barred",
             OpenDecision(t) \/ Finalize(t) \/ Fail(t)
      PROVE  Refused'
  BY <1>0, <1>1 DEF OpenDecision, Finalize, Fail
<1>2. ASSUME NEW t \in Clicks, kind = "barred",
             \/ ReadVotes(t) \/ SetStatus(t) \/ BurnTokens(t) \/ LookUp(t) \/ UseToken(t)
             \/ UseSibling(t) \/ DecideByLink(t) \/ QueueWake(t)
             \/ \E f \in Founders, v \in Verdicts : Vote(t, f, v)
             \/ \E v \in Verdicts : OpenProposal(t, v) \/ FollowLink(t, v) \/ Answer(t, v)
      PROVE  Refused'
  BY <1>2 DEF ReadVotes, SetStatus, BurnTokens, LookUp, UseToken, UseSibling, DecideByLink,
     QueueWake, Vote, OpenProposal, FollowLink, Answer
<1>3. CASE (\E v \in Verdicts \cup {"pending"} : SetDirectly(v)) \/ TimePasses \/ UNCHANGED vars
  BY <1>0, <1>3 DEF SetDirectly, TimePasses, vars, clicks, proposal
<1> QED BY <1>0, <1>1, <1>2, <1>3 DEF Next

LEMMA UndirectedStep == ASSUME Undirected, [Next]_vars PROVE Undirected' /\ (direct => direct')
<1>0. kind' = kind BY KindStays
<1> QED
  BY <1>0 DEF Undirected, Next, vars, proposal, history, OpenDecision, ReadVotes, Finalize,
     Vote, SetStatus, BurnTokens, LookUp, UseToken, UseSibling, DecideByLink, QueueWake, Fail,
     OpenProposal, FollowLink, Answer, SetDirectly, TimePasses

LEMMA OverlapStays == ASSUME [Next]_vars PROVE overlap => overlap'
BY DEF Next, vars, proposal, history, OpenDecision, ReadVotes, Finalize, Enter,
   Vote, SetStatus, BurnTokens, LookUp, UseToken, UseSibling, DecideByLink, QueueWake, Fail,
   OpenProposal, FollowLink, Answer, SetDirectly, TimePasses

\* What votes come to is the same to both.
LEMMA SameOutcomes ==
  ASSUME NEW v \in [Founders -> Verdicts \cup {"none"}], kind \in Voting
  PROVE  Verdict!Come(kind, v) = Outcomes(v)
<1> USE ApprovalAssumption
<1>1. CASE kind = "red"
  <2>1. CASE \E f \in Founders : v[f] = "none"
    BY <1>1, <2>1 DEF Verdict!Come, Outcomes
  <2>2. CASE ~ \E f \in Founders : v[f] = "none"
    BY <1>1, <2>2 DEF Verdict!Come, Verdict!Verdicts, Outcomes
  <2> QED BY <2>1, <2>2
<1>2. CASE kind # "red"
  BY <1>2 DEF Verdict!Come, Verdict!Verdicts, Outcomes, Verdicts
<1> QED BY <1>1, <1>2

\* Every step is one of FounderVerdict, or changes nothing there.
LEMMA VerdictStep ==
  ASSUME Inv, Refused, Undirected, [Next]_vars
  PROVE  [Verdict!VerdictNext]_(Verdict!verdictVars)
<1> USE DEF Inv, TypeOK
<1>0. kind' = kind /\ (Excused => Excused')
  BY KindStays, UndirectedStep, OverlapStays DEF Excused
<1>k. \A t \in Clicks :
        /\ at[t] \in {"vote", "read", "finalize"} => kind \in Decisions
        /\ at[t] \in {"set", "burn", "linked", "use", "sibling", "decide"}
             => kind = "directive"
        /\ at[t] = "wake" => kind = "message"
  BY PlaceKind
<1> DEFINE Same == UNCHANGED <<votes, added, status, woken>>
<1>1. ASSUME Same, Excused' = Excused PROVE UNCHANGED (Verdict!verdictVars)
  BY <1>0, <1>1 DEF Verdict!verdictVars, Excused
<1>2. ASSUME Same, Excused', kind # "message" PROVE Verdict!VerdictNext
  BY <1>0, <1>2 DEF Verdict!VerdictNext, Verdict!Overrule, Excused
<1>3. ASSUME status = "pending", status' \in Verdicts, UNCHANGED <<votes, added, woken>>,
             kind \in Voting => status' \in added, kind = "barred" => status' = "rejected"
      PROVE  Verdict!VerdictNext
  BY <1>0, <1>3 DEF Verdict!VerdictNext, Verdict!Decide, Verdict!Verdicts, Verdicts, Voting,
     Excused
<1>4. ASSUME NEW t \in Clicks, NEW f \in Founders, NEW v \in Verdicts, Vote(t, f, v)
      PROVE  Verdict!VerdictNext
  <2>1. kind \in Voting
    BY <1>4, <1>k DEF Vote, Refused, Decisions
  <2>2. votes' \in [Founders -> Verdicts \cup {"none"}]
    BY <1>4 DEF Vote
  <2>3. added' = added \cup Verdict!Come(kind, votes')
    BY <1>4, <2>1, <2>2, SameOutcomes DEF Vote
  <2>4. \A g \in Founders \ {f} : votes'[g] = votes[g]
    BY <1>4 DEF Vote
  <2>5. Verdict!Cast
    BY <1>4, <2>3, <2>4 DEF Vote, Verdict!Cast, proposal
  <2> QED BY <1>0, <2>5 DEF Verdict!VerdictNext, Excused
<1>5. ASSUME NEW t \in Clicks, Finalize(t) PROVE [Verdict!VerdictNext]_(Verdict!verdictVars)
  <2>1. CASE status = "pending"
    <3>1. status' = want[t] /\ want[t] \in Verdicts
      BY <1>5, <2>1 DEF Finalize, Decided, Carrying
    <3>2. kind \in Voting => want[t] \in added
      BY <1>5 DEF Finalize, Counted
    <3>3. kind = "barred" => want[t] = "rejected"
      BY <1>5 DEF Finalize, Refused
    <3> QED BY <1>3, <1>5, <2>1, <3>1, <3>2, <3>3 DEF Finalize
  <2>2. CASE status # "pending"
    BY <1>0, <1>1, <1>5, <2>2 DEF Finalize, Excused
  <2> QED BY <2>1, <2>2
<1>6. ASSUME NEW t \in Clicks, SetStatus(t) \/ DecideByLink(t) PROVE Verdict!VerdictNext
  <2>1. kind = "directive" /\ want[t] \in Verdicts /\ status' = want[t]
    BY <1>6, <1>k DEF SetStatus, DecideByLink, Carrying, Decided
  <2>2. UNCHANGED <<votes, added, woken, direct, overlap>>
    BY <1>6 DEF SetStatus, DecideByLink
  <2>3. CASE Excused
    BY <1>0, <2>1, <2>2, <2>3 DEF Verdict!VerdictNext, Verdict!Overrule, Excused
  <2>4. CASE ~Excused
    <3>1. status = "pending"
      BY <1>6, <2>1, <2>4 DEF Excused, Alone, SetStatus, DecideByLink
    <3> QED BY <1>3, <2>1, <2>2, <3>1 DEF Voting
  <2> QED BY <2>3, <2>4
<1>7. ASSUME NEW t \in Clicks,
             OpenDecision(t) \/ ReadVotes(t) \/ BurnTokens(t) \/ LookUp(t) \/ UseToken(t)
             \/ UseSibling(t) \/ Fail(t)
      PROVE  UNCHANGED (Verdict!verdictVars)
  BY <1>0, <1>1, <1>7 DEF OpenDecision, ReadVotes, BurnTokens, LookUp, UseToken, UseSibling, Fail,
     proposal, history, Excused
<1>8. ASSUME NEW t \in Clicks, NEW v \in Verdicts, OpenProposal(t, v) \/ FollowLink(t, v)
      PROVE  [Verdict!VerdictNext]_(Verdict!verdictVars)
  <2>1. Same /\ direct' = direct
    BY <1>8 DEF OpenProposal, FollowLink, proposal
  <2>2. CASE Excused' = Excused
    BY <1>1, <2>1, <2>2
  <2>3. CASE Excused' # Excused
    <3>1. Excused' /\ kind # "message"
      BY <1>0, <2>1, <2>3, KindStays DEF Excused
    <3> QED BY <1>2, <2>1, <3>1
  <2> QED BY <2>2, <2>3
<1>9. ASSUME NEW t \in Clicks, NEW v \in Verdicts, Answer(t, v) PROVE Verdict!VerdictNext
  BY <1>3, <1>9 DEF Answer, Decided, Voting
<1>10. ASSUME NEW t \in Clicks, QueueWake(t) PROVE Verdict!VerdictNext
  <2>1. kind = "message" /\ status = "approved" /\ woken = 0 /\ woken' = 1
    BY <1>10, <1>k DEF QueueWake, Waking
  <2> QED
    BY <1>0, <1>10, <2>1 DEF QueueWake, proposal, history, Verdict!VerdictNext, Verdict!Tell,
       Excused
<1>11. ASSUME NEW v \in Verdicts \cup {"pending"}, SetDirectly(v) PROVE Verdict!VerdictNext
  BY <1>0, <1>11 DEF SetDirectly, Verdict!VerdictNext, Verdict!Overrule, Excused
<1>12. CASE TimePasses \/ UNCHANGED vars
  BY <1>0, <1>1, <1>12 DEF TimePasses, vars, proposal, history, Excused
<1> QED BY <1>4, <1>5, <1>6, <1>7, <1>8, <1>9, <1>10, <1>11, <1>12 DEF Next

\* However clicks interleave, are repeated or die, a proposal is decided once, by what
\* the votes came to where there is a vote, what is barred is refused, and the agent is
\* told once.  The decision, directive and deliverable handlers.
THEOREM VerdictRefinement == Spec => ImplementsFounderVerdict
<1>1. Init => Verdict!Proposed /\ Refused /\ Undirected
  BY DEF Init, Verdict!Proposed, Refused, Undirected, Kinds, Decisions, Voting
<1>2. Inv /\ Refused /\ Undirected /\ [Next]_vars =>
        (Refused /\ Undirected)' /\ [Verdict!VerdictNext]_(Verdict!verdictVars)
  BY RefusedStep, UndirectedStep, VerdictStep
<1> QED
  BY <1>1, <1>2, Invariant, PTL DEF Spec, ImplementsFounderVerdict, Verdict!VerdictSpec

=============================================================================
