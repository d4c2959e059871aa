SPECIFICATION FairSpec
CONSTANTS
  NumWakes = 2
  Roles = {"chief-of-staff"}
  RoleOf <- MCRoleOf
  Directives <- MCDirectives
  Beats = {h1, h2}
  Pollers = {p1, p2}
  DrainLimit = 2
  ClaimLimit = 1
  MaxCrashes = 1
INVARIANTS TypeOK ClaimsExclusive
PROPERTIES ImplementsWakeLedger PendingIsTaken
