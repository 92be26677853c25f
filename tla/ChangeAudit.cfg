SPECIFICATION Spec
INVARIANTS
  Recorded
  PassesAreEarned
  FailuresAreReal
  NotApplicableIsTrue
  FullReadDecides
CONSTANTS
  main = main dev = dev none = none
  ro = ro pro = pro ff = ff
  c1 = c1 c2 = c2
  ann = ann bob = bob key = key team = team
  Branch <- MCBranch
  NoBranch = none
  Restriction <- MCRestriction
  TypeOf <- MCTypeOf
  Exempt <- MCExempt
  Principal <- MCPrincipal
  Group <- MCGroup
  Members <- MCMembers
  Condition <- MCCondition
  Exemption <- MCExemption
  Matcher <- MCMatcher
  ExemptMatcher <- MCExemptMatcher
  Hooks <- MCHooks
  Allowed <- MCAllowed
  MaxBypass = 1
  MaxStale = 0
  Worlds <- MCWorlds
