SPECIFICATION TenantsSpec
CONSTANTS
  ann = ann
  bob = bob
  i1 = i1
  r1 = r1
  r2 = r2
  a1 = a1
  a2 = a2
  k1 = k1
  k2 = k2
  k3 = k3
  q1 = q1
  q2 = q2
  s1 = s1
  g1 = g1
  g2 = g2
  Person <- Both
  Founder = ann
  Invite <- OneInvite
  Form <- TwoForms
  Acceptance <- TwoAccepts
  Slug <- OneSlug
  Key <- ThreeKeys
  Request <- TwoRequests
  Run <- TwoRuns
  MaxInUse = 1
CHECK_DEADLOCK FALSE
INVARIANTS TenantsTypeOK MembersExplained KeysExplained SeedIsExplained
