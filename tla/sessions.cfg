SPECIFICATION Spec
CONSTANTS
  f1 = f1
  f2 = f2
  shell = shell
  page = page
  l1 = l1
  k1 = k1
  s1 = s1
  Family <- TwoFamilies
  Query <- Calls
  Shell <- Shells
  SignIn <- OneSignIn
  Link <- OneLink
  Setter <- OneSetter
  MaxTime = 1
SYMMETRY Interchangeable
INVARIANTS SessionsTypeOK OneLiveUnlessForked ResetEndsSessions
PROPERTIES OverIsOver DroppedIsExplained
