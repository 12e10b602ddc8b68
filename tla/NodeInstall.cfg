SPECIFICATION FairSpec
CONSTANTS
  h1 = h1  h2 = h2
  Host = {h1, h2}
  Run = {r1, r2}
  Token = {t1, t2}
  Credential = {c1, c2}
  None = None
  Found <- MCFound
  Polls = 1
INVARIANTS ConnectedIsHeard OneHostIsHeard
PROPERTIES InstallFollowsLifecycle AcceptedIsHeard
