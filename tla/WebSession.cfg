SPECIFICATION FairSpec
CONSTANTS
  Session = {s1, s2, s3}
  None = None
INVARIANTS WebTypeOK StaleIsExplained
PROPERTIES DeadSessionLeaves LogoutLeaves
