CONSTANTS
  Domains = {d1}
  Callers = {c1}
  MaxSize = 1
  Edited = {d1}
  MaxEdits = 1
  None = None
SPECIFICATION FairSpec
PROPERTY ComplianceFollowsFile
