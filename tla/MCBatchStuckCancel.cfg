SPECIFICATION FairSpec
CONSTANTS
  Gateway = gateway
  Commands = {shell}
  Clients = {c1}
  Uploads = {f1}
  SideFiles = {s1, s2}
  LinesPerUpload = 1
  Lines <- MCLines
  None = None
  NumJobs = 1
  MaxRequests = 2
  MaxRuns = 0
  MaxMishaps = 0
PROPERTIES
  CancellingEnds
