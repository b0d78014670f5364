SPECIFICATION FairSpec
CONSTANTS
  Gateway = gateway
  Commands = {shell}
  Clients = {c1}
  Uploads = {f1}
  SideFiles = {s1, s2, s3, s4}
  LinesPerUpload = 2
  Lines <- MCLines
  None = None
  NumJobs = 2
  MaxRequests = 2
  MaxRuns = 1
  MaxMishaps = 1
INVARIANTS
  TypeOK
  CountsAreDownloadable
  CompletedIsWhole
  RunnersOwnTheirJob
  SharedInputsStay
PROPERTIES
  TerminalIsFinal
  QueueDrains
  InProgressEnds
