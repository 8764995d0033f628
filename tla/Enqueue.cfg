SPECIFICATION Spec
CONSTANTS
  v1 = v1
  v2 = v2
  short = short
  list = list
  video = video
  bare = bare
  go = go
  sub = sub
  site = site
  user = user
  pass = pass
  code = code
  mp4 = mp4
  Form = Form
  Extra = Extra
  None = None
  Urls <- MCUrls
  Domains <- MCDomains
  Chain <- MCChain
  Dumps <- MCDumps
  Fields <- MCFields
  Secrets <- MCSecrets
  Lists <- MCLists
  Stored <- MCStored
  Pairs <- MCPairs
  Visits = {v1, v2}
  MaxEdits = 2
  MaxPosts = 2
SYMMETRY Symmetry
INVARIANTS
  TypeOK
  CredentialsFit
  NoneRetired
  Accounted
PROPERTIES
  FailedStay
CHECK_DEADLOCK FALSE
