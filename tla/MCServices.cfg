CONSTANTS
  a1 = a1
  a2 = a2
  a3 = a3
  o1 = o1
  o2 = o2
  p1 = p1
  p2 = p2
  m1 = m1
  s1 = s1
  s2 = s2
  b1 = b1
  b2 = b2
  n1 = n1
  n2 = n2
  mc = mc
  vol = vol
  Attempts = {a1, a2, a3}
  Threshold = 2
  HistoryCheck = 2
  Passwords = {1, 2}
  LoginCodes = {11}
  MailCodes = {21}
  None = None
  Calls = {a1, a2, a3}
  Mails = {m1}
  Sids = {s1, s2}
  States = {o1, o2}
  Source <- MCSource
  Mail <- MCMail
  Nobody = Nobody
  Workers = {a1, a2, a3}
  MaxStarts = 5
  Nil = Nil
  Remote = Remote
  Loaders = {s1}
  Operators = {o1, o2}
  Plugins = {p1, p2}
  Default = Default
  NoRow = NoRow
  Editors = {o1, o2}
  Names = {n1}
  Urls = {n1}
  Earlier = {s1, s2}
  Sockets = {s1}
  MaxLines = 5
  Cap = 4
  Tails = {0, 1, 2}
  NoImage = NoImage
  Pullers = {o1, o2}
  Tags = {n1, n2}
  Images = {1, 2}
  NoBox = NoBox
  Clients = {o1, o2}
  Boxes = {b1, b2}
  BoxNames = {n1, n2}
  Nets = {mc}
  Vols = {vol}
  Protected = {mc}
  InStack = {b1, mc, vol}
  People = {b1, b2}
  Roles = {n1, n2}
  Visits = {o1, o2}
  NoRecord = NoRecord
  Channels = {b1}
  Addresses = {n1, n2}
  Senders = {s1}
  Keepers = {o1, o2}
  Asked <- MCLists
  PageSize = 1
  NoChannel = NoChannel
  GoneChannel = GoneChannel
  Savers = {o1, o2}
  First = First
  Elsewhere = Elsewhere
  Blank = Blank
  NoUser = NoUser
  Uploaders = {o1, o2}
  UploadNames = {n1, n2}
  Chunks = 2
  Seconds = 2
  Runs = 2
  Tries = 3
  MaxTrouble = 3
  NoResult = NoResult
SPECIFICATION ServicesSpec
SYMMETRY Sym
INVARIANTS
  ServicesTypeOK
  LockExact
  
  SocialAccountsBound
  StartsSafely
  RegistryFollows
  InstallsShielded
  SourcesKept
  
  
  ListingsAreOfTheTime
  RightsKept
  OutcomesKept
PROPERTIES
  LockLiftedFromInside
  SpentOnce
  
CHECK_DEADLOCK FALSE
