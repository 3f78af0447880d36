SPECIFICATION MCSpec
CONSTANTS
  Handlers = {"h1", "h2"}
  Rosters <- mcRosters
  MaxRequests = 3
  WebChats = {"web"}
  BotChats = {"bot"}
  Managers = {"m1"}
  OldChats = {"web"}
  MaxInquiries = 2
  MaxMessages = 3
  MaxFaults = 1
  MaxQuestions = 1
  private = private
  group = group
  ann = ann
  t1 = t1
  t2 = t2
  m1 = m1
  m2 = m2
  None = None
  Chat <- mcChat
  Sender <- mcSender
  User = {ann}
  Task = {t1, t2}
  Msg = {m1, m2}
  Installations <- mcInstallations
  MaxRows = 2
INVARIANTS AnsweredWasTold MailedOncePerReply AlertReachesWhoIsDue AcceptedChatWelcomed
PROPERTIES NoticeIsDecided ListsCatchUp
CHECK_DEADLOCK FALSE
