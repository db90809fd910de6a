\* The components around sessions, tables and guilds, each in its own instance.
SPECIFICATION ServicesSpec
CONSTANTS
  Payer = {p1, p2}
  Order = {o1}
  NoOrder = NoOrder
  Purchase = {r1, r2}
  CardDays = 2
  MaxBegun = 2
  MaxDue = 3
  Player = {u1, u2}
  NoPlayer = NoPlayer
  FriendMaxNum = 2
  MaxAsks = 5
  Challenger = {h1, h2}
  Monster = {m1, m2}
  MaxBosses = 2
  MaxSweep = 2
  LoginServer = {s1}
  Link = {k1, k2, k3}
  NoLink = NoLink
  LoginId = {i1, i2}
  LoginConns = 2
  HallConns = 2
  MaxBacklog = 3
  Account = {a1, a2, a3}
  NoAccount = NoAccount
  VerifyAccount = TRUE
  MaxRequests = 3
  Key = {e1, e2, e3, e4}
  NoKey = NoKey
  MaxNum = 3
  MaxValue = 2
  TopNum = 2
  MaxUnranked = 1
  MaxIntruders = 1
  Sender = {t1, t2}
  NoSender = NoSender
  Reader = {q1, q2}
  MailMaxCount = 1
  MaxItems = 1
  MaxMails = 3
  GmCall = {g1, g2}
  Heartbeat = {b1, b2}
  MaxSysMails = 3
INVARIANTS
  ServicesTypeOK
  OrderCreditedOnce
  CardHolderIsServed
  CardMailsAddUp
  FriendshipsAreMutual
  BossFallsOnce
  LinksAreKnown
  AgentsReachHalls
  ListIsOfTheConnected
  HallKnowsTheList
  ToldUidsHold
  BindingsHold
  TopIsTold
  RolesAreRanked
  MailsWithinLimit
  NewMailIsTold
  NewMailIsWhole
  SysMailReaches
  SysMailTwiceAtMost
PROPERTY KeepsRanking
\* The bounds end every behaviour of these components.
CHECK_DEADLOCK FALSE
