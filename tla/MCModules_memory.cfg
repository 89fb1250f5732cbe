SPECIFICATION Spec
CONSTANTS
  m1 = m1
  m2 = m2
  m3 = m3
  m4 = m4
  a = a
  b = b
  b1 = b1
  b2 = b2
  c1 = c1
  NoMail = NoMail
  NoId = NoId
  Mails = {m1, m2, m3, m4}
  MailUsers = {a, b, NoId}
  TakesTurns = {a}
  Fragile = {m2}
  Large = {m1}
  Short = {m3}
  MayMail <- MCMayMail
  None = None
  Browsers = {b1, b2}
  Clients = {c1}
  MayAskFor <- MCMayAskFor
  BigPage = 3
  MaxChanges = 1
CHECK_DEADLOCK FALSE
INVARIANT MailboxInv PresenceInv
PROPERTY AnswersCome ReportsGoOn
