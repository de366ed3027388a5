SPECIFICATION FairSpec
CONSTANTS
  e1 = e1
  e2 = e2
  g1 = g1
  g2 = g2
  x1 = x1
  x2 = x2
  r1 = r1
  r2 = r2
  None = none
  Emails = {e1, e2}
  Subjects = {g1, g2}
  MailOf <- Mails
  Secrets = {x1}
  Requests = {r1, r2}
  MaxFaults = 1
INVARIANTS
  PasswordIsKept
  SessionIsVouched
  SubjectKeepsAccount
PROPERTIES
  GoogleGetsIn
CHECK_DEADLOCK FALSE
