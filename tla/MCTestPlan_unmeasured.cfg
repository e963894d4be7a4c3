SPECIFICATION Spec
CONSTANTS
  Configs <- SomeConfigs
  Values = {0, 3}
  MailboxPayload = 10
  InboxOffset = 20
  DefaultWindow = 4
  DefaultSize = 6
INVARIANT
  UnmeasuredMarked
