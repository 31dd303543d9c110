\* Direct mode; messages of up to four recipients, a limit of three.
SPECIFICATION Spec
CONSTANTS
  r1 = r1
  r2 = r2
  r3 = r3
  r4 = r4
  r5 = r5
  r6 = r6
  r7 = r7
  good = good
  goodUpper = goodUpper
  loop = loop
  aliased = aliased
  circle = circle
  nullmx = nullmx
  localUpper = localUpper
  h1 = h1
  h2 = h2
  h3 = h3
  localhost = localhost
  NoHost = NoHost
  EmptyRecord = EmptyRecord
  RootRecord = RootRecord
  NoServer = NoServer
  RelayServer = RelayServer
  Recipient = {r1, r2, r3, r4, r5, r6, r7}
  Domain = {good, goodUpper, loop, aliased, circle, nullmx, localUpper, localhost}
  DomainOf <- MCDomainOf
  Folded <- MCFolded
  Answers <- MCAnswers
  LocalNames = {localhost}
  Messages <- MCMessages
  MaxRecipients = 3
  MaxAttempt = 3
  RelayModeEnabled = FALSE
INVARIANTS
  AllOrNothing
  OneCopyEach
  EntriesWellAimed
  EveryPreferenceTried
CHECK_DEADLOCK FALSE
