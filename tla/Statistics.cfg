\* Four messages, two slots, channels of two places; any of the messages may
\* begin before the channels are made.
SPECIFICATION FairSpec
CONSTANTS
  Mail = {m1, m2, m3, m4}
  MaxOutcoming = 2
  STATISTICS_CHANNELS_SIZE = 2
INVARIANTS
  SendersInRange
  CountersAgree
PROPERTIES
  CountingEnds
CHECK_DEADLOCK FALSE
