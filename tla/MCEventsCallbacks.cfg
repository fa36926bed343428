CONSTANTS
  Threads = {t1}
  Events = {e1, e2, e3}
  Operations = {"usual", "rights"}
  MaxDepth = 3
  NoThread = NoThread
  Subscribers = {s1, s2, s3, s4}
  Boot <- MCLeaverFirst
  Joiners = {s3}
  Leavers = {s1, s3}
SPECIFICATION FairEventsSpec
PROPERTIES
  ImplementsDelivery
  EventuallyDelivered
CHECK_DEADLOCK FALSE
