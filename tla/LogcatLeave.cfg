\* One subscriber whose Java callback throws while events are waiting in its channel.
CONSTANTS
  Writer = {w1, w2}
  Reader = {r1}
  Console = Console
  Buffer = 1
  MaxLog = 4
SPECIFICATION FairSpec
PROPERTY UnSubscribeCloses
CHECK_DEADLOCK FALSE
