\* Connect and disconnect beside each other, a profile that listens on 7890 itself.
CONSTANTS
  Task = {t1, t2}
  Command = {"START", "STOP"}
  NKeys = 1
  Working = {"http"}
SPECIFICATION Spec
SYMMETRY Symmetry
INVARIANT ServiceBehindProxy
