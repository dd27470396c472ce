\* One cell and one control message.
SPECIFICATION Spec
CONSTANTS
  Gnbs = {1}  Horizon = 3  Period = 1  Quiet = {}  MaxMessages = 1  MaxLosses = 0
PROPERTY TimeNeverGoesBack
CHECK_DEADLOCK FALSE
