SPECIFICATION Spec
CONSTANTS
  Slots = {s1, s2}
PROPERTIES
  PressEndsTextBridge
