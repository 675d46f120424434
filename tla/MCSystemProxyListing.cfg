CONSTANTS
  off = off
  direct = direct
  port1 = port1
  port2 = port2
  Partial = Partial
  NoHint = NoHint
  NoProxy = off
  Originals = {off, direct}
  Endpoints = {port1}
  Corruption = FALSE
  SessionEndHook = FALSE
SPECIFICATION Spec
PROPERTY LetGoOnlyRestored
