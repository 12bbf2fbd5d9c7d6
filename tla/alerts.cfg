SPECIFICATION Spec
CONSTANTS
  Events = {e1, e2, e3}
  Same = {e1, e2, e3}
  Other = {}
  Keys = {"job"}
  About <- KeyOf
  Allowed <- BothOpen
  Cooldown = 2
  Backoff = 1
  TTL = 2
  MaxTime = 3
  NoEvent = NoEvent
  Never = Never
SYMMETRY Symmetry
INVARIANTS OneDelivery Spaced BoundedSilence
CHECK_DEADLOCK FALSE
