CONSTANTS
  Pusher = {p1, p2}
  Popper = {c1, c2}
  Timer = {w}
  Trier = {t}
  Items = 4
SPECIFICATION QueueFairSpec
CHECK_DEADLOCK FALSE
INVARIANTS DifferentElements NoLostWakeup
PROPERTIES AllTaken
