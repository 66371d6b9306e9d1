SPECIFICATION FairSpec
CONSTANTS
  Events = {e1}
  Calendars = {c1}
  Editors = {d1}
  Timers = {t1}
  Moderators = {m1}
  None = None
  MaxEdition = 2
  MaxRestarts = 1
PROPERTY DueIsServed
