SPECIFICATION Spec
CONSTANTS
  Events = {e1}
  Calendars = {c1, c2}
  Editors = {d1, d2}
  Timers = {t1}
  Moderators = {m1}
  None = None
  MaxEdition = 3
  MaxRestarts = 1
SYMMETRY Symmetry
INVARIANT TypeOK
INVARIANT PublishedIsShown
INVARIANT DisconnectedIsWithdrawn
PROPERTY HiddenStaysHidden
PROPERTY ShownByChoice
PROPERTY ConnectedByEditor
PROPERTY SnapshotsInOrder
