\* Two rows behind every page and two requests under way at a time: enough for
\* a load to overtake a change, for a second click, and for a batch of two of
\* which one fails.  Of three alerts an answer holds the two newest and the
\* flyout one: an alert leaves the flyout for each of the three reasons.
SPECIFICATION FewRowsSpec

CONSTANTS
  Ids = {1, 2, 3}
  Few = {1, 2}
  AlertPanels = {"Attention", "Notifications"}
  MaxReqs = 2
  ListLimit = 2
  FlyoutSize = 1

INVARIANTS
  TypeOK
  ScreenIsCurrent
  FlagsMatchRequests
  AckShownIsStored
  OnlyChangedRolesWritten

PROPERTIES
  DroppedIsAcknowledged
