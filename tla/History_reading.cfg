\* Three messages over four ticks, one or two to a page; a response has
\* room for three short ones, for one and a half, never for a long one.
CONSTANTS
  Messages <- Ids
  Texts <- AllTexts
  MaxClock = 3
  Retention = 1
  From = 1
  To = 3
  Limits = {1, 2}
  AroundBefore = 1
  AroundAfter = 2
  Cap = 3
  Nothing = Nothing
SPECIFICATION Spec
CHECK_DEADLOCK FALSE
INVARIANTS PagesAscend ReadingIsComplete ContextHasNoGap
PROPERTIES PagingEnds
