\* Two collectors: polls, Poll Now requests, failures and edits, then quiet.
SPECIFICATION FairSpec
CONSTANTS
  NULL = NULL
  CollectorIds = {1, 2}
  RowInputs <- PollInputs
  MaxVersion = 1
  MaxEdits = 4
INVARIANT Inv
PROPERTIES
  ShowsSnapshots
  EventuallyFresh
