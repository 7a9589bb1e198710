\* The main thread and two others that come, wait for each other and go; while
\* there are two, the second may be cancelled, either way.
CONSTANTS
  N = 3
  Cancellable = {2}
  Async = {2}
  CancelRoom = 2
SPECIFICATION FairSpec
INVARIANTS ThreadInv JoinResult EndIsRight
PROPERTIES SchedulerProgresses JoinCompletes
