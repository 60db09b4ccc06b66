CONSTANTS
  e1 = e1
  e2 = e2
  Events <- MCEvents
  None = None
  WithWebhook <- MCWithWebhook
  RetryDelay <- MCRetryDelay
  BatchSize = 2
  MaxNow = 3
SPECIFICATION FairSpec
PROPERTY EveryEventIsSent
