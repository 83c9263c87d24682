SPECIFICATION Spec
CONSTANTS
  MaxUrl = 28
  MaxSha = 4
  MaxMetric = 3
  Chars <- MCChars
  DeviceIds <- MCDeviceIds
  TopicNames <- MCTopics
  Objects <- MCObjects
  RawUrls <- MCUrls
  Requests <- MCRequests
  Noise <- MCNoise
INVARIANTS AnswersRequests CommandsUnderstood JobsHaveWholeUrls
