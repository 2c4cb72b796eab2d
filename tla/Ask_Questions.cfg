CONSTANTS
  v1 = v1
  v2 = v2
  v3 = v3
  v4 = v4
  c1 = c1
  c2 = c2
  Videos = {v1, v2, v3, v4}
  Channels = {c1, c2}
  Index <- MCIndex
  ChannelOf <- MCChannelOf
  Unwatched = {v2}
  Question <- MCQuestion
  SearchCandidates = 6
  SemanticCandidates = 4
  AnswerMaxSources = 3
  AnswerMaxSourcesPerVideo = 3
  AnswerBreadthSources = 2
  CoverageMaxVideos = 3
  MaxMatchesPerVideo = 3
  Replies <- MCReplies
  Spelling <- MCSpelling
  Meanings <- MCMeanings
  Deployments <- MCDeployments
  MCPVideos = 2
  MaxTokens = 1
  MaxFaults = 1
  MaxDeletes = 1
SPECIFICATION Spec
INVARIANTS
  ShownIsListed
  BreadthKept
  HonouredOrTold
  NothingMeansNothing
CHECK_DEADLOCK FALSE
