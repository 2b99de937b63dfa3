CONSTANTS
  Passages = {p1, p2, p3}
  SearchScores = {10, 30, 90}
  MaxQueries = 2
  Recall = 2
  Limits = {1, 2}
  Failed = Failed
  Unscored = Unscored
  NaN = NaN
  Verdicts = {40}
  FullAnswer = 45
  FullRelevance = 72
  FullCoverage = 55
  MinimumHits = 1
  PartialRelevance = 55
  PartialVector = 15
  TopK = 2
  Files <- FilesOfKeys
  JudgeScores = {60, 100}
  Skipped = Skipped
  Unavailable = Unavailable
  Minimum = 75
  FailClosed = FALSE
  AllowedDrop = 3
  Past = {50, 100}
SPECIFICATION EvaluationSpec
SYMMETRY Symmetry
INVARIANTS EvidenceIsWhatWasFound OutageCostsRelease JudgeWasThere SafetyHeld
