\* Two downloads of one URL whose content changes.
CONSTANTS
  MaxDownloads = 2
  URLs = {"u"}
  Contents <- MCContents
  Size <- MCSize
  MimeType <- MCMimeType
  Bad = {"bad"}
  Configs <- MCConfigs
  Width = 4
  Shift = 1
SPECIFICATION Spec
INVARIANT VerdictsHaveEvidence
INVARIANT ServedWasJudged
INVARIANT PageTruthful
INVARIANT FilesAccounted
PROPERTY PassedByPolicy
PROPERTY PageEnds
CHECK_DEADLOCK FALSE
