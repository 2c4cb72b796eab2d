SPECIFICATION Spec
CONSTANTS
  Uploads <- MCUploads
  OnStreams <- MCOnStreams
  Existing <- MCExisting
  Short <- MCShort
  Airing <- MCAiring
  Early <- MCEarly
  Datings <- MCDatings
  Wallable <- MCWallable
  MaxProbes = 1
  DeadScanThreshold = 2
  MaxEvents = 1
CHECK_DEADLOCK FALSE
INVARIANTS
  OldStaysOut
PROPERTIES
  NewIsNotBuried
  OtherRequestSurvives
  DeadOnlyInARow
  NoHammering
  RequestIsAnswered
  UploadIsOffered
  ParkedComesBack
