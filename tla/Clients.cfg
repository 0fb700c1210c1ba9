\* Two clients, two messages of two bytes each, in every language.
CONSTANTS
  Client = {a, b}
  Messages = 2
  Size = 2
SPECIFICATION FairSpec
INVARIANTS AllTypeOK ReportTruthful ReportsFitResults LinesAreWhole
PROPERTIES CountedReplyIsOwn Ends
CHECK_DEADLOCK FALSE
