\* Up to three messages of up to four lines, traces, notes and summaries.
SPECIFICATION LogSpec
CONSTANTS
  MaxMessages = 3
  MaxDetails = 1
  MaxTraces = 1
INVARIANTS
  TameLogsAreParsed
  TameLogsAreShown
  VerdictIsScalacs
\* a log is parsed once
CHECK_DEADLOCK FALSE
