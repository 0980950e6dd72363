SPECIFICATION Spec
CONSTANTS
  Families <- MCFamilies
INVARIANTS
  RawRoundTrips NarrativeOfItsLine BareStreamComplete EntriesInPlace
  ReportsRoundTrip LimitsOfItsReport
CHECK_DEADLOCK FALSE
