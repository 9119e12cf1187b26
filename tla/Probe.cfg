SPECIFICATION ProbeSpec
CHECK_DEADLOCK FALSE
INVARIANTS
  UsesWhatIsThere
  ReleasedOnce
