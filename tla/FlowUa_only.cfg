SPECIFICATION UaSpec
CONSTANTS
  Names = {"user-agent", "content-length", "other"}
  MaxLength = 1
  MaxValue = 2
  UaSize = 3
INVARIANTS UaOnly
