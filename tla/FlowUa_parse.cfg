SPECIFICATION UaSpec
CONSTANTS
  Names = {"connection", "content-length", "transfer-encoding"}
  MaxLength = 2
  MaxValue = 3
  UaSize = 3
INVARIANTS UaTypeOK MarkedIn AssertionsHold HeldConsumed SearchedAfterUrl BeginsWithLast
PROPERTIES CallOrder
