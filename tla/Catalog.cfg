SPECIFICATION Spec
CONSTANTS
  Records <- MCRecords
  Fan = 2
  Names = {4, 5, 7, 8}
  MaxParts = 2
INVARIANTS TypeOK PathFindsItsRecord ListingIsTheFolder SearchIsDirect
PROPERTIES QueriesEnd
