SPECIFICATION PlanSpec
CONSTANTS
  Keys = {1, 2, 3, 4, 5}
  Values = {"followA", "followB", "blockA", "post"}
  Layerings <- Shapes
  MaxBatch = 2
  CollectionOf <- Collections
  TypeOf <- Types
  SubjectOf <- Subjects
  Orders <- BothWays
  HeldToOne = {"block", "follow"}
INVARIANTS TreeIsItsRecordsUnlessEmptied StoreIsTheTree OneRecordPerSubject EntryAndAnswerAreTrue
