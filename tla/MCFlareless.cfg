SPECIFICATION Spec
CONSTANTS
  MaxImages = 3
  Size = 2
  MaxGray = 1
  Answers = {"1", "0", "number", "word", "eof"}
INVARIANTS WrittenIsMinimum AnswersCount
