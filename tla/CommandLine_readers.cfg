SPECIFICATION Spec
CONSTANTS
  Vocabulary <- MCVocabulary
  Rare <- MCRare
  Answers <- MCAnswers
  MaxLength = 3
INVARIANTS TranslationKeepsReading ReadersAgree KeyIgnoresFlagPlace
CHECK_DEADLOCK FALSE
