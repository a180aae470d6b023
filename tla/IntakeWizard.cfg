CONSTANTS
  N = 3
  Critical <- MCCritical
  Suggestable <- MCSuggestable
  MaxExtra = 2
SPECIFICATION Spec
INVARIANTS TypeOK NothingIsBlank CheckpointIsCurrent
PROPERTIES AnswersGoWhereShown ImplementsForm

CHECK_DEADLOCK FALSE
