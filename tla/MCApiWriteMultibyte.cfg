SPECIFICATION Spec
CONSTANT Sentences <- MultibyteSentences
INVARIANT WellFormed
CHECK_DEADLOCK FALSE
