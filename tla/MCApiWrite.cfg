SPECIFICATION Spec
CONSTANT Sentences <- AsciiSentences
INVARIANTS WellFormed DeviceReadsBack
PROPERTY Returns
CHECK_DEADLOCK FALSE
