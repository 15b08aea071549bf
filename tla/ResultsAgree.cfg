SPECIFICATION ResultsSpec
CONSTANT Tables <- Tables3
INVARIANT RecordsTellTheSame
