SPECIFICATION RunSpec
INVARIANTS EngineIsImported FilesAreRestored LogRowsWritten DuplicatesCollected
PROPERTY RequestsReturn
