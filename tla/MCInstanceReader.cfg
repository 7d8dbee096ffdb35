SPECIFICATION Spec
CONSTANTS
  Word = Word
  Int32Min <- MCInt32Min
  Int32Max <- MCInt32Max
  Inspected = 2
  Contents <- MCContents
  Rereads <- MCRereads
  Reads = 2
INVARIANTS
  ObjectIsEmptyOrAnInstance
  AcceptsTheFormats
  LoadedObjectIsTheFile
CHECK_DEADLOCK FALSE
