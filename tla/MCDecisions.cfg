CONSTANTS
  NodeCalls <- MockCalls
  KeyOf <- MockKeys
  Marked <- MockedCalls
  SpanKey <- SpanKeys
  Below <- SpansBelow
  TopSpan = 0
  NoKey = ""
  Overrides <- MockOverrides
  Presents <- Outputs
  Sizers <- CacheSizers
  TypeOf <- CacheTypeOf
  Parts <- CacheParts
  Failing = {"f"}
  Exports <- SomeExports
  Envelope = 2
  Separator = 1
  MaxSpans = 2
  MaxBytes = 8
  MaxRaw = 10
  None = None
  Unknown = Unknown
  nil = nil
  Nodes <- RecordedNodes
  Root = "r"
  ParentOf <- Parents
  Identity <- Identities
  InputOf <- Recordings
  Plans <- RecordedPlans
  MaxCalls = 4
  CallKeys <- Identifiers
  Shapes <- CallShapes
  NoInput = "none"
  Payloads <- SomePayloads
  Structural = {9}
  High = 15
  Low = 10
  Stub <- StubValue
  Note <- NoteValue
SPECIFICATION MCSpec
INVARIANTS
  MocksExact
  SelectiveExact
  TrimExact
  BatchesExact
  CapExact
  CodeChangeExact
  SizingEnds
CHECK_DEADLOCK FALSE
