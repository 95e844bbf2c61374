SPECIFICATION Spec
CONSTANTS
  Files <- MCFiles
  Payloads <- MCPayloads
  Infinity = 1000
INVARIANTS
  SharedFileAccepted
  MessagesAccepted
PROPERTIES
  AcceptedLoadRuns
