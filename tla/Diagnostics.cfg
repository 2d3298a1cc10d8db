CONSTANTS
  Hubs = {left, right}
  Readers = {reader}
  RecordLimit = 3
  Retention = 1
  MaxPeerRecords = 2
  BatchSize = 1
  NoNumber = NoNumber
  Queries <- MCQueries
  MaxSamples = 1
  MaxSessions = 1
  MaxRequests = 2
SPECIFICATION DiagnosticsSpec
INVARIANTS WindowKept StreamWhole AnswersWhole
PROPERTIES SessionOutlivesRequests
SYMMETRY Swaps
