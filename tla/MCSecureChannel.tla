--------------------------- MODULE MCSecureChannel ---------------------------
EXTENDS SecureChannel

Offer(size) ==
  [kind |-> "MediaSignal", signal |-> "Offer", length |-> size, text |-> size + 900]
Candidate(size) ==
  [kind |-> "MediaSignal", signal |-> "IceCandidate", length |-> size, text |-> size + 300]
Query(amount) == [kind |-> "DiagnosticsRequest", limit |-> amount, text |-> 110]
Batch(amount, bytes) ==
  [kind |-> "DiagnosticsBatch", records |-> amount, complete |-> TRUE, text |-> bytes]

\* The sizes are the longest description that is accepted and the two ways in
\* which a longer one fails, a candidate that is refused, a query over its limit
\* and one that is no number, and a batch to be sliced.
MCAsked ==
  [p \in Sides |->
     IF p = Initiator
     THEN {Offer(32000), Offer(32001), Offer(49000), Query(5001), Query(NoNumber)}
     ELSE {Batch(11, 20000), Candidate(4097), [kind |-> "ReadyAcknowledged", text |-> 28]}]
=============================================================================
