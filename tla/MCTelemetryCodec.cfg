SPECIFICATION Spec
CONSTANTS
  Payloads <- MCPayloads
  Earlier <- MCEarlier
  Fold <- MCFold
INVARIANTS TypeOK OldAndCompactAgreeButPo SnapshotShowsLive NullSaysNothing RelaysAgree
