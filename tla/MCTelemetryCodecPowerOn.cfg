SPECIFICATION Spec
CONSTANTS
  Payloads <- MCPayloads
  Earlier <- MCEarlier
  Fold <- MCFold
INVARIANTS RelaysOnWinsPowerOn
