SPECIFICATION XSpec
CONSTANTS
  Handles <- MCHandles
  Uuids <- MCUuids
  Values <- MCValues
  Lens = {23, 26, 270}
  Signature <- MCSignature
INVARIANTS RoundTrip WithinBuffer RefusedAsAsked
CHECK_DEADLOCK FALSE
