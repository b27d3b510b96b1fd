SPECIFICATION Spec
CONSTANTS
  a = a
  b = b
  e = e
  g1 = g1
  g2 = g2
  o1 = o1
  o2 = o2
  None = None
  Transaction = {a, b, e}
  input <- MCinput
  output <- MCoutput
  authorization <- MCauthorization
  genesis_utxo <- MCgenesis_utxo
  wallet_address = {o1}
  Worker = {w1, w2}
  buffer_size = 1
  MaxLedger = 2
  MaxDiffs = 2
  Repeats = TRUE
INVARIANT RemovedWasValid
CHECK_DEADLOCK FALSE
