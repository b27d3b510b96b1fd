SPECIFICATION GeneratorSpec
CONSTANTS
  a = a
  b = b
  c = c
  d = d
  g = g
  o = o
  p = p
  None = None
  Transaction <- MCTransaction
  input <- MCinput
  output <- MCoutput
  authorization <- MCauthorization
  genesis_utxo <- MCgenesis_utxo
  coin_key <- MCcoin_key
  wallet_address = {o}
  addr = o
  Value = {2}
  Throttle = {2}
  StepCount = {1}
  MaxSignals = 1
  MaxMined = 2
  MaxConfirmations = 2
  max_transactions = 1
  MaxArrivals = 3
  MaxBlock = 1
INVARIANTS PoolAgrees CounterCoversCoins WalletIsSpendable
PROPERTIES EvictionIsComplete EvictionIsNeeded Generates
