SPECIFICATION Spec
CONSTANTS
  CoinModes <- MCCoinModes
  MaxCoins = 25
INVARIANTS
  PlaysConserved
  CoinsConserved
  StartIsPaidFor
PROPERTIES
  PaidIsOffered
