----------------------------- MODULE MCMarketData -----------------------------
EXTENDS MarketData, TLC
CONSTANTS s1, s2
SymbolsAlike == Permutations(Symbols)
=============================================================================
