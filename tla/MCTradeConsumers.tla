--------------------------- MODULE MCTradeConsumers ---------------------------
EXTENDS TradeConsumers
=============================================================================
