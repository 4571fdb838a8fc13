-------------------------- MODULE MCAdminAccounts ---------------------------
(* Two operators who may do everything, one user, one market, two assets.  *)
EXTENDS AdminAccounts, TLC

CONSTANTS ann, ben

MCRoles == [o \in Operators |-> {"SUPPORT_READ", "WALLET_ADJUST", "MARKET_OPS"}]
MCDeltas == {-1, 1}
OperatorsAlike == Permutations(Operators)
=============================================================================
