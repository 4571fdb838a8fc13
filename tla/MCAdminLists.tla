----------------------------- MODULE MCAdminLists -----------------------------
EXTENDS AdminLists
CONSTANT o1

\* Support may read, an operator may also act; an auditor and an operator without
\* the reading role find some screens closed.
MCRoleSets == {{"SUPPORT_READ"}, {"SUPPORT_READ", "MARKET_OPS"}, {"MARKET_OPS"}, {"AUDITOR"}}
=============================================================================
