----------------------------- MODULE MCWebClient -----------------------------
EXTENDS WebClient
=============================================================================
