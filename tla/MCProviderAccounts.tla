-------------------------- MODULE MCProviderAccounts --------------------------
EXTENDS ProviderAccounts
===============================================================================
