------------------------------ MODULE MCCatalog ------------------------------
EXTENDS Catalog
=============================================================================
