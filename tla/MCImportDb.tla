----------------------------- MODULE MCImportDb -----------------------------
EXTENDS ImportDb

=============================================================================
