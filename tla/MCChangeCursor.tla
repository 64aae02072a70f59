-------------------------- MODULE MCChangeCursor --------------------------
EXTENDS ChangeCursor

=============================================================================
