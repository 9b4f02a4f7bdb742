------------------------------ MODULE MCRehearsal ------------------------------
EXTENDS Rehearsal
==============================================================================
