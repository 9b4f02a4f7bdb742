------------------------ MODULE MCEnvironmentFinalizer ------------------------
EXTENDS EnvironmentFinalizer
==============================================================================
