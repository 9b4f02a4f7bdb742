---- MODULE MCEnvironment ----
EXTENDS Environment
====
