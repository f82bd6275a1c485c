------------------------------ MODULE MC_MfsDir ------------------------------
EXTENDS MfsDir

CONSTANTS t1, t2
====
