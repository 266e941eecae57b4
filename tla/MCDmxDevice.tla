------------------------------ MODULE MCDmxDevice ------------------------------
EXTENDS DmxDevice, TLC

MCSymmetry == Permutations(Clients)
================================================================================
