----------------------------- MODULE MCTimeshift -----------------------------
EXTENDS Timeshift
================================================================================
