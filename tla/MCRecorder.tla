------------------------------- MODULE MCRecorder -------------------------------
EXTENDS Recorder, TLC

MCSymmetry == Permutations(Callers) \cup Permutations(Recs)
================================================================================
