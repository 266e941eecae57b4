------------------------------ MODULE MCTvPlayer ------------------------------
EXTENDS TvPlayer

MCChanNum == [s \in Services |-> IF s = "news" THEN 2 ELSE 1]
MCKind == [s \in Services |-> IF s = "jazz" THEN "radio" ELSE "tv"]
MCFreq == [s \in Services |-> IF s = "film" THEN "f1" ELSE "f2"]
================================================================================
