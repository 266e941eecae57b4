-------------------------------- MODULE MCScanner --------------------------------
EXTENDS Scanner

MCLists == {<<>>, <<"f2">>}
Mode(freqs0, faults0) ==
  [atsc |-> FALSE, auto |-> FALSE, bat |-> FALSE, freqs |-> freqs0, faults |-> faults0]
One == <<"f1">>
Two == <<"f1", "f2">>

MCModes ==
  {Mode(Two, {}), [Mode(Two, {}) EXCEPT !.auto = TRUE, !.bat = TRUE],
   [Mode(One, {}) EXCEPT !.atsc = TRUE]}
  \cup {Mode(One, {fault}) : fault \in Faults}
MCLiveModes ==
  {Mode(Two, {}), [Mode(One, {}) EXCEPT !.atsc = TRUE]}
================================================================================
