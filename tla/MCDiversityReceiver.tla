------------------------ MODULE MCDiversityReceiver ------------------------
EXTENDS DiversityReceiver

\* Back and forth and on.
SomeWave == <<<<1, 0>>, <<0, 1>>, <<-1, 0>>, <<0, 1>>>>
=============================================================================
