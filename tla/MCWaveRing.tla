------------------------------ MODULE MCWaveRing ------------------------------
(* Three capture buffers and two playback headers.                           *)
EXTENDS WaveRing
=============================================================================
