---------------------------- MODULE MCWaveBuffer ----------------------------
(* Five clusters, one of them empty and one as large as the cache; the last *)
(* one is added by an update.                                               *)
EXTENDS WaveBuffer

MCSize == <<3, 1, 0, 5, 3>>
=============================================================================
