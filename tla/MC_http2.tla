------------------------------- MODULE MC_http2 -------------------------------
(* Two uploads of missing files, then one of three packets of four, in parts *)
(* of two, or of nothing when the server has the whole file; it may be       *)
(* stopped.  The connection breaks once, or a pong comes late.               *)
EXTENDS Http2Upload
FileLengths == <<0, 0, 4>>
AskedLengths == <<0, 0, 3>>
=============================================================================
