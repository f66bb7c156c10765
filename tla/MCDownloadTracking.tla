-------------------------- MODULE MCDownloadTracking --------------------------
(* Instances of DownloadTracking for TLC. *)
EXTENDS DownloadTracking, TLC

CONSTANTS t1, m1

OneMovieOf == t1 :> m1
=============================================================================
