----------------------------- MODULE MCStemJobs ----------------------------
(* Two tracks, an album of both, two engines of which one is installed.  *)
EXTENDS StemJobs

CONSTANTS x, y, demucs, roformer

MCAlbum == <<x, y>>

ShortAlbum == <<x>>

=============================================================================
