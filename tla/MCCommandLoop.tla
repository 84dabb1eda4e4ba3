--------------------------- MODULE MCCommandLoop ---------------------------
(* One or two tracks; videos, or photos and videos, pushed on connect. *)
EXTENDS CommandLoop

Videos == <<"videos">>

PhotosAndVideos == <<"photos", "videos">>

Nothing == <<>>

=============================================================================
