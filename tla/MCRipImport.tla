---------------------------- MODULE MCRipImport ----------------------------
(* A disc of two tracks that MusicBrainz knows as two releases, one of which *)
(* lacks the position of a track.  The user has files of both, or of the one, *)
(* or of none.                                                                *)
EXTENDS RipImport

CONSTANTS r1, r2, flac, mp3

MCRelease == {r1, r2}
MCRows == [r \in MCRelease |-> {1, 2}]
MCPosition == [r \in MCRelease |-> IF r = r1 THEN {1, 2} ELSE {1}]
MCExt == {flac, mp3}
MCLibraries == {{}, {<<<<r1, 2>>, mp3>>}, {<<<<r1, 1>>, flac>>, <<<<r2, 1>>, mp3>>}}

=============================================================================
