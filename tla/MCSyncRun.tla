----------------------------- MODULE MCSyncRun -----------------------------
(* A native track and one to transcode; the second can also be added with the *)
(* first as a playlist.                                                       *)
EXTENDS SyncRun

CONSTANTS a, b, mix

MCPicks == {[tracks |-> <<a>>, name |-> NoName], [tracks |-> <<b, a>>, name |-> mix]}

OneTrack == {[tracks |-> <<a>>, name |-> NoName]}

MCCopies == {[track |-> a, oid |-> 1, path |-> 1]}

=============================================================================
