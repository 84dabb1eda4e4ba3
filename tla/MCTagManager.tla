---------------------------- MODULE MCTagManager ----------------------------
(* Three files, a free path; an album of two songs, and a song that is not *)
(* part of it.  Of the releases one renames a song to the free path, one   *)
(* shifts the album by one onto the third file, one gives every song the   *)
(* same name.  The free path is on another file system.                    *)
EXTENDS TagManager

MCPaths == {"p1", "p2", "p3", "p4"}
MCSongs == {"s1", "s2", "s3"}
MCPlaces == [s1 |-> "p1", s2 |-> "p2", s3 |-> "p3"]
MCVolume == [p \in MCPaths |-> IF p = "p4" THEN 2 ELSE 1]
MCNamed == [keep |-> [s1 |-> "p1", s2 |-> "p4", s3 |-> "p3"],
            shift |-> [s1 |-> "p2", s2 |-> "p3", s3 |-> "p3"],
            same |-> [s1 |-> "p4", s2 |-> "p4", s3 |-> "p4"]]
MCReleases == {"keep", "shift", "same"}
MCSelections == {{"s1", "s2"}, {"s3"}}
=============================================================================
