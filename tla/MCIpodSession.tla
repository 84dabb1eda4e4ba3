--------------------------- MODULE MCIpodSession ---------------------------
(* An iPod with two tracks of one song without a cover; two songs with one, *)
(* of which one does not decode.                                            *)
EXTENDS IpodSession

CONSTANTS plain, good, bad

MCSong == {plain, good, bad}
MCCover == {good, bad}
MCDbid == <<7, 3>>

=============================================================================
