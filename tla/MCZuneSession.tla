--------------------------- MODULE MCZuneSession ---------------------------
(* An artist with two albums of a song each: t, with names of its own, and u, which *)
(* ZMDB garbles, whose file does not fit its title and is taken for a copy of t,    *)
(* and whose album is filed in that of t.                                           *)
EXTENDS ZuneSession

CONSTANTS who, x, y, t, u

MCArtistOf == [b \in {x, y} |-> who]
MCAlbumOf == [v \in {t, u} |-> IF v = t THEN x ELSE y]
MCRoom == [c \in [{t, u} -> 0..MaxHandle] |-> 1000 - 4 * c[t] - 50 * c[u]]
MCFits == {<<t, t>>}
MCAlikeDir == {<<x, y>>}
MCTaken == {<<"title", t, t>>, <<"file", t, t>>, <<"title", u, u>>, <<"file", u, t>>}
MCStock == {<<>>, <<Object("artist", who, 0), Object("album", x, 1), Object("alb", x, 0), Object("track", t, 2)>>}

=============================================================================
