--------------------------- MODULE MCCacheStartup ---------------------------
(* Instances of CacheStartup for TLC. *)
EXTENDS CacheStartup

CONSTANTS p1, p2

\* One manifest has the empty name: its cache directory is the default one, and its data
\* directory is where the manifest called "data" has its cache.
Overlapping == {<<"survival">>, <<>>, <<"data">>}

\* One name has a separator in it.
Nested == {<<"survival">>, <<"lobby", "eu">>}

NewHome == {<<"home">>}

UsedHome == {<<"home">>, DefaultRoot}

OneCachePath == {<<"home", "cache">>}

NoCachePath == {}
=============================================================================
