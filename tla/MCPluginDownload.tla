-------------------------- MODULE MCPluginDownload --------------------------
(* Instances of PluginDownload for TLC. *)
EXTENDS PluginDownloadProps, TLC

CONSTANTS p1, p2, i1, i2, i3, i4

Item(name, arg) == [name |-> name, arg |-> arg]

(* Cache-Control lines. *)
NoHeader == <<>>
MaxAge1 == << <<Item("public", NoArg), Item("max-age", 1)>> >>
NoStore == << <<Item("no-store", NoArg), Item("max-age", 1)>> >>
Malformed == << <<Item("max-age", JunkArg)>> >>

SomeControls == {NoHeader, MaxAge1, Malformed}
GoodControls == {NoHeader, MaxAge1}
BriefControls == {MaxAge1}
NoStoreControls == {NoStore, MaxAge1}

Request(plugin, version, resource) ==
    [plugin |-> plugin, version |-> version, resource |-> resource]

(* Two plugins that happen to share a version identifier. *)
TwoPlugins == {Request("a", "v1", "ra"), Request("b", "v1", "rb")}

OnePlugin == {Request("a", "v1", "ra")}

(* Two manifests that give one name to two resources. *)
TwoManifests == {Request("a", "v1", "ra"), Request("a", "v1", "rb")}

Symmetry == Permutations({i1, i2, i3, i4}) \cup Permutations({p1, p2})
InodeSymmetry == Permutations({i1, i2, i3})

=============================================================================
