---------------------------- MODULE MCOciFetcher -----------------------------
(***************************************************************************)
(* A small instance of OciFetcher: the layers of up to two entries and one *)
(* of three, and manifests without a layer or with two.                    *)
(***************************************************************************)
EXTENDS OciFetcher, SequencesExt

CONSTANTS a1, a2

file == [kind |-> "file", size |-> 1]
dir == [kind |-> "dir", size |-> 0]
root == [kind |-> "root", size |-> 0]
refused == [kind |-> "refused", size |-> 0]

\* Nothing is read after an entry that is refused.
Layers == BoundedSeq({file, dir, root}, 2) \cup {<<refused>>, <<file, refused>>, <<root, file, dir>>}
Artifacts == [layers : {1}, entries : Layers] \cup [layers : {0, 2}, entries : {<<>>}]
==============================================================================
