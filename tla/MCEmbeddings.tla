---------------------------- MODULE MCEmbeddings ----------------------------
EXTENDS Embeddings

CONSTANTS query, episode, now, old, i1, i3, i4, c1, f1

\* The fingerprint of a sweep, two episodes with one content.
MCContentOf == [i \in Item |-> IF i = i1 THEN query ELSE episode]

=============================================================================
