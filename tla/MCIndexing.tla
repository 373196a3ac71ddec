---------------------------- MODULE MCIndexing ----------------------------
(* Instances of Indexing for TLC.                                          *)
EXTENDS Indexing, TLC

CONSTANTS i1, i2, p1, p2, text, yaml, binary, root

MixedKinds ==
    text :> "sound" @@ yaml :> "frontmatter" @@ binary :> "undecodable"
      @@ root :> "clashing"
============================================================================
