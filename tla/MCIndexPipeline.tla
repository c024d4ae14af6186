-------------------------- MODULE MCIndexPipeline --------------------------
(* Small instances of IndexPipeline: two roots (or one), a source file and a *)
(* manifest, and contents of no chunk, one chunk or two.                     *)
EXTENDS IndexPipeline

CONSTANTS A, B, src, man

MCShapes == {{}, {1}, {1, 2}}
Start(r, shape) == [root |-> r, ver |-> 0, lines |-> shape]

\* One project with a long source file and a manifest.
OneDisk == {[r \in {A} |-> [f \in {src, man} |-> Start(r, IF f = src THEN {1, 2} ELSE {1})]]}

\* Two projects; the second may be empty, hold the source file only, or both.
TwoDisks ==
    {[r \in {A, B} |-> [f \in {src, man} |->
        IF r = A \/ f \in have THEN Start(r, IF f = src THEN {1, 2} ELSE {1}) ELSE None]] :
     have \in {{}, {src}, {src, man}}}
=============================================================================
