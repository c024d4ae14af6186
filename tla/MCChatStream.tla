---------------------------- MODULE MCChatStream ---------------------------
(* ChatStream on small instances. *)
EXTENDS ChatStream

CONSTANT MaxPieces

\* Pieces of a text: an answer unit, a blank, an opening and a closing tag.
Pieces == {<<"a">>, <<"s">>, <<"o1", "o2">>, <<"c1", "c2">>}
MCLocalTexts == {FlattenSeq(p) : p \in UNION {[1..n -> Pieces] : n \in 0..MaxPieces}}
MCFound == [file: {"f"}, source: {"manifest", "source_code"}, line: {NoLine, 0, 1, 48}, body: {1, 60}]
MCRetrieved == {<<>>} \cup {<<c>> : c \in MCFound} \cup
    {<<c, d>> : c, d \in {e \in MCFound : e.source = "manifest" /\ e.body = 1}}
MCRemoteTexts == {<<>>, <<"a">>, <<"a", "a">>}

=============================================================================
