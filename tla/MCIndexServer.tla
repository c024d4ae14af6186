--------------------------- MODULE MCIndexServer ---------------------------
(* IndexServer on small instances. *)
EXTENDS IndexServer, TLC

\* Requests, chats and files are interchangeable; projects are too.
Symmetry == Permutations(Requests) \cup Permutations(Chats)
            \cup Permutations(Files) \cup Permutations(Projects)

=============================================================================
