--------------------------- MODULE MCSftpBrowser ---------------------------
EXTENDS SftpBrowser
CONSTANTS top, dir, leaf, link, s1
\* A directory that holds a directory, a file and a link.
MCNodes    == {top, dir, leaf, link}
MCChildren == [n \in {top, dir} |-> IF n = top THEN <<dir, link>> ELSE <<leaf>>]
\* What is begun together.
Of(n, some) == [thing \in Things |-> IF thing \in some THEN n ELSE 0]
With(b, c)  == [thing \in Things |-> b[thing] + c[thing]]
MCBudgets  == {With(Of(1, {"switch"}), Of(1, some)) : some \in
                  {{"delete"}, {"upload"}, {"edit", "list"}, {"download"}, {"follow"}}}
              \cup {With(Of(2, {"switch"}), Of(1, {"list"})),
                    With(Of(1, {"switch"}), Of(2, {"preview"}))}
\* The sessions differ in nothing, so that the panel may begin with s1.
MCInit == Init /\ sessionId = s1
MCSpec == MCInit /\ [][Next]_vars /\ WF_vars(Answers /\ UNCHANGED budget)
=============================================================================
