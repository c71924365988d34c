------------------------------- MODULE MCSkyr -------------------------------
(***************************************************************************)
(* The skyr url for TLC.  The texts for the constructor are put together   *)
(* from one choice for every part of a url.                                *)
(***************************************************************************)
EXTENDS SkyrUrl

Concat(A, B) == {a \o b : a \in A, b \in B}

Schemes == {<<>>, <<"HTTP", ":">>, <<"file", ":">>, <<"foo", ":">>}
Tails == {<<>>, <<"?", "q", "#">>}

\* Texts with an authority, and texts about slashes, drive letters and dots.
Authorities ==
    Concat({<<"HTTP", ":", "/", "/">>, <<"foo", ":", "/", "/">>},
        Concat({<<>>, <<"@">>, <<"u", ":", "w", "@", "@">>},
            Concat({<<>>, <<"h">>}, {<<>>, <<":", "8", "0">>, <<":", "2", "1", "/">>, <<":", "x">>})))
Files ==
    Concat(Schemes, Concat({<<>>, <<"/">>, <<"/", "/">>, <<"\\", "/">>},
        Concat({<<>>, <<"c", "|">>}, Concat({<<>>, <<"/", ".", ".">>, <<"/", "/", "p">>}, Tails))))

\* The urls that two changes, or three, are made to.
Seeds == { <<"http", ":", "/", "/", "h", "/", "c", ":">>, <<"file", ":", "/", "/", "/", "c", ":">>,
           <<"foo", ":", "/", "/", "h">>, <<"foo", ":", "/", "p">>, <<"foo", "-", ":", "p", "?", "q">> }
Deep == { <<"http", ":", "/", "/", "u", "@", "h", ":", "2", "1", "/", "p", "?", "q", "#", "p">>,
          <<"file", ":", "/", "/", "h", "/", "p">> }

MCUrls == (Authorities \cup Files) \X {1} \cup Seeds \X {2} \cup Deep \X {3}
MCReferences == {<<>>, <<"#", "p">>, <<"?", "q">>, <<"p">>, <<"/", "p">>, <<"/", "/", "h">>,
                 <<".", ".">>, <<"c", "|", "/", ".", ".">>, <<"\\", "p">>, <<"http", ":", "p">>,
                 <<"file", ":", "p">>, <<"http", ":", "/", "/", "h">>}
MCProtocols == {<<"http">>, <<"ftp", ":">>, <<"file">>, <<"foo">>, <<"8">>, <<"c", "8", "/">>}
MCNames == {<<>>, <<"u", "@">>}
MCHostTexts == {<<>>, <<"h">>, <<"h", ":", "8", "0">>, <<"h", ":", "9", "9", "9", "9", "9">>,
                <<"localhost">>, <<"[", ":", ":", "1", "]">>, <<"1", ".", "0", "x", "7">>, <<"h", "/", "p">>, <<":">>,
                <<"<", ":">>, <<"[", "1", "]">>}
MCPorts == {<<>>, <<"2", "1">>, <<"8", "0", "x">>, <<"9", "9", "9", "9", "9">>, <<"x">>}
MCPaths == {<<>>, <<"/", "p", "?", "q">>, <<"/", "c", "|", "/", "%2e", ".">>, <<"p">>, <<"/", "/", "p">>}
MCQueries == {<<>>, <<"q", "=", "#">>, <<"?">>}
MCFragments == {<<>>, <<"#", "p">>}
MCParameterTexts == {<<"q">>, <<"&", "%", "'">>}

=============================================================================
