---------------------------- MODULE MCDirectories ----------------------------
EXTENDS Directories

\* A field has room for two characters and their 0, or for three without it.
One == <<1>>
Two == <<1, 2>>
Three == <<2, 1, 1>>
Words == {One, Two, Three}
Persons == {<<One, Two, One>>, <<Two, One, Two>>, <<Two, Two, Three>>, <<Three, One, Two>>,
            <<One, Three, Two>>}

\* The root has an entry more than a panel takes, and a panel one more than its window.
Dirs == {<<>>, <<"a">>, <<"a", "b">>}
Files == {<<"f">>, <<"g">>}
=============================================================================
