------------------------------ MODULE MCValues ------------------------------
(***************************************************************************)
(* Small instances of Values for TLC: int32 has 2 bits and int64 4.        *)
(***************************************************************************)
EXTENDS Values

\* Both ends of each width and one step past them.
EdgeNumbers == {-9, -8, -3, -2, 0, 1, 2, 7, 8}

\* Empty, plain, and with a NUL in the middle.
EdgeBytes == {<<>>, <<1>>, <<1, 0, 1>>}

\* SELECT ?, SELECT :a, @a, SELECT $a, ?
SmallStatements ==
    {<<Nameless>>, <<<<":", "a">>, <<"@", "a">>>>, <<<<"$", "a">>, Nameless>>}

ClientNames == {Nameless, <<"", "a">>, <<"@", "a">>, <<":", "b">>}
=============================================================================
