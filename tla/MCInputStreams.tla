--------------------------- MODULE MCInputStreams ---------------------------
(***************************************************************************)
(* Files that load each other, one that loads itself, one whose last line  *)
(* is not ended, and a user who loads them, misspells a file and forgets a *)
(* file name.                                                              *)
(***************************************************************************)
EXTENDS InputStreams

T(kind) == [kind |-> kind, text |-> NoName]
Path(f) == [kind |-> "path", text |-> f]
Named(f) == [kind |-> "word", text |-> f]

MCNames == {"", "plain", "nested", "itself", "wrong", "missing"}
MCFiles == {"plain", "nested", "itself", "wrong"}
MCContent ==
    [plain  |-> <<T("word"), T("word")>>,
     nested |-> <<T("load"), Named("plain"), T("eol"), T("word"), T("eol"), T("eol")>>,
     itself |-> <<T("load"), Path("itself"), T("eol"), T("word"), T("eol")>>,
     wrong  |-> <<T("word"), T("load"), T("eol"), T("command"), T("switch"), T("eol"),
                  T("abstraction"), T("marker"), T("word"), T("arrow"), T("switch"), T("eol")>>]

MCLines ==
    {<<T("word"), T("switch"), T("eol")>>,
     <<T("load"), Path("plain"), T("eol")>>,
     <<T("load"), Path("nested"), T("eol")>>,
     <<T("load"), Path("itself"), T("eol")>>,
     <<T("load"), Named("missing"), T("eol")>>,
     <<T("load"), T("number"), T("eol")>>,
     <<T("command"), T("eol")>>}

\* Given with -L: no file among them loads another.
FlatLoadLists == {<<>>, <<"wrong", "missing", "plain">>}

NestedLoadLists == {<<"nested">>}

=============================================================================
