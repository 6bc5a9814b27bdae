-------------------------- MODULE MCSourceMapStage --------------------------
(***************************************************************************)
(* SourceMapStage with three mentions of two source maps, whose sources    *)
(* are nested in each other within one map, across maps and across heads.  *)
(***************************************************************************)
EXTENDS SourceMapStage

CONSTANTS m1, m2

\* Two assets mention m1.
Mentioned == <<m1, m1, m2>>

Under(head, path) == [head |-> head, path |-> path, suffix |-> ""]

Paths == {<<"a">>, <<"a", "b">>, <<"a", "b", "c">>, <<"d">>, <<"d", "e">>, <<"f">>}

SourceMap(names, contents) == [names |-> names, contents |-> contents]

\* One that needs a renaming, in sections, to a name that it has already; one with a
\* source under no head, and with fewer contents than sources, for which one would
\* otherwise be renamed; one that meets what an earlier build left; and one with a
\* section that has no map.
FourDocuments ==
    {[sections |-> <<<<SourceMap(<<Under("webpack://", <<"a">>)>>, 1)>>,
                     <<SourceMap(<<Under("webpack://", <<"a", "b", "c">>),
                                   [Under("webpack://", <<"a">>) EXCEPT
                                       !.suffix = "[file]"]>>, 2)>>>>,
      top |-> SourceMap(<<>>, 0)],
     [sections |-> <<>>,
      top |-> SourceMap(<<Under("", <<"a">>),
                          Under("webpack://", <<"a", "b">>),
                          Under("webpack://", <<"a", "b", "c">>)>>, 2)],
     [sections |-> <<>>,
      top |-> SourceMap(<<Under("webpack://", <<"d", "e">>),
                          Under("webpack://", <<"f">>)>>, 2)],
     [sections |-> <<<<>>>>, top |-> SourceMap(<<>>, 0)]}

At(path) == [path |-> path, suffix |-> ""]

\* An earlier build left a file where this one may need a directory, and a
\* directory where it may need a file.
OneTree ==
    {[n \in Node |-> CASE n = At(<<"d">>) -> "file"
                       [] n = At(<<"f">>) -> "dir"
                       [] OTHER -> "nothing"]}

=============================================================================
