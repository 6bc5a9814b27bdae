-------------------------- MODULE SourceMapWriter ---------------------------
(***************************************************************************)
(* parseAllSourceMaps of sourcemap/parser.go, and from sourcemap/writer.go *)
(* handleFileToDirectoryNameResolutions and writeAllSourceMaps: the        *)
(* sources in the source maps of a build become files of the output tree,  *)
(* in which earlier builds have left theirs.                               *)
(*                                                                         *)
(* A source name is a head, which is the part that TrimPrefix and the      *)
(* cleaning in path.Join drop, the path that remains, and at times an end  *)
(* " [file]" like the one that a renaming adds.  Names are taken to be     *)
(* clean past their heads: no "..", "." or "//" there, where the code      *)
(* would compare the names as they are and write the files as cleaned.     *)
(* One entry is one source of one source map.                              *)
(***************************************************************************)
EXTENDS Naturals, Sequences, FiniteSets, SequencesExt

CONSTANTS
    Url,        \* URLs of source maps
    Path,       \* paths of files and directories below the output directory
    Prefix,     \* "webpack://", "turbopack://", "", or another spelling
    Documents,  \* the source maps to consider
    Trees,      \* the output trees to consider that earlier builds may leave
    MaxUnlucky  \* bound: sources that a failure of the disk hits

Name == [head : Prefix, path : Path, suffix : {"", "[file]"}]

\* What the output directory may contain; nothing lies in a "... [file]".
Node == [path : Path, suffix : {"", "[file]"}]

\* The directories that a node is in.
Ancestors(node) == {a \in Node : a.suffix = "" /\ IsStrictPrefix(a.path, node.path)}

\* In a source map, the i-th source has a content if i <= contents.  With sections,
\* the top level of a document is not looked at.  A section is <<map>>, or <<>>.
Map == [names : Seq(Name), contents : Nat]
Document == [sections : Seq(Seq(Map)), top : Map]

WellFormed(t) ==
    \A n \in Node : t[n] # "nothing" =>
        /\ n.suffix = "" \/ t[n] = "file"
        /\ \A a \in Ancestors(n) : t[a] = "dir"

ASSUME WriterAssumption ==
    /\ Path \subseteq Seq(STRING)
    /\ Documents \subseteq Document
    /\ Trees \subseteq [Node -> {"nothing", "dir", "file"}]
    /\ \A t \in Trees : WellFormed(t)
    /\ MaxUnlucky \in Nat

VARIABLES
    writer,     \* where FetchAndWriteAllSourceMaps is after its fetches
    sources,    \* sources[u]: names of the sources that source map u contains
    unwritten,  \* entries whose loop iteration is still to come
    current,    \* the source map that the outer loop is at
    hand,       \* the entry that is being written, in a set
    left,       \* history: the tree at the start
    tree,       \* tree[n]: what the output directory has at n
    content,    \* content[n]: the entry that file n holds whole, in a set
    unlucky     \* history: entries that an operation failed on

writerVars == <<writer, sources, unwritten, current, hand, left, tree, content, unlucky>>

Entry == Url \X Name

\* Files lie in directories, whatever fails; and what a file holds is its own.
WriterTypeOK ==
    /\ writer \in {"parse", "next", "open", "fill", "done", "failed"}
    /\ sources \in [Url -> SUBSET Name]
    /\ unwritten \subseteq Entry
    /\ current \subseteq Url
    /\ hand \subseteq unwritten
    /\ left \in Trees
    /\ tree \in [Node -> {"nothing", "dir", "file"}]
    /\ WellFormed(tree)
    /\ content \in [Node -> SUBSET Entry]
    /\ unlucky \subseteq Entry

WriterInit ==
    /\ writer = "parse"
    /\ sources = [u \in Url |-> {}]
    /\ unwritten = {}
    /\ current = {}
    /\ hand = {}
    /\ left \in Trees
    /\ tree = left
    /\ content = [n \in Node |-> {}]
    /\ unlucky = {}

-----------------------------------------------------------------------------
(* Parsing and renaming *)

Recovered(map) == {map.names[i] : i \in {j \in DOMAIN map.names : j <= map.contents}}

\* The map of a section that has none is dereferenced.
Panics(doc) == \E i \in DOMAIN doc.sections : doc.sections[i] = <<>>

ParseSourceMap(doc) ==
    IF doc.sections # <<>>
    THEN UNION {Recovered(doc.sections[i][1]) : i \in DOMAIN doc.sections}
    ELSE Recovered(doc.top)

\* Bug: a name is not renamed for the sake of the names below it.
NeverNested(u, n) == FALSE

\* handleFileToDirectoryNameResolutions: n + "/" begins another name in source
\* map u.
Nested(u, n) ==
    /\ n.suffix = ""
    /\ \E m \in sources[u] : m.head = n.head /\ IsStrictPrefix(n.path, m.path)

\* resolveSourceMappingFilePathToOutputFilePath of the name or its new name.
Output(e) ==
    [path |-> e[2].path,
     suffix |-> IF Nested(e[1], e[2]) THEN "[file]" ELSE e[2].suffix]

Recoverable == {e \in Entry : e[2] \in sources[e[1]]}

SameName(e, f) == e[1] = f[1] /\ e[2].head = f[2].head /\ Output(e) = Output(f)

\* resolvedSourceMap, a Go map: of a source and one that comes to have its name
\* the later is kept, in whatever order the loop takes them.
OnePerName(kept) ==
    /\ \A e \in Recoverable : \E f \in kept : SameName(e, f)
    /\ \A e, f \in kept : SameName(e, f) => e = f

\* Parsing, and the renaming of what was parsed.
ParseAllSourceMaps(urls) ==
    /\ writer = "parse"
    /\ \E doc \in [urls -> {d \in Documents : ~Panics(d)}] :
          sources' = [u \in Url |-> IF u \in urls THEN ParseSourceMap(doc[u]) ELSE {}]
    /\ unwritten' \in {kept \in SUBSET Recoverable' : OnePerName(kept)'}
    /\ writer' = "next"
    /\ UNCHANGED <<current, hand, left, tree, content, unlucky>>

\* A cache file cannot be read or is no JSON: nothing is written at all.
ParseFails ==
    /\ writer = "parse"
    /\ writer' = "failed"
    /\ UNCHANGED <<sources, unwritten, current, hand, left, tree, content, unlucky>>

ParsePanics(urls) ==
    /\ writer = "parse"
    /\ urls # {}
    /\ \E d \in Documents : Panics(d)
    /\ UNCHANGED writerVars

-----------------------------------------------------------------------------
(* Writing *)

\* The loops are over Go maps: source maps in any order, and the sources of one
\* in any order, the sorting of sortByDeepestPathFirst notwithstanding.
Iteration(e) ==
    /\ writer = "next"
    /\ e \in unwritten
    /\ e[1] \in current \/ \A f \in unwritten : f[1] \notin current
    /\ current' = {e[1]}

Blocked(e) == \E a \in Ancestors(Output(e)) : tree[a] = "file"

\* Bug: the directory is not made.
MkdirNothing(e) ==
    /\ Iteration(e)
    /\ ~Blocked(e)
    /\ hand' = {e}
    /\ writer' = "open"
    /\ UNCHANGED <<sources, unwritten, left, tree, content, unlucky>>

WithDirectories(made) == [n \in Node |-> IF n \in made THEN "dir" ELSE tree[n]]

\* os.MkdirAll of the directory.
MkdirAll(e) ==
    /\ Iteration(e)
    /\ ~Blocked(e)
    /\ tree' = WithDirectories(Ancestors(Output(e)))
    /\ hand' = {e}
    /\ writer' = "open"
    /\ UNCHANGED <<sources, unwritten, left, content, unlucky>>

\* A file is in the way: logged and skipped.
MkdirAllFails(e) ==
    /\ Iteration(e)
    /\ Blocked(e)
    /\ unwritten' = unwritten \ {e}
    /\ UNCHANGED <<writer, sources, hand, left, tree, content, unlucky>>

\* The disk fails it, when it has made some of the directories, from the top:
\* logged and skipped.
MkdirAllBreaks(e) ==
    /\ Iteration(e)
    /\ ~Blocked(e)
    /\ Cardinality(unlucky) < MaxUnlucky
    /\ \E made \in SUBSET Ancestors(Output(e)) :
          /\ \A a \in made : Ancestors(a) \subseteq made
          /\ tree' = WithDirectories(made)
    /\ unlucky' = unlucky \cup {e}
    /\ unwritten' = unwritten \ {e}
    /\ UNCHANGED <<writer, sources, hand, left, content>>

\* os.WriteFile opens and truncates the file ...
OpenFile(e) ==
    /\ writer = "open"
    /\ e \in hand
    /\ tree[Output(e)] # "dir"
    /\ tree' = [tree EXCEPT ![Output(e)] = "file"]
    /\ content' = [content EXCEPT ![Output(e)] = {}]
    /\ writer' = "fill"
    /\ UNCHANGED <<sources, unwritten, current, hand, left, unlucky>>

NextSource(e) ==
    /\ unwritten' = unwritten \ {e}
    /\ hand' = {}
    /\ writer' = "next"

\* ... which fails if it is a directory ...
OpenFileFails(e) ==
    /\ writer = "open"
    /\ e \in hand
    /\ tree[Output(e)] = "dir"
    /\ NextSource(e)
    /\ UNCHANGED <<sources, current, left, tree, content, unlucky>>

\* ... and writes the source.
WriteFile(e) ==
    /\ writer = "fill"
    /\ e \in hand
    /\ content' = [content EXCEPT ![Output(e)] = {e}]
    /\ NextSource(e)
    /\ UNCHANGED <<sources, current, left, tree, unlucky>>

\* Bug: the first error ends the loop.
StopAtError(e) ==
    /\ writer \in {"open", "fill"}
    /\ e \in hand
    /\ Cardinality(unlucky) < MaxUnlucky
    /\ unlucky' = unlucky \cup {e}
    /\ unwritten' = {}
    /\ hand' = {}
    /\ writer' = "next"
    /\ UNCHANGED <<sources, current, left, tree, content>>

\* A full disk, say: also logged and skipped, the file as it is.
DiskFails(e) ==
    /\ writer \in {"open", "fill"}
    /\ e \in hand
    /\ Cardinality(unlucky) < MaxUnlucky
    /\ unlucky' = unlucky \cup {e}
    /\ NextSource(e)
    /\ UNCHANGED <<sources, current, left, tree, content>>

Finish ==
    /\ writer = "next"
    /\ unwritten = {}
    /\ writer' = "done"
    /\ UNCHANGED <<sources, unwritten, current, hand, left, tree, content, unlucky>>

WriteStep ==
    \/ \E e \in unwritten :
          \/ MkdirAll(e) \/ MkdirAllFails(e) \/ MkdirAllBreaks(e)
          \/ OpenFile(e) \/ OpenFileFails(e)
          \/ WriteFile(e) \/ DiskFails(e)
    \/ Finish

WriterNext ==
    \/ \E urls \in SUBSET Url : ParseAllSourceMaps(urls)
    \/ ParseFails
    \/ WriteStep

WriterSpec == WriterInit /\ [][WriterNext]_writerVars

-----------------------------------------------------------------------------
(* Properties *)

\* Entries that handleFileToDirectoryNameResolutions does not compare: it keeps to
\* one source map, compares strings, and does not look for the name that it gives.
Rivals(e, f) ==
    \/ e[1] # f[1]
    \/ e[2].head # f[2].head
    \/ e[2].path = f[2].path /\ e[2].suffix # f[2].suffix

\* The file of e or a directory of it.
Way(e) == {Output(e)} \cup Ancestors(Output(e))

\* A rival of e has the file of e, has its file on the way of e or goes through the
\* file of e, or an earlier build left something there.
Obstructed(e) ==
    \/ \E f \in Recoverable :
          /\ Rivals(e, f)
          /\ Output(e) \in Way(f) \/ Output(f) \in Way(e)
    \/ left[Output(e)] = "dir"
    \/ \E a \in Ancestors(Output(e)) : left[a] = "file"

Written(e) == content[Output(e)] = {e}

\* writer.go:101-103: renaming a file that is also a directory avoids conflicts.
\* In whatever order things are created, a source is missing from the output at
\* the end only if an operation on its own file or for its directory failed, or if it
\* was obstructed by what the renaming does not look at.
LostOnlyToRivals ==
    writer = "done" =>
        \A e \in Recoverable :
            \/ Written(e)
            \/ \E f \in unlucky : Output(f) = Output(e)
            \/ Obstructed(e)

=============================================================================
