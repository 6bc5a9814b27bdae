------------------------ MODULE SourceMapWriterProofs -----------------------
(***************************************************************************)
(* That the writer loses a source only to what handleFileToDirectoryName-  *)
(* Resolutions does not compare, for any source maps and output trees.     *)
(*                                                                         *)
(* A directory of the tree, or a file, was left there or is on the way of  *)
(* a source, and what is there once keeps its kind.  So whatever keeps a   *)
(* source from being written, or is written over it, is left, or a source  *)
(* itself; and two sources of one map under one head meet neither in one   *)
(* file, nor in a file of one that is a directory of the other, unless one *)
(* has the name of the other plus " [file]".                               *)
(***************************************************************************)
EXTENDS SourceMapWriter, TLAPS

\* What is in the tree stays, and was left or is wanted.
TreeExplained ==
    /\ writer \in {"parse", "failed"} => tree = left
    /\ \A n \in Node :
          /\ tree[n] = "dir" =>
                left[n] = "dir" \/ \E f \in Recoverable : n \in Ancestors(Output(f))
          /\ tree[n] = "file" =>
                left[n] = "file" \/ \E f \in Recoverable : Output(f) = n

\* The hand is empty between two sources.
OneAtATime ==
    /\ unwritten \subseteq Recoverable
    /\ writer \notin {"open", "fill"} => hand = {}
    /\ writer \in {"open", "fill"} => \E e \in unwritten : hand = {e}
    /\ \A e \in hand : \A a \in Ancestors(Output(e)) : tree[a] = "dir"
    /\ writer = "done" => unwritten = {}

Accounted(e) ==
    \/ Written(e)
    \/ \E f \in unlucky : Output(f) = Output(e)
    \/ Obstructed(e)

PastAccounted == \A e \in Recoverable \ unwritten : Accounted(e)

WriterInv ==
    /\ WriterTypeOK
    /\ TreeExplained
    /\ OneAtATime
    /\ PastAccounted

-----------------------------------------------------------------------------
(* Paths and outputs *)

LEMMA PrefixTransitive ==
  ASSUME NEW p \in Path, NEW q \in Path, NEW r \in Path,
         IsStrictPrefix(p, q), IsStrictPrefix(q, r)
  PROVE  IsStrictPrefix(p, r)
  <1>1. p \in Seq(STRING) /\ q \in Seq(STRING) /\ r \in Seq(STRING)
    BY WriterAssumption
  <1>2. /\ Len(p) <= Len(q) /\ Len(q) <= Len(r)
        /\ \A i \in 1 .. Len(p) : p[i] = q[i]
        /\ \A i \in 1 .. Len(q) : q[i] = r[i]
    BY <1>1 DEF IsStrictPrefix, IsPrefix
  <1> QED
    BY <1>1, <1>2 DEF IsStrictPrefix, IsPrefix

LEMMA OutputType ==
  ASSUME NEW e \in Entry
  PROVE  /\ Output(e) \in Node
         /\ e[1] \in Url
         /\ e[2] \in Name
         /\ Output(e).path = e[2].path
  BY DEF Entry, Name, Node, Output

\* A directory above a directory of a node is above the node.
LEMMA AncestorsTransitive ==
  ASSUME NEW n \in Node, NEW a \in Ancestors(n)
  PROVE  Ancestors(a) \subseteq Ancestors(n)
  BY PrefixTransitive DEF Ancestors, Node

\* A name is its parts.
LEMMA NameParts ==
  ASSUME NEW m \in Name, NEW n \in Name,
         m.head = n.head, m.path = n.path, m.suffix = n.suffix
  PROVE  m = n
  <1>1. m = [head |-> m.head, path |-> m.path, suffix |-> m.suffix]
    BY DEF Name
  <1>2. n = [head |-> n.head, path |-> n.path, suffix |-> n.suffix]
    BY DEF Name
  <1> QED
    BY <1>1, <1>2

\* Sources of one map under one head do not meet but in an end of their names.
LEMMA OneFileEach ==
  ASSUME NEW e \in Entry, NEW f \in Entry, e # f, Output(e) = Output(f)
  PROVE  Rivals(e, f)
  <1>1. e[2].path = f[2].path
    BY OutputType
  <1>2. CASE e[1] = f[1] /\ e[2].head = f[2].head
    <2>1. CASE e[2].suffix = f[2].suffix
      <3>1. /\ e[2] \in Name /\ f[2] \in Name
            /\ e[2].head = f[2].head /\ e[2].path = f[2].path
        BY <1>1, <1>2, OutputType
      <3>2. e[2] = f[2]
        BY <2>1, <3>1, NameParts
      <3> QED
        BY <1>2, <3>2 DEF Entry
    <2> QED
      BY <1>1, <2>1 DEF Rivals
  <1> QED
    BY <1>2 DEF Rivals

LEMMA NoFileIsDirectory ==
  ASSUME NEW e \in Recoverable, NEW f \in Recoverable, Output(f) \in Ancestors(Output(e))
  PROVE  Rivals(e, f)
  <1>1. e \in Entry /\ f \in Entry /\ e[2] \in sources[e[1]]
    BY DEF Recoverable
  <1>2. Output(f).suffix = "" /\ IsStrictPrefix(f[2].path, e[2].path)
    BY <1>1, OutputType DEF Ancestors
  <1>3. f[2].suffix = "" /\ ~Nested(f[1], f[2])
    BY <1>2 DEF Output
  <1>4. CASE e[1] = f[1] /\ e[2].head = f[2].head
    BY <1>1, <1>2, <1>3, <1>4 DEF Nested
  <1> QED
    BY <1>4 DEF Rivals

LEMMA RivalsSymmetric == \A e, f : Rivals(e, f) <=> Rivals(f, e)
  BY DEF Rivals

\* Another source in the same file is a rival, now and after any step.
SharersObstructed ==
    \A e, f \in Recoverable : e # f /\ Output(e) = Output(f) => Obstructed(e)

LEMMA SameFileObstructs ==
  ASSUME NEW e \in Recoverable, NEW f \in Recoverable, e # f, Output(e) = Output(f)
  PROVE  Obstructed(e)
  <1>1. Rivals(e, f)
    BY OneFileEach DEF Recoverable
  <1>2. Output(f) \in Way(e)
    BY DEF Way
  <1> QED
    BY <1>1, <1>2 DEF Obstructed

LEMMA SameFileObstructsThen == SharersObstructed'
  <1>1. SharersObstructed
    BY SameFileObstructs DEF SharersObstructed
  <1> QED
    BY <1>1, PTL

-----------------------------------------------------------------------------
(* Parsing *)

LEMMA WriterInvInit == WriterInit => WriterInv
  <1> SUFFICES ASSUME WriterInit PROVE WriterInv
    OBVIOUS
  <1> USE DEF WriterInit
  <1>1. Recoverable = {}
    BY DEF Recoverable, Entry
  <1>2. WriterTypeOK
    BY WriterAssumption DEF WriterTypeOK
  <1>3. TreeExplained
    BY DEF TreeExplained
  <1>4. OneAtATime
    BY DEF OneAtATime
  <1>5. PastAccounted
    BY <1>1 DEF PastAccounted
  <1> QED
    BY <1>2, <1>3, <1>4, <1>5 DEF WriterInv

LEMMA RecoveredNames ==
  ASSUME NEW map \in Map
  PROVE  Recovered(map) \subseteq Name
  BY DEF Recovered, Map

LEMMA ParsedNames ==
  ASSUME NEW doc \in Document, ~Panics(doc)
  PROVE  ParseSourceMap(doc) \subseteq Name
  <1>1. doc.sections \in Seq(Seq(Map)) /\ doc.top \in Map
    BY DEF Document
  <1>2. ASSUME NEW i \in DOMAIN doc.sections PROVE doc.sections[i][1] \in Map
    <2>1. doc.sections[i] \in Seq(Map) /\ doc.sections[i] # <<>>
      BY <1>1, <1>2 DEF Panics
    <2> QED
      BY <2>1
  <1>3. \A i \in DOMAIN doc.sections : Recovered(doc.sections[i][1]) \subseteq Name
    BY <1>2, RecoveredNames
  <1>4. Recovered(doc.top) \subseteq Name
    BY <1>1, RecoveredNames
  <1> QED
    BY <1>3, <1>4 DEF ParseSourceMap

LEMMA ParseStep ==
  ASSUME WriterInv, NEW urls \in SUBSET Url, ParseAllSourceMaps(urls)
  PROVE  WriterInv'
  <1>1. PICK doc \in [urls -> {d \in Documents : ~Panics(d)}] :
            sources' = [u \in Url |-> IF u \in urls THEN ParseSourceMap(doc[u]) ELSE {}]
    BY DEF ParseAllSourceMaps
  <1>2. \A u \in urls : ParseSourceMap(doc[u]) \subseteq Name
    BY WriterAssumption, ParsedNames
  <1>3. sources' \in [Url -> SUBSET Name]
    BY <1>1, <1>2
  <1>4. /\ writer = "parse" /\ writer' = "next"
        /\ unwritten' \subseteq Recoverable' /\ OnePerName(unwritten)'
        /\ UNCHANGED <<current, hand, left, tree, content, unlucky>>
    BY DEF ParseAllSourceMaps, OnePerName
  <1>5. hand = {} /\ tree = left
    BY <1>4 DEF WriterInv, OneAtATime, TreeExplained
  <1>6. unwritten' \subseteq Entry
    BY <1>4 DEF Recoverable
  <1>7. WriterTypeOK'
    BY <1>3, <1>4, <1>5, <1>6 DEF WriterInv, WriterTypeOK, WellFormed
  <1>8. TreeExplained'
    BY <1>4, <1>5 DEF TreeExplained
  <1>9. OneAtATime'
    BY <1>4, <1>5 DEF OneAtATime
  \* A source that is not kept has the file of one that is.
  <1>10. ASSUME NEW e \in Recoverable', e \notin unwritten' PROVE Obstructed(e)'
    <2>1. PICK f \in unwritten' : SameName(e, f)'
      BY <1>4, <1>10 DEF OnePerName
    <2> QED
      BY <1>4, <1>10, <2>1, SameFileObstructsThen DEF SameName, SharersObstructed
  <1>11. PastAccounted'
    BY <1>10 DEF PastAccounted, Accounted
  <1> QED
    BY <1>7, <1>8, <1>9, <1>11 DEF WriterInv

-----------------------------------------------------------------------------
(* Writing *)

\* Once parsed, the sources and their outputs are fixed.
LEMMA OutputsFixed ==
  ASSUME UNCHANGED <<sources, left>>
  PROVE  /\ Recoverable' = Recoverable
         /\ \A e : Output(e)' = Output(e)
         /\ \A e : Obstructed(e)' <=> Obstructed(e)
  <1>1. Recoverable' = Recoverable
    BY DEF Recoverable
  <1>2. \A e : Output(e)' = Output(e)
    BY DEF Output, Nested
  <1>3. \A e : Way(e)' = Way(e)
    BY <1>2 DEF Way
  <1>4. \A e : Obstructed(e)' <=> Obstructed(e)
    BY <1>1, <1>2, <1>3 DEF Obstructed
  <1> QED
    BY <1>1, <1>2, <1>4

\* A file on the way of e, or a directory in its place, obstructs it.
LEMMA FileOnWayObstructs ==
  ASSUME WriterInv, NEW e \in Recoverable, Blocked(e)
  PROVE  Obstructed(e)
  <1>1. PICK a \in Ancestors(Output(e)) : tree[a] = "file"
    BY DEF Blocked
  <1>2. a \in Node
    BY DEF Ancestors
  <1>3. CASE left[a] = "file"
    BY <1>3 DEF Obstructed
  <1>4. CASE left[a] # "file"
    <2>1. PICK f \in Recoverable : Output(f) = a
      BY <1>1, <1>2, <1>4 DEF WriterInv, TreeExplained
    <2>2. Rivals(e, f)
      BY <2>1, NoFileIsDirectory
    <2>3. Output(f) \in Way(e)
      BY <2>1 DEF Way
    <2> QED
      BY <2>2, <2>3 DEF Obstructed
  <1> QED
    BY <1>3, <1>4

LEMMA DirectoryInPlaceObstructs ==
  ASSUME WriterInv, NEW e \in Recoverable, tree[Output(e)] = "dir"
  PROVE  Obstructed(e)
  <1>1. Output(e) \in Node
    BY OutputType DEF Recoverable
  <1>2. CASE left[Output(e)] = "dir"
    BY <1>2 DEF Obstructed
  <1>3. CASE left[Output(e)] # "dir"
    <2>1. PICK f \in Recoverable : Output(e) \in Ancestors(Output(f))
      BY <1>1, <1>3 DEF WriterInv, TreeExplained
    <2>2. Rivals(e, f)
      BY <2>1, NoFileIsDirectory, RivalsSymmetric
    <2>3. Output(e) \in Way(f)
      BY <2>1 DEF Way
    <2> QED
      BY <2>2, <2>3 DEF Obstructed
  <1> QED
    BY <1>2, <1>3

\* An entry is done with: it is accounted for itself, and has at most overwritten
\* what a rival wrote.
LEMMA PastGrows ==
  ASSUME WriterInv, NEW e \in unwritten,
         UNCHANGED <<sources, left>>,
         unwritten' \subseteq unwritten, unwritten \ {e} \subseteq unwritten',
         unlucky \subseteq unlucky',
         \A n \in Node \ {Output(e)} : content'[n] = content[n],
         e \in unwritten' \/ Accounted(e)'
  PROVE  PastAccounted'
  <1>1. unwritten \subseteq Recoverable /\ e \in Recoverable
    BY DEF WriterInv, OneAtATime
  <1>2. ASSUME NEW f \in Recoverable, f \notin unwritten PROVE Accounted(f)'
    <2>1. Accounted(f) /\ f # e
      BY <1>2 DEF WriterInv, PastAccounted
    <2>2. Output(f) \in Node
      BY OutputType DEF Recoverable
    <2>3. CASE Output(f) = Output(e)
      BY <1>1, <2>1, <2>3, SameFileObstructs, OutputsFixed DEF Accounted
    <2>4. CASE Output(f) # Output(e)
      <3>1. Written(f)' <=> Written(f)
        BY <2>2, <2>4, OutputsFixed DEF Written
      <3> QED
        BY <2>1, <3>1, OutputsFixed DEF Accounted
    <2> QED
      BY <2>3, <2>4
  <1> QED
    BY <1>1, <1>2, OutputsFixed DEF PastAccounted

\* What is above a new directory is one itself, and on the way of the source.
LEMMA NewDirectories ==
  ASSUME WriterInv, NEW e \in unwritten, ~Blocked(e),
         NEW made \in SUBSET Ancestors(Output(e)),
         \A a \in made : Ancestors(a) \subseteq made,
         tree' = WithDirectories(made),
         UNCHANGED <<sources, left>>,
         writer' \notin {"parse", "failed"}
  PROVE  /\ tree' \in [Node -> {"nothing", "dir", "file"}]
         /\ WellFormed(tree')
         /\ TreeExplained'
  <1>0. WriterTypeOK /\ TreeExplained /\ e \in Recoverable
    BY DEF WriterInv, OneAtATime
  <1>1. tree' = [n \in Node |-> IF n \in made THEN "dir" ELSE tree[n]]
    BY DEF WithDirectories
  <1>2. \A a \in made : a \in Node /\ a.suffix = "" /\ tree[a] # "file"
    BY DEF Ancestors, Blocked
  <1>3. tree' \in [Node -> {"nothing", "dir", "file"}]
    BY <1>0, <1>1 DEF WriterTypeOK
  <1>4. ASSUME NEW n \in Node, tree'[n] # "nothing"
        PROVE  /\ n.suffix = "" \/ tree'[n] = "file"
               /\ \A a \in Ancestors(n) : tree'[a] = "dir"
    <2>1. CASE n \in made
      <3>1. n.suffix = "" /\ Ancestors(n) \subseteq made
        BY <1>2, <2>1
      <3>2. \A a \in Ancestors(n) : tree'[a] = "dir"
        BY <1>1, <1>2, <3>1
      <3> QED
        BY <3>1, <3>2
    <2>2. CASE n \notin made
      <3>1. tree'[n] = tree[n]
        BY <1>1, <2>2
      <3>2. \A a \in Ancestors(n) : a \in Node /\ tree[a] = "dir"
        BY <1>0, <1>4, <3>1 DEF WriterTypeOK, WellFormed, Ancestors
      <3>3. n.suffix = "" \/ tree'[n] = "file"
        BY <1>0, <1>4, <3>1 DEF WriterTypeOK, WellFormed
      <3>4. \A a \in Ancestors(n) : tree'[a] = "dir"
        BY <1>1, <3>2
      <3> QED
        BY <3>3, <3>4
    <2> QED
      BY <2>1, <2>2
  <1>5. WellFormed(tree')
    BY <1>4 DEF WellFormed
  <1>6. TreeExplained'
    <2>1. ASSUME NEW n \in Node, tree'[n] = "dir"
          PROVE  left[n] = "dir" \/ \E f \in Recoverable : n \in Ancestors(Output(f))
      BY <1>0, <1>1, <2>1 DEF TreeExplained
    <2>2. ASSUME NEW n \in Node, tree'[n] = "file"
          PROVE  left[n] = "file" \/ \E f \in Recoverable : Output(f) = n
      BY <1>0, <1>1, <2>2 DEF TreeExplained
    <2> QED
      BY <2>1, <2>2, OutputsFixed DEF TreeExplained
  <1> QED
    BY <1>3, <1>5, <1>6

LEMMA MkdirAllStep ==
  ASSUME WriterInv, NEW e \in unwritten, MkdirAll(e)
  PROVE  WriterInv'
  <1>0. WriterTypeOK /\ TreeExplained /\ OneAtATime
    BY DEF WriterInv
  <1>1. /\ writer = "next" /\ writer' = "open"
        /\ current' = {e[1]}
        /\ ~Blocked(e)
        /\ tree' = WithDirectories(Ancestors(Output(e)))
        /\ hand' = {e}
        /\ UNCHANGED <<sources, unwritten, left, content, unlucky>>
    BY DEF MkdirAll, Iteration
  <1>2. e \in Recoverable /\ e \in Entry /\ Output(e) \in Node
    BY <1>0, OutputType DEF OneAtATime, Recoverable
  <1>3. /\ tree' \in [Node -> {"nothing", "dir", "file"}]
        /\ WellFormed(tree')
        /\ TreeExplained'
    BY <1>1, <1>2, AncestorsTransitive, NewDirectories
  <1>4. WriterTypeOK'
    <2>1. current' \subseteq Url
      BY <1>1, <1>2, OutputType
    <2> QED
      BY <1>0, <1>1, <1>3, <2>1 DEF WriterTypeOK
  <1>5. OneAtATime'
    <2>1. \A a \in Ancestors(Output(e)) : tree'[a] = "dir"
      BY <1>1 DEF Ancestors, WithDirectories
    <2> QED
      BY <1>0, <1>1, <2>1, OutputsFixed DEF OneAtATime
  <1>6. PastAccounted'
    BY <1>1, PastGrows
  <1> QED
    BY <1>3, <1>4, <1>5, <1>6 DEF WriterInv

LEMMA MkdirAllBreaksStep ==
  ASSUME WriterInv, NEW e \in unwritten, MkdirAllBreaks(e)
  PROVE  WriterInv'
  <1>0. WriterTypeOK /\ TreeExplained /\ OneAtATime
    BY DEF WriterInv
  <1>1. /\ writer = "next" /\ current' = {e[1]} /\ ~Blocked(e)
        /\ unlucky' = unlucky \cup {e}
        /\ unwritten' = unwritten \ {e}
        /\ UNCHANGED <<writer, sources, hand, left, content>>
    BY DEF MkdirAllBreaks, Iteration
  <1>2. e \in Recoverable /\ e \in Entry
    BY <1>0 DEF OneAtATime, Recoverable
  <1>3. hand = {}
    BY <1>0, <1>1 DEF OneAtATime
  <1>4. /\ tree' \in [Node -> {"nothing", "dir", "file"}]
        /\ WellFormed(tree')
        /\ TreeExplained'
    <2>1. PICK made \in SUBSET Ancestors(Output(e)) :
              /\ \A a \in made : Ancestors(a) \subseteq made
              /\ tree' = WithDirectories(made)
      BY DEF MkdirAllBreaks
    <2> QED
      BY <1>1, <2>1, NewDirectories
  <1>5. WriterTypeOK'
    <2>1. current' \subseteq Url
      BY <1>1, <1>2, OutputType
    <2> QED
      BY <1>0, <1>1, <1>2, <1>3, <1>4, <2>1 DEF WriterTypeOK
  <1>6. OneAtATime'
    BY <1>0, <1>1, <1>3, OutputsFixed DEF OneAtATime
  <1>7. Accounted(e)'
    BY <1>1 DEF Accounted
  <1>8. PastAccounted'
    BY <1>1, <1>7, PastGrows
  <1> QED
    BY <1>4, <1>5, <1>6, <1>8 DEF WriterInv

LEMMA MkdirAllFailsStep ==
  ASSUME WriterInv, NEW e \in unwritten, MkdirAllFails(e)
  PROVE  WriterInv'
  <1>0. WriterTypeOK /\ TreeExplained /\ OneAtATime
    BY DEF WriterInv
  <1>1. /\ writer = "next" /\ current' = {e[1]} /\ Blocked(e)
        /\ unwritten' = unwritten \ {e}
        /\ UNCHANGED <<writer, sources, hand, left, tree, content, unlucky>>
    BY DEF MkdirAllFails, Iteration
  <1>2. e \in Recoverable /\ e \in Entry
    BY <1>0 DEF OneAtATime, Recoverable
  <1>3. hand = {}
    BY <1>0, <1>1 DEF OneAtATime
  <1>4. WriterTypeOK'
    <2>1. current' \subseteq Url
      BY <1>1, <1>2, OutputType
    <2> QED
      BY <1>0, <1>1, <1>3, <2>1 DEF WriterTypeOK, WellFormed
  <1>5. TreeExplained'
    BY <1>0, <1>1, OutputsFixed DEF TreeExplained
  <1>6. OneAtATime'
    BY <1>0, <1>1, <1>3, OutputsFixed DEF OneAtATime
  <1>7. Accounted(e)'
    BY <1>1, <1>2, FileOnWayObstructs, OutputsFixed DEF Accounted
  <1>8. PastAccounted'
    BY <1>1, <1>7, PastGrows
  <1> QED
    BY <1>4, <1>5, <1>6, <1>8 DEF WriterInv

\* The new file lies in directories, and nothing lies in it.
LEMMA OpenFileStep ==
  ASSUME WriterInv, NEW e \in unwritten, OpenFile(e)
  PROVE  WriterInv'
  <1>0. WriterTypeOK /\ TreeExplained /\ OneAtATime
    BY DEF WriterInv
  <1>1. /\ writer = "open" /\ writer' = "fill" /\ e \in hand
        /\ tree[Output(e)] # "dir"
        /\ tree' = [tree EXCEPT ![Output(e)] = "file"]
        /\ content' = [content EXCEPT ![Output(e)] = {}]
        /\ UNCHANGED <<sources, unwritten, current, hand, left, unlucky>>
    BY DEF OpenFile
  <1>2. e \in Recoverable /\ Output(e) \in Node
    BY <1>0, OutputType DEF OneAtATime, Recoverable
  <1>3. /\ tree'[Output(e)] = "file"
        /\ \A n \in Node \ {Output(e)} : tree'[n] = tree[n] /\ content'[n] = content[n]
    BY <1>0, <1>1, <1>2 DEF WriterTypeOK
  <1>4. \A a \in Ancestors(Output(e)) : tree[a] = "dir" /\ a \in Node \ {Output(e)}
    BY <1>0, <1>1 DEF OneAtATime, Ancestors
  <1>5. WellFormed(tree')
    <2>1. ASSUME NEW n \in Node, tree'[n] # "nothing"
          PROVE  /\ n.suffix = "" \/ tree'[n] = "file"
                 /\ \A a \in Ancestors(n) : tree'[a] = "dir"
      <3>1. CASE n = Output(e)
        BY <1>3, <1>4, <3>1
      <3>2. CASE n # Output(e)
        <4>1. \A a \in Ancestors(n) : tree[a] = "dir" /\ a \in Node
          BY <1>0, <1>3, <2>1, <3>2 DEF WriterTypeOK, WellFormed, Ancestors
        <4>2. Output(e) \notin Ancestors(n)
          BY <1>1, <4>1
        <4> QED
          BY <1>0, <1>3, <2>1, <3>2, <4>1, <4>2 DEF WriterTypeOK, WellFormed
      <3> QED
        BY <3>1, <3>2
    <2> QED
      BY <2>1 DEF WellFormed
  <1>6. WriterTypeOK'
    <2>1. tree' \in [Node -> {"nothing", "dir", "file"}]
      BY <1>0, <1>1 DEF WriterTypeOK
    <2>2. content' \in [Node -> SUBSET Entry]
      BY <1>0, <1>1 DEF WriterTypeOK
    <2> QED
      BY <1>0, <1>1, <1>5, <2>1, <2>2 DEF WriterTypeOK
  <1>7. TreeExplained'
    <2>1. ASSUME NEW n \in Node, tree'[n] = "dir"
          PROVE  left[n] = "dir" \/ \E f \in Recoverable : n \in Ancestors(Output(f))
      BY <1>0, <1>3, <2>1 DEF TreeExplained
    <2>2. ASSUME NEW n \in Node, tree'[n] = "file"
          PROVE  left[n] = "file" \/ \E f \in Recoverable : Output(f) = n
      BY <1>0, <1>2, <1>3, <2>2 DEF TreeExplained
    <2> QED
      BY <1>1, <2>1, <2>2, OutputsFixed DEF TreeExplained
  <1>8. OneAtATime'
    <2>1. hand = {e}
      BY <1>0, <1>1 DEF OneAtATime
    <2>2. \A a \in Ancestors(Output(e)) : tree'[a] = "dir"
      BY <1>3, <1>4
    <2> QED
      BY <1>0, <1>1, <2>1, <2>2, OutputsFixed DEF OneAtATime
  <1>9. PastAccounted'
    BY <1>1, <1>3, PastGrows
  <1> QED
    BY <1>6, <1>7, <1>8, <1>9 DEF WriterInv

\* The three ways in which an opened or opening file ends.
LEMMA NextSourceStep ==
  ASSUME WriterInv, NEW e \in unwritten,
         OpenFileFails(e) \/ WriteFile(e) \/ DiskFails(e)
  PROVE  WriterInv'
  <1>0. WriterTypeOK /\ TreeExplained /\ OneAtATime
    BY DEF WriterInv
  <1>1. /\ writer \in {"open", "fill"} /\ writer' = "next"
        /\ unwritten' = unwritten \ {e}
        /\ hand' = {}
        /\ UNCHANGED <<sources, current, left, tree>>
    BY DEF OpenFileFails, WriteFile, DiskFails, NextSource
  <1>2. e \in Recoverable /\ e \in Entry /\ Output(e) \in Node
    BY <1>0, OutputType DEF OneAtATime, Recoverable
  <1>3. /\ unlucky' \in {unlucky, unlucky \cup {e}}
        /\ content' \in {content, [content EXCEPT ![Output(e)] = {e}]}
    BY DEF OpenFileFails, WriteFile, DiskFails
  <1>4. WriterTypeOK'
    <2>1. unlucky' \subseteq Entry
      BY <1>0, <1>2, <1>3 DEF WriterTypeOK
    <2>2. content' \in [Node -> SUBSET Entry]
      BY <1>0, <1>2, <1>3 DEF WriterTypeOK
    <2> QED
      BY <1>0, <1>1, <2>1, <2>2 DEF WriterTypeOK, WellFormed
  <1>5. TreeExplained'
    BY <1>0, <1>1, OutputsFixed DEF TreeExplained
  <1>6. OneAtATime'
    BY <1>0, <1>1 DEF OneAtATime, Recoverable
  <1>7. Accounted(e)'
    <2>1. CASE OpenFileFails(e)
      BY <1>1, <1>2, <2>1, DirectoryInPlaceObstructs, OutputsFixed
         DEF OpenFileFails, Accounted
    <2>2. CASE WriteFile(e)
      <3>1. content'[Output(e)] = {e}
        BY <1>0, <1>2, <2>2 DEF WriteFile, WriterTypeOK
      <3> QED
        BY <1>1, <3>1, OutputsFixed DEF Accounted, Written
    <2>3. CASE DiskFails(e)
      BY <2>3 DEF DiskFails, Accounted
    <2> QED
      BY <2>1, <2>2, <2>3
  <1>8. PastAccounted'
    <2>1. \A n \in Node \ {Output(e)} : content'[n] = content[n]
      BY <1>0, <1>3 DEF WriterTypeOK
    <2> QED
      BY <1>1, <1>3, <1>7, <2>1, PastGrows
  <1> QED
    BY <1>4, <1>5, <1>6, <1>8 DEF WriterInv

\* Nothing but the place changes.
LEMMA RestStep ==
  ASSUME WriterInv,
         UNCHANGED <<sources, unwritten, current, hand, left, tree, content, unlucky>>,
         \/ writer' = writer
         \/ writer = "parse" /\ writer' = "failed"
         \/ writer = "next" /\ unwritten = {} /\ writer' = "done"
  PROVE  WriterInv'
  <1>1. WriterTypeOK'
    BY DEF WriterInv, WriterTypeOK, WellFormed
  <1>2. TreeExplained'
    BY OutputsFixed DEF WriterInv, TreeExplained
  <1>3. OneAtATime'
    BY OutputsFixed DEF WriterInv, OneAtATime
  <1>4. \A e : Accounted(e)' <=> Accounted(e)
    BY OutputsFixed DEF Accounted, Written
  <1>5. PastAccounted'
    BY <1>4, OutputsFixed DEF WriterInv, PastAccounted
  <1> QED
    BY <1>1, <1>2, <1>3, <1>5 DEF WriterInv

LEMMA WriterInvNext == WriterInv /\ [WriterNext]_writerVars => WriterInv'
  <1> SUFFICES ASSUME WriterInv, [WriterNext]_writerVars PROVE WriterInv'
    OBVIOUS
  <1>1. ASSUME NEW urls \in SUBSET Url, ParseAllSourceMaps(urls) PROVE WriterInv'
    BY <1>1, ParseStep
  <1>2. CASE ParseFails
    BY <1>2, RestStep DEF ParseFails
  <1>3. CASE WriteStep
    BY <1>3, MkdirAllStep, MkdirAllFailsStep, MkdirAllBreaksStep, OpenFileStep,
       NextSourceStep, RestStep
       DEF WriteStep, Finish
  <1>4. CASE UNCHANGED writerVars
    BY <1>4, RestStep DEF writerVars
  <1> QED
    BY <1>1, <1>2, <1>3, <1>4 DEF WriterNext

\* Whatever fails, files lie in directories, and hold what belongs to them.
THEOREM WriterTypeCorrect == WriterSpec => []WriterTypeOK
  <1>1. WriterInv => WriterTypeOK
    BY DEF WriterInv
  <1> QED
    BY <1>1, WriterInvInit, WriterInvNext, PTL DEF WriterSpec

\* writer.go:101-103, for any source maps, any output tree and in any order: a
\* source is lost only to a failure on its own file or for its directory, to a source
\* of another map or under another head, to one whose name differs from its own in
\* " [file]", or to what an earlier build left.
THEOREM RenamingSaves == WriterSpec => []LostOnlyToRivals
  <1>1. WriterInv => LostOnlyToRivals
    BY DEF WriterInv, OneAtATime, PastAccounted, Accounted, LostOnlyToRivals
  <1> QED
    BY <1>1, WriterInvInit, WriterInvNext, PTL DEF WriterSpec

\* writer.go:101-103, without rivals: one source map whose sources have one head, and
\* no two of them names that differ only in " [file]", is saved completely in an empty
\* output directory, if no operation on it fails.
THEOREM OneMapIsSaved ==
  WriterSpec => [](/\ writer = "done"
                   /\ unlucky = {}
                   /\ \A n \in Node : left[n] = "nothing"
                   /\ \A e, f \in Recoverable : ~Rivals(e, f)
                   => \A e \in Recoverable : Written(e))
  <1> DEFINE Alone ==
        /\ writer = "done"
        /\ unlucky = {}
        /\ \A n \in Node : left[n] = "nothing"
        /\ \A e, f \in Recoverable : ~Rivals(e, f)
  <1>1. LostOnlyToRivals => (Alone => \A e \in Recoverable : Written(e))
    <2> SUFFICES ASSUME LostOnlyToRivals, Alone, NEW e \in Recoverable PROVE Written(e)
      OBVIOUS
    <2>1. Output(e) \in Node /\ Ancestors(Output(e)) \subseteq Node
      BY OutputType DEF Recoverable, Ancestors
    <2>2. ~Obstructed(e)
      BY <2>1 DEF Obstructed
    <2> QED
      BY <2>2 DEF LostOnlyToRivals
  <1> QED
    BY <1>1, RenamingSaves, PTL

-----------------------------------------------------------------------------
(* What the files hold *)

\* A file of this build holds a source that was recovered, and that belongs there.
HoldsOwn ==
    /\ writer = "parse" => Recoverable = {}
    /\ \A n \in Node : \A e \in content[n] : e \in Recoverable /\ Output(e) = n

LEMMA HoldsOwnNext == WriterInv /\ HoldsOwn /\ [WriterNext]_writerVars => HoldsOwn'
  <1> SUFFICES ASSUME WriterInv, HoldsOwn, [WriterNext]_writerVars PROVE HoldsOwn'
    OBVIOUS
  <1>1. ASSUME NEW urls \in SUBSET Url, ParseAllSourceMaps(urls) PROVE HoldsOwn'
    <2>1. writer = "parse" /\ writer' = "next" /\ UNCHANGED content
      BY <1>1 DEF ParseAllSourceMaps
    <2> QED
      BY <2>1 DEF HoldsOwn
  \* All others leave the sources as they are, and no content but of one file.
  <1>2. ASSUME UNCHANGED <<sources, left>>,
               writer' = "parse" => writer = "parse",
               \/ UNCHANGED content
               \/ \E e \in unwritten : content' \in
                     {[content EXCEPT ![Output(e)] = {}], [content EXCEPT ![Output(e)] = {e}]}
        PROVE  HoldsOwn'
    <2>1. Recoverable' = Recoverable /\ \A e : Output(e)' = Output(e)
      BY <1>2, OutputsFixed
    <2>2. ASSUME NEW n \in Node, NEW f \in content'[n] PROVE f \in Recoverable /\ Output(f) = n
      <3>1. CASE f \in content[n]
        BY <3>1 DEF HoldsOwn
      <3>2. CASE f \notin content[n]
        <4>1. PICK e \in unwritten :
                  content' \in {[content EXCEPT ![Output(e)] = {}],
                                [content EXCEPT ![Output(e)] = {e}]}
          BY <1>2, <2>2, <3>2
        <4>2. content \in [Node -> SUBSET Entry]
          BY DEF WriterInv, WriterTypeOK
        <4>3. f = e /\ n = Output(e)
          BY <2>2, <3>2, <4>1, <4>2
        <4> QED
          BY <4>3 DEF WriterInv, OneAtATime
      <3> QED
        BY <3>1, <3>2
    <2> QED
      BY <1>2, <2>1, <2>2 DEF HoldsOwn
  <1>3. CASE ParseFails
    BY <1>2, <1>3 DEF ParseFails
  <1>4. ASSUME NEW e \in unwritten,
               \/ MkdirAll(e) \/ MkdirAllFails(e) \/ MkdirAllBreaks(e)
               \/ OpenFile(e) \/ OpenFileFails(e)
               \/ WriteFile(e) \/ DiskFails(e)
        PROVE  HoldsOwn'
    <2>1. /\ UNCHANGED <<sources, left>>
          /\ writer # "parse"
          /\ writer' # "parse"
      BY <1>4 DEF MkdirAll, MkdirAllFails, MkdirAllBreaks, Iteration, OpenFile, OpenFileFails,
                  WriteFile, DiskFails, NextSource
    <2>2. \/ UNCHANGED content
          \/ content' = [content EXCEPT ![Output(e)] = {}]
          \/ content' = [content EXCEPT ![Output(e)] = {e}]
      BY <1>4 DEF MkdirAll, MkdirAllFails, MkdirAllBreaks, OpenFile, OpenFileFails,
                  WriteFile, DiskFails
    <2> QED
      BY <1>2, <2>1, <2>2
  <1>5. CASE Finish \/ UNCHANGED writerVars
    BY <1>2, <1>5 DEF Finish, writerVars
  <1> QED
    BY <1>1, <1>3, <1>4, <1>5 DEF WriterNext, WriteStep

LEMMA WriterInvariance == WriterSpec => [](WriterInv /\ HoldsOwn)
  <1>1. WriterInit => HoldsOwn
    BY DEF WriterInit, HoldsOwn, Recoverable, Entry
  <1> QED
    BY <1>1, WriterInvInit, WriterInvNext, HoldsOwnNext, PTL DEF WriterSpec

\* Nothing else is written: a file of this build holds a source of the source maps
\* whole, at the place of that source.
THEOREM WrittenInPlace ==
  WriterSpec => []\A n \in Node : \A e \in content[n] : e \in Recoverable /\ Output(e) = n
  <1>1. HoldsOwn => \A n \in Node : \A e \in content[n] : e \in Recoverable /\ Output(e) = n
    BY DEF HoldsOwn
  <1> QED
    BY <1>1, WriterInvariance, PTL

=============================================================================
