------------------------ MODULE AssetResolverProofs -------------------------
(***************************************************************************)
(* Proofs about AssetResolver, for every site: types, that exactly the     *)
(* reachable assets are collected, how often each is requested, and that    *)
(* the search runs out of bundles.                                         *)
(***************************************************************************)
EXTENDS AssetResolver, FiniteSetTheorems, TLAPS

\* The bundles that some active call has still to descend to.
Waiting(s) == UNION {s[i] : i \in 1 .. Len(s)}

(* What the call stack does to them. *)

LEMMA Push ==
    ASSUME NEW s \in Seq(SUBSET Asset), NEW M \in SUBSET Asset
    PROVE  /\ <<M>> \o s \in Seq(SUBSET Asset)
           /\ Waiting(<<M>> \o s) = M \cup Waiting(s)
<1> DEFINE t == <<M>> \o s
<1>1. /\ t \in Seq(SUBSET Asset)
      /\ Len(t) = Len(s) + 1
      /\ t[1] = M
      /\ \A i \in 1 .. Len(s) : t[i + 1] = s[i]
  OBVIOUS
<1>2. ASSUME NEW x \in Waiting(t) PROVE x \in M \cup Waiting(s)
  <2>1. PICK i \in 1 .. Len(t) : x \in t[i]
    BY <1>2 DEF Waiting
  <2>2. CASE i = 1
    BY <2>1, <2>2, <1>1
  <2>3. CASE i # 1
    <3>1. i - 1 \in 1 .. Len(s) /\ t[(i - 1) + 1] = s[i - 1]
      BY <2>3, <1>1
    <3>2. (i - 1) + 1 = i
      OBVIOUS
    <3> QED
      BY <3>1, <3>2, <2>1 DEF Waiting
  <2> QED
    BY <2>2, <2>3
<1>3. ASSUME NEW x \in M \cup Waiting(s) PROVE x \in Waiting(t)
  <2>1. CASE x \in M
    BY <2>1, <1>1 DEF Waiting
  <2>2. CASE x \in Waiting(s)
    <3>1. PICK i \in 1 .. Len(s) : x \in s[i]
      BY <2>2 DEF Waiting
    <3>2. i + 1 \in 1 .. Len(t) /\ x \in t[i + 1]
      BY <3>1, <1>1
    <3> QED
      BY <3>2 DEF Waiting
  <2> QED
    BY <1>3, <2>1, <2>2
<1> QED
  BY <1>1, <1>2, <1>3

LEMMA Pop ==
    ASSUME NEW s \in Seq(SUBSET Asset), s # <<>>
    PROVE  /\ Head(s) \in SUBSET Asset
           /\ Tail(s) \in Seq(SUBSET Asset)
           /\ Waiting(s) = Head(s) \cup Waiting(Tail(s))
<1> DEFINE t == Tail(s)
<1>1. /\ Len(s) \in Nat \ {0}
      /\ t \in Seq(SUBSET Asset)
      /\ Len(t) = Len(s) - 1
      /\ \A i \in 1 .. Len(t) : t[i] = s[i + 1]
      /\ Head(s) = s[1]
      /\ s[1] \in SUBSET Asset
  OBVIOUS
<1>2. ASSUME NEW x \in Waiting(s) PROVE x \in Head(s) \cup Waiting(t)
  <2>1. PICK i \in 1 .. Len(s) : x \in s[i]
    BY <1>2 DEF Waiting
  <2>2. CASE i = 1
    BY <2>1, <2>2, <1>1
  <2>3. CASE i # 1
    <3>1. i - 1 \in 1 .. Len(t) /\ t[i - 1] = s[(i - 1) + 1]
      BY <2>3, <1>1
    <3>2. (i - 1) + 1 = i
      OBVIOUS
    <3> QED
      BY <3>1, <3>2, <2>1 DEF Waiting
  <2> QED
    BY <2>2, <2>3
<1>3. ASSUME NEW x \in Head(s) \cup Waiting(t) PROVE x \in Waiting(s)
  <2>1. CASE x \in Head(s)
    BY <2>1, <1>1 DEF Waiting
  <2>2. CASE x \in Waiting(t)
    <3>1. PICK i \in 1 .. Len(t) : x \in t[i]
      BY <2>2 DEF Waiting
    <3>2. i + 1 \in 1 .. Len(s) /\ x \in s[i + 1]
      BY <3>1, <1>1
    <3> QED
      BY <3>2 DEF Waiting
  <2> QED
    BY <1>3, <2>1, <2>2
<1> QED
  BY <1>1, <1>2, <1>3

LEMMA LastPop ==
    ASSUME NEW s \in Seq(SUBSET Asset), s # <<>>
    PROVE  /\ Len(s) \in Nat
           /\ Len(Tail(s)) = Len(s) - 1
           /\ Tail(s) = <<>> <=> Len(s) = 1
<1>1. /\ Len(s) \in Nat \ {0}
      /\ Tail(s) \in Seq(SUBSET Asset)
      /\ Len(Tail(s)) = Len(s) - 1
  OBVIOUS
<1>2. Tail(s) = <<>> <=> Len(Tail(s)) = 0
  BY <1>1
<1> QED
  BY <1>1, <1>2

-----------------------------------------------------------------------------
(* The inductive invariant *)

WaitingIsResolved == Waiting(stack) \subseteq resolved

IdleBetweenRoots ==
    /\ pc \in {"initial", "roots", "done"} => found = {}
    /\ pc = "initial" => resolved = {} /\ scanned = {} /\ all = {}
    /\ pc = "descend" => stack # <<>>
    /\ pc = "done" => roots = {}

\* An asset is requested when it is resolved and as part of found.
RequestsCounted ==
    \A a \in Asset :
        /\ a \notin initial \cup resolved => fetches[a] = 0
        /\ a \in initial => fetches[a] <= IF pc = "initial" THEN 0 ELSE 1
        /\ a \in resolved => fetches[a] <= IF a \in found THEN 1 ELSE 2

\* Whatever is closed under imports of existing assets holds all there is.
WithinClosed ==
    \A C \in SUBSET Asset :
        ClosedWithout(missing, C) =>
            /\ all \subseteq C
            /\ roots \subseteq C
            /\ scanned \subseteq C
            /\ Waiting(stack) \subseteq C
            /\ found \ missing \subseteq C

Dependable == Asset \ (missing \cup Flaky)

\* What is reachable past dependable assets is in hand or still to come.
NothingForgotten ==
    /\ \A a \in scanned : refs[a] \subseteq initial \cup resolved
    /\ resolved \cap Dependable \subseteq scanned \cup Waiting(stack)
    /\ pc # "failed" =>
        /\ resolved \cap Dependable \subseteq all \cup found
        /\ initial \cap all \subseteq roots \cup scanned
        /\ pc # "initial" => initial \cap Dependable \subseteq all

IInv ==
    /\ TypeOK
    /\ WaitingIsResolved
    /\ IdleBetweenRoots
    /\ RequestsCounted
    /\ WithinClosed
    /\ NothingForgotten

-----------------------------------------------------------------------------
(* What a request and a scan give *)

LEMMA FetchedBounds ==
    ASSUME TypeOK, NEW A \in SUBSET Asset, NEW M \in Fetched(A)
    PROVE  /\ M \subseteq A
           /\ M \cap missing = {}
           /\ A \cap Dependable \subseteq M
BY DEF Fetched, Dependable, TypeOK

LEMMA RequestedCounts ==
    ASSUME TypeOK, NEW A \in SUBSET Asset
    PROVE  /\ Requested(A) \in [Asset -> Nat]
           /\ \A a \in A : Requested(A)[a] = fetches[a] + 1
           /\ \A a \in Asset \ A : Requested(A)[a] = fetches[a]
<1>1. fetches \in [Asset -> Nat]
  BY DEF TypeOK
<1>2. \A a \in Asset : fetches[a] \in Nat /\ fetches[a] + 1 \in Nat
  BY <1>1
<1> QED
  BY <1>1, <1>2 DEF Requested

\* A scan of a bundle with the rest of the stack as it is.
LEMMA ScanStep ==
    ASSUME IInv, ResolverAssumption, NEW a \in Asset, NEW rest \in Seq(SUBSET Asset),
           ScanInto(a, rest)
    PROVE  /\ New(a) \in SUBSET Asset
           /\ New(a) \cap (initial \cup resolved) = {}
           /\ refs[a] \subseteq initial \cup resolved \cup New(a)
           /\ \E M \in SUBSET New(a) :
                /\ M \cap missing = {}
                /\ New(a) \cap Dependable \subseteq M
                /\ stack' \in Seq(SUBSET Asset)
                /\ stack' # <<>>
                /\ Waiting(stack') = M \cup Waiting(rest)
<1>1. /\ New(a) \in SUBSET Asset
      /\ New(a) \cap (initial \cup resolved) = {}
      /\ refs[a] \subseteq initial \cup resolved \cup New(a)
  BY DEF New, IInv, TypeOK
<1>2. PICK M \in Fetched(New(a)) : stack' = <<M>> \o rest
  BY DEF ScanInto
<1>3. /\ M \in SUBSET New(a)
      /\ M \cap missing = {}
      /\ New(a) \cap Dependable \subseteq M
  BY <1>1, FetchedBounds DEF IInv
<1>4. /\ stack' \in Seq(SUBSET Asset)
      /\ Waiting(stack') = M \cup Waiting(rest)
  <2>1. M \in SUBSET Asset
    BY <1>1, <1>3
  <2> QED
    BY <1>2, <2>1, Push
<1>5. stack' # <<>>
  <2>1. M \in SUBSET Asset
    BY <1>1, <1>3
  <2>2. Len(<<M>> \o rest) = Len(rest) + 1
    BY <2>1
  <2> QED
    BY <1>2, <2>2
<1> QED
  BY <1>1, <1>3, <1>4, <1>5

-----------------------------------------------------------------------------
(* Every step preserves the invariant *)

LEMMA InitInvariant ==
    ASSUME Init, ResolverAssumption
    PROVE  IInv
<1>1. /\ refs \in [Asset -> SUBSET Asset]
      /\ initial \subseteq Asset
      /\ missing \subseteq Asset
  BY DEF Init, ResolverAssumption
<1>2. Waiting(stack) = {}
  BY DEF Init, Waiting
<1>3. TypeOK
  BY <1>1 DEF Init, TypeOK
<1> QED
  BY <1>1, <1>2, <1>3 DEF Init, IInv, WaitingIsResolved, IdleBetweenRoots,
     RequestsCounted, WithinClosed, NothingForgotten

LEMMA FetchInitialInvariant ==
    ASSUME IInv, ResolverAssumption, FetchInitialAssets
    PROVE  IInv'
<1> USE DEF FetchInitialAssets, site
<1>1. PICK M \in Fetched(initial) : all' = M /\ roots' = M
  OBVIOUS
<1>2. /\ M \subseteq initial
      /\ M \cap missing = {}
      /\ initial \cap Dependable \subseteq M
  <2>1. initial \in SUBSET Asset
    BY DEF IInv, TypeOK
  <2> QED
    BY <2>1, FetchedBounds DEF IInv
<1>3. /\ fetches' \in [Asset -> Nat]
      /\ \A a \in initial : fetches'[a] = fetches[a] + 1
      /\ \A a \in Asset \ initial : fetches'[a] = fetches[a]
  <2>1. initial \in SUBSET Asset
    BY DEF IInv, TypeOK
  <2> QED
    BY <2>1, RequestedCounts DEF IInv
<1>4. /\ pc = "initial" /\ found = {} /\ resolved = {} /\ scanned = {}
      /\ stack = <<>> /\ Waiting(stack) = {}
  BY DEF IInv, IdleBetweenRoots, TypeOK, Waiting
<1>5. TypeOK'
  BY <1>1, <1>2, <1>3, <1>4 DEF IInv, TypeOK
<1>6. RequestsCounted'
  <2>1. \A a \in Asset : fetches[a] \in Nat
    BY DEF IInv, TypeOK
  <2> QED
    BY <1>3, <1>4, <2>1 DEF IInv, RequestsCounted
<1>7. WithinClosed'
  <2> SUFFICES ASSUME NEW C \in SUBSET Asset, ClosedWithout(missing, C)
               PROVE  M \subseteq C
    BY <1>1, <1>4 DEF WithinClosed, ClosedWithout, Waiting
  <2> QED
    BY <1>2 DEF ClosedWithout
<1>8. NothingForgotten'
  BY <1>1, <1>2, <1>4 DEF NothingForgotten, Dependable
<1> QED
  BY <1>1, <1>4, <1>5, <1>6, <1>7, <1>8
     DEF IInv, WaitingIsResolved, IdleBetweenRoots, Waiting

\* What a scan does to the counts: New(a) was never requested before.
LEMMA ScanCounts ==
    ASSUME IInv, ResolverAssumption, NEW a \in Asset,
           pc \in {"roots", "descend"}, pc' = "descend", initial' = initial,
           fetches' = Requested(New(a)), resolved' = resolved \cup New(a),
           found' = found \cup New(a),
           New(a) \in SUBSET Asset, New(a) \cap (initial \cup resolved) = {}
    PROVE  fetches' \in [Asset -> Nat] /\ RequestsCounted'
<1>1. /\ fetches' \in [Asset -> Nat]
      /\ \A b \in New(a) : fetches'[b] = fetches[b] + 1
      /\ \A b \in Asset \ New(a) : fetches'[b] = fetches[b]
  BY RequestedCounts DEF IInv
<1>2. \A b \in Asset : fetches[b] \in Nat
  BY DEF IInv, TypeOK
<1>3. RequestsCounted /\ found \subseteq resolved
  BY DEF IInv, TypeOK
<1>4. ASSUME NEW b \in Asset
      PROVE  /\ b \notin initial \cup resolved' => fetches'[b] = 0
             /\ b \in initial => fetches'[b] <= 1
             /\ b \in resolved' => fetches'[b] <= IF b \in found' THEN 1 ELSE 2
  <2>1. CASE b \in New(a)
    BY <2>1, <1>1, <1>2, <1>3 DEF RequestsCounted
  <2>2. CASE b \notin New(a)
    BY <2>2, <1>1, <1>2, <1>3 DEF RequestsCounted
  <2> QED
    BY <2>1, <2>2
<1> QED
  BY <1>1, <1>4 DEF RequestsCounted

LEMMA ScanInvariant ==
    ASSUME IInv, ResolverAssumption, NEW a \in Asset, ScanRoot(a) \/ ScanDynamic(a)
    PROVE  IInv'
<1> DEFINE rest == IF pc = "roots" THEN <<>> ELSE <<Head(stack) \ {a}>> \o Tail(stack)
<1>1. /\ pc \in {"roots", "descend"}
      /\ pc' = "descend"
      /\ UNCHANGED <<refs, initial, missing, all>>
      /\ scanned' = scanned \cup {a}
      /\ resolved' = resolved \cup New(a)
      /\ fetches' = Requested(New(a))
      /\ ScanInto(a, rest)
      /\ pc = "roots" => a \in roots /\ roots' = roots \ {a} /\ found' = New(a)
      /\ pc = "descend" =>
            /\ stack # <<>> /\ a \in Head(stack) /\ roots' = roots
            /\ found' = found \cup New(a)
  BY DEF ScanRoot, ScanDynamic, ScanInto, site
<1>2. /\ found' = found \cup New(a)
      /\ pc = "roots" => found = {} /\ stack = <<>>
  BY <1>1 DEF IInv, IdleBetweenRoots, TypeOK
<1>3. /\ rest \in Seq(SUBSET Asset)
      /\ a \in roots \cup Waiting(stack)
      /\ Waiting(rest) \subseteq Waiting(stack)
      /\ Waiting(stack) \subseteq Waiting(rest) \cup {a}
  <2>1. CASE pc = "roots"
    <3>1. rest = <<>> /\ stack = <<>>
      BY <2>1, <1>2
    <3> HIDE DEF rest
    <3> QED
      BY <2>1, <3>1, <1>1 DEF Waiting
  <2>2. CASE pc = "descend"
    <3>1. stack \in Seq(SUBSET Asset) /\ stack # <<>>
      BY <2>2, <1>1 DEF IInv, TypeOK
    <3>2. /\ Head(stack) \in SUBSET Asset
          /\ Tail(stack) \in Seq(SUBSET Asset)
          /\ Waiting(stack) = Head(stack) \cup Waiting(Tail(stack))
      BY <3>1, Pop
    <3>3. Head(stack) \ {a} \in SUBSET Asset
      BY <3>2
    <3>4. rest = <<Head(stack) \ {a}>> \o Tail(stack)
      BY <2>2
    <3> HIDE DEF rest
    <3>5. /\ rest \in Seq(SUBSET Asset)
          /\ Waiting(rest) = (Head(stack) \ {a}) \cup Waiting(Tail(stack))
      BY <3>2, <3>3, <3>4, Push
    <3> QED
      BY <2>2, <1>1, <3>2, <3>5
  <2> QED
    BY <1>1, <2>1, <2>2
<1> HIDE DEF rest
<1>4. PICK M \in SUBSET New(a) :
        /\ M \cap missing = {}
        /\ New(a) \cap Dependable \subseteq M
        /\ stack' \in Seq(SUBSET Asset)
        /\ stack' # <<>>
        /\ Waiting(stack') = M \cup Waiting(rest)
  BY <1>1, <1>3, ScanStep
<1>5. /\ New(a) \in SUBSET Asset
      /\ New(a) \cap (initial \cup resolved) = {}
      /\ refs[a] \subseteq initial \cup resolved \cup New(a)
  BY <1>1, <1>3, ScanStep
<1>6. fetches' \in [Asset -> Nat] /\ RequestsCounted'
  BY <1>1, <1>2, <1>5, ScanCounts
<1>7. /\ a \in initial \cup resolved
      /\ Waiting(stack') \subseteq resolved'
  BY <1>1, <1>3, <1>4 DEF IInv, TypeOK, WaitingIsResolved
<1>8. TypeOK'
  <2>1. /\ refs \in [Asset -> SUBSET Asset]
        /\ initial \subseteq Asset
        /\ missing \subseteq Asset
        /\ roots \subseteq initial
        /\ found \subseteq resolved
        /\ resolved \subseteq Asset \ initial
        /\ all \subseteq initial \cup resolved
        /\ scanned \subseteq initial \cup resolved
    BY DEF IInv, TypeOK
  <2>2. roots' \subseteq initial
    BY <1>1, <2>1
  <2> QED
    BY <1>1, <1>2, <1>4, <1>5, <1>6, <1>7, <2>1, <2>2 DEF TypeOK
<1>9. WithinClosed'
  <2> SUFFICES ASSUME NEW C \in SUBSET Asset, ClosedWithout(missing, C)
               PROVE  /\ all' \subseteq C
                      /\ roots' \subseteq C
                      /\ scanned' \subseteq C
                      /\ Waiting(stack') \subseteq C
                      /\ found' \ missing \subseteq C
    BY <1>1 DEF WithinClosed, ClosedWithout
  <2>1. /\ all \subseteq C
        /\ roots \subseteq C
        /\ scanned \subseteq C
        /\ Waiting(stack) \subseteq C
        /\ found \ missing \subseteq C
    BY DEF IInv, WithinClosed
  <2>2. a \in C
    BY <1>3, <2>1
  <2>3. New(a) \ missing \subseteq C
    BY <2>2 DEF ClosedWithout, New
  <2> QED
    BY <1>1, <1>2, <1>3, <1>4, <2>1, <2>2, <2>3
<1>10. NothingForgotten'
  <2>1. NothingForgotten
    BY DEF IInv
  <2>2. \A b \in scanned' : refs[b] \subseteq initial \cup resolved'
    BY <1>1, <1>5, <2>1 DEF NothingForgotten
  <2>3. resolved' \cap Dependable \subseteq scanned' \cup Waiting(stack')
    BY <1>1, <1>3, <1>4, <2>1 DEF NothingForgotten
  <2>4. /\ resolved' \cap Dependable \subseteq all \cup found'
        /\ initial \cap all \subseteq roots' \cup scanned'
        /\ initial \cap Dependable \subseteq all
    BY <1>1, <1>2, <2>1 DEF NothingForgotten, Dependable
  <2>5. Dependable' = Dependable
    BY <1>1 DEF Dependable
  <2> QED
    BY <1>1, <2>2, <2>3, <2>4, <2>5 DEF NothingForgotten
<1> QED
  BY <1>1, <1>4, <1>6, <1>7, <1>8, <1>9, <1>10
     DEF IInv, WaitingIsResolved, IdleBetweenRoots

LEMMA ReturnInvariant ==
    ASSUME IInv, ResolverAssumption, ReturnFromScan
    PROVE  IInv'
<1> USE DEF ReturnFromScan, site
<1>1. stack \in Seq(SUBSET Asset) /\ stack # <<>> /\ Head(stack) = {}
  BY DEF IInv, TypeOK
<1>2. /\ stack' \in Seq(SUBSET Asset)
      /\ Waiting(stack') = Waiting(stack)
  BY <1>1, Pop
<1>3. /\ pc' = "collect" => stack' = <<>>
      /\ pc' # "collect" => stack' # <<>> /\ pc' = "descend"
  BY <1>1, LastPop
<1>4. TypeOK'
  BY <1>2, <1>3 DEF IInv, TypeOK
<1>5. NothingForgotten'
  BY <1>2, <1>3 DEF IInv, NothingForgotten, Dependable
<1>6. WithinClosed'
  BY <1>2 DEF IInv, WithinClosed, ClosedWithout
<1>7. RequestsCounted'
  BY <1>3 DEF IInv, RequestsCounted
<1> QED
  BY <1>2, <1>3, <1>4, <1>5, <1>6, <1>7 DEF IInv, WaitingIsResolved, IdleBetweenRoots

LEMMA CollectInvariant ==
    ASSUME IInv, ResolverAssumption, Collect
    PROVE  IInv'
<1> USE DEF Collect, site
<1>1. PICK M \in Fetched(found) : all' = all \cup M
  OBVIOUS
<1>2. /\ found \in SUBSET Asset
      /\ found \subseteq resolved
      /\ resolved \subseteq Asset \ initial
  BY DEF IInv, TypeOK
<1>3. /\ M \subseteq found
      /\ M \cap missing = {}
      /\ found \cap Dependable \subseteq M
  BY <1>2, FetchedBounds DEF IInv
<1>4. /\ fetches' \in [Asset -> Nat]
      /\ \A a \in found : fetches'[a] = fetches[a] + 1
      /\ \A a \in Asset \ found : fetches'[a] = fetches[a]
  BY <1>2, RequestedCounts DEF IInv
<1>5. stack = <<>>
  BY DEF IInv, TypeOK
<1>6. TypeOK'
  BY <1>1, <1>2, <1>3, <1>4, <1>5 DEF IInv, TypeOK
<1>7. RequestsCounted'
  <2>1. \A a \in Asset : fetches[a] \in Nat
    BY DEF IInv, TypeOK
  <2>2. RequestsCounted
    BY DEF IInv
  <2> QED
    BY <1>2, <1>4, <2>1, <2>2 DEF RequestsCounted
<1>8. WithinClosed'
  <2> SUFFICES ASSUME NEW C \in SUBSET Asset, ClosedWithout(missing, C)
               PROVE  M \subseteq C
    BY <1>1 DEF IInv, WithinClosed, ClosedWithout
  <2> QED
    BY <1>3 DEF IInv, WithinClosed
<1>9. NothingForgotten'
  BY <1>1, <1>2, <1>3 DEF IInv, NothingForgotten, Dependable
<1> QED
  BY <1>6, <1>7, <1>8, <1>9 DEF IInv, WaitingIsResolved, IdleBetweenRoots

\* The ends, and stuttering.
LEMMA EndInvariant ==
    ASSUME IInv, Finish \/ Fail \/ UNCHANGED vars
    PROVE  IInv'
<1> USE DEF site
<1>1. CASE Finish
  <2>1. TypeOK'
    BY <1>1 DEF Finish, IInv, TypeOK
  <2> QED
    BY <1>1, <2>1 DEF Finish, IInv, WaitingIsResolved, IdleBetweenRoots,
       RequestsCounted, WithinClosed, ClosedWithout, NothingForgotten, Dependable
<1>2. CASE Fail
  <2>1. TypeOK'
    BY <1>2 DEF Fail, IInv, TypeOK
  <2>2. RequestsCounted'
    <3>1. \A a \in Asset : fetches[a] \in Nat
      BY DEF IInv, TypeOK
    <3> QED
      BY <1>2, <3>1 DEF Fail, IInv, RequestsCounted
  <2> QED
    BY <1>2, <2>1, <2>2 DEF Fail, IInv, WaitingIsResolved, IdleBetweenRoots,
       WithinClosed, ClosedWithout, NothingForgotten, Dependable
<1>3. CASE UNCHANGED vars
  <2>1. TypeOK'
    BY <1>3 DEF vars, IInv, TypeOK
  <2> QED
    BY <1>3, <2>1 DEF vars, IInv, WaitingIsResolved, IdleBetweenRoots,
       RequestsCounted, WithinClosed, ClosedWithout, NothingForgotten, Dependable
<1> QED
  BY <1>1, <1>2, <1>3

\* The strengthening of all four properties below.
THEOREM Inductive == Spec => []IInv
<1>1. Init => IInv
  BY ResolverAssumption, InitInvariant
<1>2. IInv /\ [Next]_vars => IInv'
  <2> SUFFICES ASSUME IInv, [Next]_vars PROVE IInv'
    OBVIOUS
  <2>1. CASE FetchInitialAssets
    BY <2>1, ResolverAssumption, FetchInitialInvariant
  <2>2. ASSUME NEW a \in Asset, ScanRoot(a) \/ ScanDynamic(a) PROVE IInv'
    BY <2>2, ResolverAssumption, ScanInvariant
  <2>3. CASE ReturnFromScan
    BY <2>3, ResolverAssumption, ReturnInvariant
  <2>4. CASE Collect
    BY <2>4, ResolverAssumption, CollectInvariant
  <2>5. CASE Finish \/ Fail \/ UNCHANGED vars
    BY <2>5, EndInvariant
  <2> QED
    BY <2>1, <2>2, <2>3, <2>4, <2>5 DEF Next, Step
<1> QED
  BY <1>1, <1>2, PTL DEF Spec

-----------------------------------------------------------------------------
(* The end comes closer *)

Disjoint(s) == \A i, j \in 1 .. Len(s) : i # j => s[i] \cap s[j] = {}

\* What waits to be searched was not searched yet, and waits in one place only.
SearchedOnce ==
    /\ roots \cap scanned = {}
    /\ Waiting(stack) \cap scanned = {}
    /\ Disjoint(stack)

LEMMA PushDisjoint ==
    ASSUME NEW s \in Seq(SUBSET Asset), NEW M \in SUBSET Asset,
           Disjoint(s), M \cap Waiting(s) = {}
    PROVE  Disjoint(<<M>> \o s)
<1> DEFINE t == <<M>> \o s
<1>1. /\ Len(t) = Len(s) + 1
      /\ t[1] = M
      /\ \A i \in 1 .. Len(t) : i # 1 => i - 1 \in 1 .. Len(s) /\ t[i] = s[i - 1]
  OBVIOUS
<1>2. \A i \in 1 .. Len(s) : M \cap s[i] = {}
  BY DEF Waiting
<1> HIDE DEF t
<1>3. ASSUME NEW i \in 1 .. Len(t), NEW j \in 1 .. Len(t), i # j
      PROVE  t[i] \cap t[j] = {}
  <2>1. CASE i = 1
    BY <1>1, <1>2, <1>3, <2>1
  <2>2. CASE j = 1
    BY <1>1, <1>2, <1>3, <2>2
  <2>3. CASE i # 1 /\ j # 1
    <3>1. i - 1 # j - 1
      BY <1>3
    <3> QED
      BY <1>1, <2>3, <3>1 DEF Disjoint
  <2> QED
    BY <2>1, <2>2, <2>3
<1> QED
  BY <1>3 DEF Disjoint, t

LEMMA PopDisjoint ==
    ASSUME NEW s \in Seq(SUBSET Asset), s # <<>>, Disjoint(s)
    PROVE  /\ Disjoint(Tail(s))
           /\ Head(s) \cap Waiting(Tail(s)) = {}
<1> DEFINE t == Tail(s)
<1>1. /\ Len(s) \in Nat \ {0}
      /\ Len(t) = Len(s) - 1
      /\ \A i \in 1 .. Len(t) : i + 1 \in 1 .. Len(s) /\ t[i] = s[i + 1]
      /\ Head(s) = s[1]
  OBVIOUS
<1> HIDE DEF t
<1>2. ASSUME NEW i \in 1 .. Len(t), NEW j \in 1 .. Len(t), i # j
      PROVE  t[i] \cap t[j] = {}
  <2>1. i + 1 # j + 1
    BY <1>2
  <2> QED
    BY <1>1, <2>1 DEF Disjoint
<1>3. \A i \in 1 .. Len(t) : s[1] \cap t[i] = {}
  <2> TAKE i \in 1 .. Len(t)
  <2>1. 1 \in 1 .. Len(s) /\ i + 1 # 1
    BY <1>1
  <2> QED
    BY <1>1, <2>1 DEF Disjoint
<1> QED
  BY <1>1, <1>2, <1>3 DEF Disjoint, Waiting, t

\* A scan takes its bundle from where it waits, and what it adds is new.
LEMMA ScanOnce ==
    ASSUME IInv, ResolverAssumption, SearchedOnce,
           NEW a \in Asset, ScanRoot(a) \/ ScanDynamic(a)
    PROVE  /\ SearchedOnce'
           /\ a \notin scanned
           /\ scanned' = scanned \cup {a}
           /\ pc' = "descend"
           /\ Len(stack) \in Nat
           /\ Len(stack') = Len(stack) + 1
           /\ pc \in {"roots", "descend"}
<1> DEFINE rest == IF pc = "roots" THEN <<>> ELSE <<Head(stack) \ {a}>> \o Tail(stack)
<1>1. /\ pc \in {"roots", "descend"}
      /\ pc' = "descend"
      /\ scanned' = scanned \cup {a}
      /\ ScanInto(a, rest)
      /\ pc = "roots" => a \in roots /\ roots' = roots \ {a}
      /\ pc = "descend" => stack # <<>> /\ a \in Head(stack) /\ roots' = roots
  BY DEF ScanRoot, ScanDynamic, ScanInto
<1>2. /\ roots \subseteq initial
      /\ Waiting(stack) \subseteq resolved
      /\ initial \cap resolved = {}
      /\ scanned \subseteq initial \cup resolved
  BY DEF IInv, TypeOK, WaitingIsResolved
<1>3. stack \in Seq(SUBSET Asset) /\ (pc = "roots" => stack = <<>>)
  BY DEF IInv, TypeOK
\* The rest of the stack, of which the top is a frame less a.
<1>4. /\ rest \in Seq(SUBSET Asset)
      /\ Disjoint(rest)
      /\ a \notin Waiting(rest)
      /\ Waiting(rest) \subseteq Waiting(stack)
      /\ a \in roots \cup Waiting(stack)
      /\ a \in roots' => FALSE
      /\ roots' \subseteq roots
      /\ Len(rest) = IF pc = "roots" THEN 0 ELSE Len(stack)
  <2>1. CASE pc = "roots"
    <3>1. rest = <<>> /\ stack = <<>>
      BY <2>1, <1>3
    <3> HIDE DEF rest
    <3> QED
      BY <2>1, <3>1, <1>1 DEF Waiting, Disjoint
  <2>2. CASE pc = "descend"
    <3>1. stack \in Seq(SUBSET Asset) /\ stack # <<>>
      BY <2>2, <1>1, <1>3
    <3>2. /\ Head(stack) \in SUBSET Asset
          /\ Tail(stack) \in Seq(SUBSET Asset)
          /\ Waiting(stack) = Head(stack) \cup Waiting(Tail(stack))
      BY <3>1, Pop
    <3>3. /\ Disjoint(Tail(stack))
          /\ Head(stack) \cap Waiting(Tail(stack)) = {}
      BY <3>1, PopDisjoint DEF SearchedOnce
    <3>4. Head(stack) \ {a} \in SUBSET Asset
      BY <3>2
    <3>5. rest = <<Head(stack) \ {a}>> \o Tail(stack)
      BY <2>2
    <3>6. Len(rest) = Len(stack)
      <4>1. Len(stack) \in Nat \ {0} /\ Len(Tail(stack)) = Len(stack) - 1
        BY <3>1
      <4>2. Len(rest) = 1 + Len(Tail(stack))
        BY <3>2, <3>4, <3>5
      <4> QED
        BY <4>1, <4>2
    <3> HIDE DEF rest
    <3>7. /\ rest \in Seq(SUBSET Asset)
          /\ Waiting(rest) = (Head(stack) \ {a}) \cup Waiting(Tail(stack))
      BY <3>2, <3>4, <3>5, Push
    <3>8. (Head(stack) \ {a}) \cap Waiting(Tail(stack)) = {}
      BY <3>3
    <3>9. Disjoint(rest)
      BY <3>2, <3>3, <3>4, <3>5, <3>8, PushDisjoint
    <3> QED
      BY <2>2, <1>1, <1>2, <3>2, <3>3, <3>6, <3>7, <3>9
  <2> QED
    BY <1>1, <2>1, <2>2
<1> HIDE DEF rest
<1>5. PICK M \in Fetched(New(a)) : stack' = <<M>> \o rest
  BY <1>1 DEF ScanInto
<1>6. /\ M \in SUBSET Asset
      /\ M \cap (initial \cup resolved) = {}
  BY FetchedBounds DEF New, IInv, TypeOK
<1>7. /\ Waiting(stack') = M \cup Waiting(rest)
      /\ Disjoint(stack')
  <2>1. M \cap Waiting(rest) = {}
    BY <1>2, <1>4, <1>6
  <2> QED
    BY <1>4, <1>5, <1>6, <2>1, Push, PushDisjoint
<1>8. a \notin scanned
  BY <1>4 DEF SearchedOnce
<1>9. SearchedOnce'
  BY <1>1, <1>2, <1>4, <1>6, <1>7 DEF SearchedOnce
<1>10. Len(stack') = 1 + Len(rest)
  BY <1>4, <1>5, <1>6
<1>11. Len(stack) \in Nat /\ Len(rest) = Len(stack)
  <2>1. pc = "roots" => Len(stack) = 0
    BY <1>3
  <2> QED
    BY <1>3, <1>4, <2>1
<1>12. Len(stack') = Len(stack) + 1
  BY <1>10, <1>11
<1> QED
  BY <1>1, <1>8, <1>9, <1>11, <1>12

LEMMA SearchedOnceNext ==
    IInv /\ ResolverAssumption /\ SearchedOnce /\ [Next]_vars => SearchedOnce'
<1> SUFFICES ASSUME IInv, ResolverAssumption, SearchedOnce, [Next]_vars
             PROVE  SearchedOnce'
  OBVIOUS
<1>1. CASE FetchInitialAssets
  <2>1. scanned = {} /\ stack = <<>> /\ scanned' = scanned /\ stack' = stack
    BY <1>1 DEF FetchInitialAssets, IInv, IdleBetweenRoots, TypeOK
  <2> QED
    BY <2>1 DEF SearchedOnce, Waiting, Disjoint
<1>2. ASSUME NEW a \in Asset, ScanRoot(a) \/ ScanDynamic(a) PROVE SearchedOnce'
  BY <1>2, ScanOnce
<1>3. CASE ReturnFromScan
  <2>1. /\ stack \in Seq(SUBSET Asset) /\ stack # <<>> /\ Head(stack) = {}
        /\ stack' = Tail(stack) /\ UNCHANGED <<roots, scanned>>
    BY <1>3 DEF ReturnFromScan, IInv, TypeOK
  <2>2. Waiting(stack) = Waiting(Tail(stack))
    BY <2>1, Pop
  <2>3. Disjoint(Tail(stack))
    BY <2>1, PopDisjoint DEF SearchedOnce
  <2> QED
    BY <2>1, <2>2, <2>3 DEF SearchedOnce
<1>4. CASE Collect \/ Finish \/ Fail \/ UNCHANGED vars
  <2>1. UNCHANGED <<roots, stack, scanned>>
    BY <1>4 DEF Collect, Finish, Fail, vars
  <2> QED
    BY <2>1 DEF SearchedOnce, Waiting, Disjoint
<1> QED
  BY <1>1, <1>2, <1>3, <1>4 DEF Next, Step

LEMMA Closer ==
    ASSUME IInv, ResolverAssumption, SearchedOnce, Next
    PROVE  Remaining' < Remaining
<1> DEFINE c == Cardinality(Asset \ scanned)
           present == CASE pc \in {"done", "failed"} -> 0
                        [] pc = "roots" -> 1
                        [] OTHER -> 2
<1>1. /\ c \in Nat /\ Len(stack) \in Nat /\ present \in Nat
      /\ Remaining = 3 * c + Len(stack) + present
      /\ Remaining' = 3 * c' + Len(stack') + present'
  <2>1. IsFiniteSet(Asset \ scanned)
    BY FS_Subset, Asset \ scanned \in SUBSET Asset DEF ResolverAssumption
  <2>2. c \in Nat
    BY <2>1, FS_CardinalityType
  <2>3. Len(stack) \in Nat
    BY DEF IInv, TypeOK
  <2>4. present \in Nat
    OBVIOUS
  <2>5. Remaining = 3 * c + Len(stack) + present
    BY Zenon DEF Remaining
  <2>6. Remaining' = 3 * c' + Len(stack') + present'
    BY Zenon DEF Remaining
  <2> QED
    BY <2>2, <2>3, <2>4, <2>5, <2>6
<1>2. ASSUME scanned' = scanned PROVE c' = c
  BY <1>2
<1>3. CASE FetchInitialAssets
  <2>1. /\ pc = "initial" /\ pc' = "roots"
        /\ UNCHANGED <<scanned, stack>>
    BY <1>3 DEF FetchInitialAssets
  <2>2. present = 2 /\ present' = 1 /\ Len(stack') = Len(stack) /\ c' = c
    BY <2>1, <1>2
  <2> HIDE DEF c, present
  <2> QED
    BY <1>1, <2>2
<1>4. ASSUME NEW a \in Asset, ScanRoot(a) \/ ScanDynamic(a)
      PROVE  Remaining' < Remaining
  <2>1. /\ a \notin scanned
        /\ scanned' = scanned \cup {a}
        /\ pc' = "descend"
        /\ Len(stack') = Len(stack) + 1
        /\ pc \in {"roots", "descend"}
    BY <1>4, ScanOnce
  <2>2. c' = c - 1
    <3>1. IsFiniteSet(Asset \ scanned)
      BY FS_Subset, Asset \ scanned \in SUBSET Asset DEF ResolverAssumption
    <3>2. Asset \ scanned' = (Asset \ scanned) \ {a} /\ a \in Asset \ scanned
      BY <2>1
    <3>3. Cardinality((Asset \ scanned) \ {a}) = Cardinality(Asset \ scanned) - 1
      BY <3>1, <3>2, FS_RemoveElement
    <3> QED
      BY <3>2, <3>3
  <2>3. present \in {1, 2} /\ present' = 2
    BY <2>1
  <2> HIDE DEF c, present
  <2> QED
    BY <1>1, <2>1, <2>2, <2>3
<1>5. CASE ReturnFromScan
  <2>1. /\ pc = "descend" /\ pc' \in {"descend", "collect"}
        /\ stack' = Tail(stack) /\ stack # <<>>
        /\ scanned' = scanned
    BY <1>5 DEF ReturnFromScan
  <2>2. Len(stack') = Len(stack) - 1
    BY <2>1 DEF IInv, TypeOK
  <2>3. present = 2 /\ present' = 2 /\ c' = c
    BY <2>1, <1>2
  <2> HIDE DEF c, present
  <2> QED
    BY <1>1, <2>2, <2>3
<1>6. CASE Collect \/ Finish \/ Fail
  <2>1. /\ UNCHANGED <<scanned, stack>>
        /\ \/ pc = "collect" /\ pc' = "roots"
           \/ pc = "roots" /\ pc' = "done"
           \/ pc \in {"initial", "roots", "descend", "collect"} /\ pc' = "failed"
    BY <1>6 DEF Collect, Finish, Fail
  <2>2. present' < present
    BY <2>1
  <2>3. Len(stack') = Len(stack) /\ c' = c
    BY <2>1, <1>2
  <2>4. present' \in Nat
    BY DEF present
  <2> HIDE DEF c, present
  <2> QED
    BY <1>1, <2>2, <2>3, <2>4
<1> QED
  BY <1>3, <1>4, <1>5, <1>6 DEF Next, Step

LEMMA SearchedOnceInvariance == Spec => []SearchedOnce
<1>1. Init => SearchedOnce
  BY DEF Init, SearchedOnce, Waiting, Disjoint
<1>2. IInv /\ SearchedOnce /\ [Next]_vars => SearchedOnce'
  BY ResolverAssumption, SearchedOnceNext
<1> QED
  BY <1>1, <1>2, Inductive, PTL DEF Spec

-----------------------------------------------------------------------------
(* The properties *)

\* Types of resolveAllSiteAssets; the shared map never holds an initial asset.
THEOREM TypeCorrect == Spec => []TypeOK
<1>1. IInv => TypeOK
  BY DEF IInv
<1> QED
  BY <1>1, Inductive, PTL

\* For any site: nothing is collected that no chain of imports of existing
\* assets leads to, whatever comes and goes between the two requests.
THEOREM OnlyReachable == Spec => []CollectsOnlyReachable
<1>1. IInv => CollectsOnlyReachable
  <2> SUFFICES ASSUME IInv, NEW a \in all PROVE a \in ReachableWithout(missing)
    BY DEF CollectsOnlyReachable
  <2>1. a \in Asset
    BY DEF IInv, TypeOK
  <2>2. ASSUME NEW C \in SUBSET Asset, ClosedWithout(missing, C) PROVE a \in C
    BY <2>2 DEF IInv, WithinClosed
  <2> QED
    BY <2>1, <2>2 DEF ReachableWithout
<1> QED
  BY <1>1, Inductive, PTL

\* For any site and any order of the loops: at the end all that is reachable
\* past dependable assets is collected.  What was both collected and scanned is
\* closed, so that nothing reachable lies outside it.
THEOREM AllReachable == Spec => []CollectsReachable
<1>1. IInv => CollectsReachable
  <2> SUFFICES ASSUME IInv, pc = "done"
               PROVE  ReachableWithout(missing \cup Flaky) \subseteq all
    BY DEF CollectsReachable
  <2> DEFINE Gone == missing \cup Flaky
  <2> DEFINE C == all \cap scanned
  <2>1. /\ refs \in [Asset -> SUBSET Asset]
        /\ initial \subseteq Asset
        /\ resolved \subseteq Asset
        /\ all \subseteq Asset
        /\ stack = <<>>
        /\ found = {}
        /\ roots = {}
    BY DEF IInv, TypeOK, IdleBetweenRoots
  <2>2. Waiting(stack) = {}
    BY <2>1 DEF Waiting
  <2>3. NothingForgotten
    BY DEF IInv
  <2>4. initial \ Gone \subseteq C
    BY <2>1, <2>3 DEF NothingForgotten, Dependable
  <2>5. resolved \ Gone \subseteq C
    BY <2>1, <2>2, <2>3 DEF NothingForgotten, Dependable
  <2>6. ASSUME NEW a \in C PROVE refs[a] \ Gone \subseteq C
    <3>1. refs[a] \subseteq initial \cup resolved
      BY <2>3 DEF NothingForgotten
    <3> QED
      BY <3>1, <2>4, <2>5
  <2>7. C \in SUBSET Asset /\ ClosedWithout(Gone, C)
    BY <2>1, <2>4, <2>6 DEF ClosedWithout
  <2> HIDE DEF C
  <2>8. ReachableWithout(Gone) \subseteq C
    BY <2>7 DEF ReachableWithout
  <2> QED
    BY <2>8 DEF C
<1> QED
  BY <1>1, Inductive, PTL

\* For any site: one request for an initial asset, two for any other.
THEOREM TwoRequests == Spec => []AtMostTwoRequests
<1>1. IInv => AtMostTwoRequests
  <2> SUFFICES ASSUME IInv, NEW a \in Asset
               PROVE  fetches[a] <= IF a \in initial THEN 1 ELSE 2
    BY DEF AtMostTwoRequests
  <2>1. fetches[a] \in Nat
    BY DEF IInv, TypeOK
  <2>2. RequestsCounted
    BY DEF IInv
  <2>3. CASE a \in initial
    BY <2>1, <2>2, <2>3 DEF RequestsCounted
  <2>4. CASE a \in resolved /\ a \notin initial
    BY <2>1, <2>2, <2>4 DEF RequestsCounted
  <2>5. CASE a \notin initial \cup resolved
    BY <2>1, <2>2, <2>5 DEF RequestsCounted
  <2> QED
    BY <2>3, <2>4, <2>5
<1> QED
  BY <1>1, Inductive, PTL

\* On a site that answers steadily: what is collected is exactly what is reachable.
THEOREM ExactlyReachable ==
    Spec => [](pc = "done" /\ Flaky = {} => all = ReachableWithout(missing))
<1>1. /\ CollectsReachable
      /\ CollectsOnlyReachable
      => (pc = "done" /\ Flaky = {} => all = ReachableWithout(missing))
  <2> SUFFICES ASSUME CollectsReachable, CollectsOnlyReachable, pc = "done", Flaky = {}
               PROVE  all = ReachableWithout(missing)
    OBVIOUS
  <2>1. missing \cup Flaky = missing
    OBVIOUS
  <2> QED
    BY <2>1 DEF CollectsReachable, CollectsOnlyReachable
<1> QED
  BY <1>1, AllReachable, OnlyReachable, PTL

\* For any site of finitely many assets: every step brings the end closer, and
\* there is only so far to go, at first three steps for each asset and two.
THEOREM EndComesCloser ==
    Spec => /\ ComesCloser
            /\ [](Remaining \in Nat)
            /\ Remaining = 3 * Cardinality(Asset) + 2
<1>1. IInv /\ SearchedOnce /\ [Next]_vars => [Remaining' < Remaining]_vars
  BY ResolverAssumption, Closer
<1>2. IInv => Remaining \in Nat
  <2> SUFFICES ASSUME IInv PROVE Remaining \in Nat
    OBVIOUS
  <2>1. IsFiniteSet(Asset \ scanned)
    BY ResolverAssumption, FS_Subset, Asset \ scanned \in SUBSET Asset
       DEF ResolverAssumption
  <2>2. Cardinality(Asset \ scanned) \in Nat /\ Len(stack) \in Nat
    BY <2>1, FS_CardinalityType DEF IInv, TypeOK
  <2> QED
    BY <2>2 DEF Remaining
<1>3. Init => Remaining = 3 * Cardinality(Asset) + 2
  <2> SUFFICES ASSUME Init PROVE Remaining = 3 * Cardinality(Asset) + 2
    OBVIOUS
  <2>1. Asset \ scanned = Asset /\ Len(stack) = 0 /\ pc = "initial"
    BY DEF Init
  <2>2. Cardinality(Asset) \in Nat
    BY ResolverAssumption, FS_CardinalityType DEF ResolverAssumption
  <2>3. Remaining = 3 * Cardinality(Asset \ scanned) + Len(stack) + 2
    BY <2>1 DEF Remaining
  <2>4. Cardinality(Asset \ scanned) = Cardinality(Asset)
    BY <2>1
  <2> QED
    BY <2>1, <2>2, <2>3, <2>4
<1> QED
  BY <1>1, <1>2, <1>3, Inductive, SearchedOnceInvariance, PTL DEF Spec, ComesCloser

=============================================================================
