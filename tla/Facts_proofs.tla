---------------------------- MODULE Facts_proofs ----------------------------
(***************************************************************************)
(* Proofs about the facts of an index, for any program, any answers and    *)
(* any order of merging: the invariant IInv of module Facts is inductive,  *)
(* so that contexts, callers and references are right, and no fact that    *)
(* has its symbols is dropped.  At the end, what normalizeFnPtrType of     *)
(* module FnTypes does to every type.                                      *)
(***************************************************************************)
EXTENDS Facts, Induction, SequenceTheorems

-----------------------------------------------------------------------------
(* The nodes along a path                                                  *)

\* The recursion of NodesOn has its solution.
LEMMA NodesOnStep ==
    ASSUME NEW p, NEW k, NEW path, Len(path) \in Nat
    PROVE  /\ NodesOn(p, k, path)[0] = p[k].ast
           /\ \A n \in 1 .. Len(path) :
                 NodesOn(p, k, path)[n] = NodesOn(p, k, path)[n - 1].children[path[n]]
<1> DEFINE N == Len(path)
           Solves(g, m) == g = [n \in 0 .. m |-> IF n = 0 THEN p[k].ast ELSE g[n - 1].children[path[n]]]
           T == {m \in 0 .. N : \E g : Solves(g, m)}
<1>1. 0 \in T
  <2>1. Solves([n \in 0 .. 0 |-> p[k].ast], 0)
    OBVIOUS
  <2> HIDE DEF Solves
  <2>2. \E g : Solves(g, 0)
    BY <2>1
  <2> QED
    BY <2>2
<1>2. ASSUME NEW m \in 0 .. N - 1, m \in T PROVE m + 1 \in T
  <2>1. PICK g : Solves(g, m)
    BY <1>2
  <2> DEFINE h == [n \in 0 .. m + 1 |-> IF n = m + 1 THEN g[m].children[path[n]] ELSE g[n]]
  <2>2. ASSUME NEW n \in 0 .. m + 1
        PROVE  h[n] = IF n = 0 THEN p[k].ast ELSE h[n - 1].children[path[n]]
    <3>1. CASE n = m + 1
      BY <3>1
    <3>2. CASE n # m + 1
      <4>1. n \in 0 .. m /\ (n # 0 => n - 1 \in 0 .. m)
        BY <3>2
      <4>2. g[n] = IF n = 0 THEN p[k].ast ELSE g[n - 1].children[path[n]]
        BY <2>1, <4>1
      <4> QED
        BY <3>2, <4>1, <4>2
    <3> QED
      BY <3>1, <3>2
  <2>3. Solves(h, m + 1)
    BY <2>2
  <2> HIDE DEF Solves, h
  <2>4. \E s : Solves(s, m + 1)
    BY <2>3
  <2> QED
    BY <2>4
<1>3. N \in T
  <2> HIDE DEF T
  <2>1. 0 .. N \subseteq T
    BY <1>1, <1>2, InductionUpTo
  <2> QED
    BY <2>1
<1>4. \E g : Solves(g, N)
  BY <1>3
<1>5. NodesOn(p, k, path) = CHOOSE g : Solves(g, N)
  BY DEF NodesOn
<1>6. Solves(NodesOn(p, k, path), N)
  <2> HIDE DEF Solves
  <2> QED
    BY <1>4, <1>5
<1> QED
  BY <1>6

\* Along two paths the nodes are the same as far as the paths are.
LEMMA SamePrefix ==
    ASSUME NEW p, NEW k, NEW path, NEW other, Len(path) \in Nat, Len(other) \in Nat,
           NEW m \in Nat, m <= Len(path), m <= Len(other), \A j \in 1 .. m : path[j] = other[j]
    PROVE  \A n \in 0 .. m : NodesOn(p, k, path)[n] = NodesOn(p, k, other)[n]
<1> DEFINE T == {n \in 0 .. m : NodesOn(p, k, path)[n] = NodesOn(p, k, other)[n]}
<1>1. 0 \in T
  BY NodesOnStep
<1>2. ASSUME NEW n \in 0 .. m - 1, n \in T PROVE n + 1 \in T
  <2>1. /\ n + 1 \in 1 .. Len(path) /\ n + 1 \in 1 .. Len(other) /\ n + 1 \in 1 .. m
        /\ (n + 1) - 1 = n
    OBVIOUS
  <2>2. /\ NodesOn(p, k, path)[n + 1] = NodesOn(p, k, path)[n].children[path[n + 1]]
        /\ NodesOn(p, k, other)[n + 1] = NodesOn(p, k, other)[n].children[other[n + 1]]
    BY <2>1, NodesOnStep
  <2> QED
    BY <1>2, <2>1, <2>2
<1>3. 0 .. m \subseteq T
  <2> HIDE DEF T
  <2> QED
    BY <1>1, <1>2, InductionUpTo
<1> QED
  BY <1>3

\* A path in the tree of a TU: every step goes to a child.
InTree(p, k, path) ==
    /\ path \in Seq(Nat)
    /\ \A n \in 1 .. Len(path) :
          path[n] \in 1 .. Len(NodesOn(p, k, path)[n - 1].children)

\* A path in the tree goes on to each child of the node it leads to.
LEMMA LongerPath ==
    ASSUME NEW p, NEW k, NEW path, InTree(p, k, path),
           NEW i \in 1 .. Len(NodeAt(p, k, path).children)
    PROVE  InTree(p, k, Append(path, i)) /\ Len(Append(path, i)) = Len(path) + 1
<1> DEFINE L == Len(path)
           longer == Append(path, i)
<1>1. CASE i \in Nat
  <2>1. path \in Seq(Nat) /\ L \in Nat
    BY DEF InTree
  <2>2. /\ longer \in Seq(Nat) /\ Len(longer) = L + 1 /\ longer[L + 1] = i
        /\ \A n \in 1 .. L : longer[n] = path[n]
    BY <1>1, <2>1
  <2> HIDE DEF longer
  <2>3. \A n \in 0 .. L : NodesOn(p, k, path)[n] = NodesOn(p, k, longer)[n]
    <3>1. L <= Len(path) /\ L <= Len(longer) /\ Len(longer) \in Nat
      BY <2>1, <2>2
    <3>2. \A n \in 1 .. L : path[n] = longer[n]
      BY <2>2
    <3> HIDE DEF L
    <3>3. Len(path) \in Nat
      BY <2>1 DEF L
    <3> QED
      BY <2>1, <3>1, <3>2, <3>3, SamePrefix
  <2>4. ASSUME NEW n \in 1 .. L + 1
        PROVE  longer[n] \in 1 .. Len(NodesOn(p, k, longer)[n - 1].children)
    <3>1. n - 1 \in 0 .. L
      BY <2>1
    <3>2. NodesOn(p, k, longer)[n - 1] = NodesOn(p, k, path)[n - 1]
      BY <2>3, <3>1
    <3>3. CASE n = L + 1
      <4>1. n - 1 = L
        BY <2>1, <3>3
      <4> QED
        BY <2>2, <3>2, <3>3, <4>1 DEF NodeAt
    <3>4. CASE n \in 1 .. L
      BY <2>2, <3>2, <3>4 DEF InTree
    <3> QED
      BY <2>1, <3>3, <3>4
  <2> QED
    BY <2>2, <2>4 DEF InTree, longer
<1> QED
  BY <1>1

\* The paths are the levels of the tree, each a step below the one before.
LEMMA Levels ==
    ASSUME NEW p, NEW k
    PROVE  \E level :
              /\ Paths(p, k) = UNION {level[d] : d \in 0 .. MaxDepth} /\ level[0] = {<<>>}
              /\ \A d \in 0 .. MaxDepth - 1 :
                    level[d + 1] = UNION {{Append(q, i) : i \in 1 .. Len(NodeAt(p, k, q).children)} : q \in level[d]}
              /\ \A d \in 0 .. MaxDepth : \A q \in level[d] : InTree(p, k, q) /\ Len(q) = d
<1> DEFINE Below(q) == {Append(q, i) : i \in 1 .. Len(NodeAt(p, k, q).children)}
           Solves(g, m) == g = [d \in 0 .. m |-> IF d = 0 THEN {<<>>} ELSE UNION {Below(q) : q \in g[d - 1]}]
           level == CHOOSE g : Solves(g, MaxDepth)
           T == {m \in 0 .. MaxDepth : \E g : Solves(g, m)}
<1>1. 0 \in T
  <2>1. Solves([d \in 0 .. 0 |-> {<<>>}], 0)
    OBVIOUS
  <2> HIDE DEF Solves
  <2>2. \E g : Solves(g, 0)
    BY <2>1
  <2> QED
    BY <2>2, DepthAssumption
<1>2. ASSUME NEW m \in 0 .. MaxDepth - 1, m \in T PROVE m + 1 \in T
  <2>1. PICK g : Solves(g, m)
    BY <1>2
  <2> DEFINE h == [d \in 0 .. m + 1 |-> IF d = m + 1 THEN UNION {Below(q) : q \in g[m]} ELSE g[d]]
  <2>2. ASSUME NEW d \in 0 .. m + 1
        PROVE  h[d] = IF d = 0 THEN {<<>>} ELSE UNION {Below(q) : q \in h[d - 1]}
    <3> HIDE DEF Below
    <3> DEFINE U(S) == UNION {Below(q) : q \in S}
    <3>1. CASE d = m + 1
      <4>1. d # 0 /\ d - 1 = m /\ m \in 0 .. m + 1 /\ m # m + 1
        BY <3>1, DepthAssumption
      <4>2. h[d] = U(g[m])
        BY <3>1
      <4>3. h[d - 1] = g[m]
        BY <4>1
      <4> QED
        BY <4>1, <4>2, <4>3
    <3>2. CASE d # m + 1
      <4>1. d \in 0 .. m /\ (d # 0 => d - 1 \in 0 .. m)
        BY <3>2, DepthAssumption
      <4>2. g[d] = IF d = 0 THEN {<<>>} ELSE UNION {Below(q) : q \in g[d - 1]}
        BY <2>1, <4>1
      <4>3. h[d] = g[d]
        BY <3>2
      <4>4. CASE d = 0
        BY <4>2, <4>3, <4>4
      <4>5. CASE d # 0
        <5>1. d - 1 \in 0 .. m + 1 /\ d - 1 # m + 1
          BY <4>1, <4>5, DepthAssumption
        <5>2. h[d - 1] = g[d - 1]
          BY <5>1
        <5> QED
          BY <4>2, <4>3, <4>5, <5>2
      <4> QED
        BY <4>4, <4>5
    <3> QED
      BY <3>1, <3>2
  <2>3. Solves(h, m + 1)
    BY <2>2
  <2> HIDE DEF Solves, h
  <2>4. \E g1 : Solves(g1, m + 1)
    BY <2>3
  <2> QED
    BY <2>4, DepthAssumption
<1>3. Solves(level, MaxDepth)
  <2> HIDE DEF Solves, T
  <2>1. 0 .. MaxDepth \subseteq T
    BY <1>1, <1>2, InductionUpTo, DepthAssumption
  <2>2. \E g : Solves(g, MaxDepth)
    BY <2>1, DepthAssumption DEF T
  <2> QED
    BY <2>2
<1>4. Paths(p, k) = UNION {level[d] : d \in 0 .. MaxDepth}
  BY DEF Paths
<1> DEFINE D == {d \in 0 .. MaxDepth : \A q \in level[d] : InTree(p, k, q) /\ Len(q) = d}
<1>5. level[0] = {<<>>}
  <2> HIDE DEF level, Below
  <2>1. 0 \in 0 .. MaxDepth
    BY DepthAssumption
  <2> QED
    BY <1>3, <2>1
<1>6. ASSUME NEW d \in 0 .. MaxDepth - 1 PROVE level[d + 1] = UNION {Below(q) : q \in level[d]}
  <2> HIDE DEF level, Below
  <2>1. d + 1 \in 0 .. MaxDepth /\ d + 1 # 0 /\ (d + 1) - 1 = d
    BY DepthAssumption
  <2> QED
    BY <1>3, <2>1
<1> HIDE DEF level
<1>7. 0 \in D
  <2>1. InTree(p, k, <<>>) /\ Len(<<>>) = 0
    BY DEF InTree
  <2> QED
    BY <1>5, <2>1, DepthAssumption
<1>8. ASSUME NEW d \in 0 .. MaxDepth - 1, d \in D PROVE d + 1 \in D
  <2>1. ASSUME NEW q \in level[d + 1] PROVE InTree(p, k, q) /\ Len(q) = d + 1
    <3>1. PICK r \in level[d] : q \in Below(r)
      BY <1>6, <2>1
    <3>2. InTree(p, k, r) /\ Len(r) = d
      BY <1>8
    <3> QED
      BY <3>1, <3>2, LongerPath
  <2>2. d + 1 \in 0 .. MaxDepth
    BY DepthAssumption
  <2> QED
    BY <2>1, <2>2
<1>9. 0 .. MaxDepth \subseteq D
  <2> HIDE DEF D
  <2> QED
    BY <1>7, <1>8, InductionUpTo, DepthAssumption
<1> QED
  BY <1>4, <1>5, <1>6, <1>9

\* Every path of Paths is a path in the tree.
LEMMA PathsAreInTree ==
    ASSUME NEW p, NEW k, NEW path \in Paths(p, k)
    PROVE  InTree(p, k, path)
<1>1. PICK level : /\ Paths(p, k) = UNION {level[d] : d \in 0 .. MaxDepth}
                   /\ \A d \in 0 .. MaxDepth : \A q \in level[d] : InTree(p, k, q)
  BY Levels
<1> QED
  BY <1>1

\* Paths begins at the root and goes on to every child.
LEMMA PathsGoOn ==
    ASSUME NEW p \in Programs, NEW k \in DOMAIN p
    PROVE  /\ <<>> \in Paths(p, k)
           /\ \A path \in Paths(p, k) : \A i \in 1 .. Len(NodeAt(p, k, path).children) :
                 Append(path, i) \in Paths(p, k)
<1>1. PICK level :
        /\ Paths(p, k) = UNION {level[d] : d \in 0 .. MaxDepth} /\ level[0] = {<<>>}
        /\ \A d \in 0 .. MaxDepth - 1 :
              level[d + 1] = UNION {{Append(q, i) : i \in 1 .. Len(NodeAt(p, k, q).children)} : q \in level[d]}
        /\ \A d \in 0 .. MaxDepth : \A q \in level[d] : InTree(p, k, q) /\ Len(q) = d
  BY Levels
<1>2. <<>> \in Paths(p, k)
  BY <1>1, DepthAssumption
<1>3. ASSUME NEW path \in Paths(p, k), NEW i \in 1 .. Len(NodeAt(p, k, path).children)
      PROVE  Append(path, i) \in Paths(p, k)
  <2>1. PICK d \in 0 .. MaxDepth : path \in level[d]
    BY <1>1
  <2>2. Len(path) = d
    BY <1>1, <2>1
  <2>3. d # MaxDepth
    <3> SUFFICES ASSUME d = MaxDepth PROVE FALSE
      OBVIOUS
    <3>1. NodeAt(p, k, path).children = <<>>
      BY <2>2, DeepestAssumption
    <3>2. Len(<<>>) = 0
      OBVIOUS
    <3> QED
      BY <3>1, <3>2
  <2>4. d \in 0 .. MaxDepth - 1 /\ d + 1 \in 0 .. MaxDepth
    BY <2>3, DepthAssumption
  <2>5. Append(path, i) \in level[d + 1]
    <3> DEFINE Below(q) == {Append(q, n) : n \in 1 .. Len(NodeAt(p, k, q).children)}
    <3>1. Append(path, i) \in Below(path)
      OBVIOUS
    <3>2. level[d + 1] = UNION {Below(q) : q \in level[d]}
      BY <1>1, <2>4
    <3> HIDE DEF Below
    <3> QED
      BY <2>1, <3>1, <3>2
  <2> QED
    BY <1>1, <2>4, <2>5
<1> QED
  BY <1>2, <1>3

-----------------------------------------------------------------------------
(* Sequences of facts and of frames                                        *)

\* One more fact at the end of a sequence.
LEMMA OneMore ==
    ASSUME NEW s, s \in Seq(ToSet(s)), NEW r
    PROVE  /\ Append(s, r) \in Seq(ToSet(Append(s, r))) /\ s \o <<r>> = Append(s, r)
           /\ Len(s) \in Nat /\ DOMAIN s = 1 .. Len(s)
           /\ Len(Append(s, r)) = Len(s) + 1 /\ DOMAIN Append(s, r) = 1 .. Len(s) + 1
           /\ Append(s, r)[Len(s) + 1] = r /\ \A i \in 1 .. Len(s) : Append(s, r)[i] = s[i]
           /\ ToSet(Append(s, r)) = ToSet(s) \cup {r}
<1> DEFINE t == Append(s, r)
<1>1. /\ Len(s) \in Nat /\ DOMAIN s = 1 .. Len(s)
      /\ Len(t) = Len(s) + 1 /\ DOMAIN t = 1 .. Len(s) + 1
      /\ t[Len(s) + 1] = r /\ \A i \in 1 .. Len(s) : t[i] = s[i]
  OBVIOUS
<1>2. ToSet(t) = ToSet(s) \cup {r}
  <2> HIDE DEF t
  <2> QED
    BY <1>1 DEF ToSet
<1>3. t \in Seq(ToSet(t))
  <2>1. s \in Seq(ToSet(s) \cup {r})
    BY SeqMonotonic
  <2>2. t \in Seq(ToSet(s) \cup {r})
    BY <2>1
  <2> QED
    BY <1>2, <2>2
<1>4. s \o <<r>> = t
  OBVIOUS
<1> QED
  BY <1>1, <1>2, <1>3, <1>4

\* The last two of a sequence become one.
LEMMA OneLess ==
    ASSUME NEW s, s \in Seq(ToSet(s)), Len(s) > 1, NEW r
    PROVE  LET t == Append(SubSeq(s, 1, Len(s) - 2), r)
           IN /\ t \in Seq(ToSet(t)) /\ Len(t) = Len(s) - 1 /\ DOMAIN t = 1 .. Len(s) - 1
              /\ t[Len(s) - 1] = r /\ \A i \in 1 .. Len(s) - 2 : t[i] = s[i]
              /\ ToSet(t) \subseteq ToSet(s) \cup {r}
<1> DEFINE u == SubSeq(s, 1, Len(s) - 2)
           t == Append(u, r)
<1>1. /\ Len(s) \in Nat /\ DOMAIN s = 1 .. Len(s)
      /\ u \in Seq(ToSet(s)) /\ Len(u) = Len(s) - 2 /\ \A i \in 1 .. Len(s) - 2 : u[i] = s[i]
  <2>1. Len(s) \in Nat /\ DOMAIN s = 1 .. Len(s)
    OBVIOUS
  <2>2. 1 \in 1 .. Len(s) + 1 /\ Len(s) - 2 \in 1 - 1 .. Len(s) /\ (Len(s) - 2) - 1 + 1 = Len(s) - 2
    BY <2>1
  <2>3. /\ u \in Seq(ToSet(s)) /\ Len(u) = (Len(s) - 2) - 1 + 1
        /\ \A i \in 1 .. (Len(s) - 2) - 1 + 1 : u[i] = s[1 + i - 1]
    BY <2>2, SubSeqProperties
  <2>4. \A i \in 1 .. Len(s) - 2 : 1 + i - 1 = i
    BY <2>1
  <2> QED
    BY <2>1, <2>2, <2>3, <2>4
<1>2. /\ Len(t) = Len(s) - 1 /\ DOMAIN t = 1 .. Len(s) - 1
      /\ t[Len(s) - 1] = r /\ \A i \in 1 .. Len(s) - 2 : t[i] = s[i]
  <2> HIDE DEF u
  <2>1. Len(u) + 1 = Len(s) - 1
    BY <1>1
  <2>2. /\ Len(t) = Len(u) + 1 /\ DOMAIN t = 1 .. Len(u) + 1
        /\ t[Len(u) + 1] = r /\ \A i \in 1 .. Len(u) : t[i] = u[i]
    <3>1. u \in Seq(ToSet(s) \cup {r}) /\ r \in ToSet(s) \cup {r}
      BY <1>1, SeqMonotonic
    <3> QED
      BY <3>1
  <2> QED
    BY <1>1, <2>1, <2>2
<1>3. ToSet(t) \subseteq ToSet(s) \cup {r}
  <2>1. ASSUME NEW i \in 1 .. Len(s) - 1 PROVE t[i] \in ToSet(s) \cup {r}
    <3> HIDE DEF t, u
    <3>1. CASE i = Len(s) - 1
      BY <1>2, <3>1
    <3>2. CASE i \in 1 .. Len(s) - 2
      BY <1>1, <1>2, <3>2 DEF ToSet
    <3>3. i = Len(s) - 1 \/ i \in 1 .. Len(s) - 2
      <4>1. Len(s) \in Nat
        BY <1>1
      <4>2. \A n \in Nat : \A j \in 1 .. n - 1 : j = n - 1 \/ j \in 1 .. n - 2
        OBVIOUS
      <4> QED
        BY <4>1, <4>2
    <3> QED
      BY <3>1, <3>2, <3>3
  <2> HIDE DEF t
  <2> QED
    BY <1>2, <2>1 DEF ToSet
<1>4. t \in Seq(ToSet(t))
  <2> HIDE DEF t
  <2>1. \A i \in 1 .. Len(s) - 1 : t[i] \in ToSet(t)
    BY <1>2 DEF ToSet
  <2>2. t \in Seq(ToSet(s) \cup {r})
    <3>1. u \in Seq(ToSet(s) \cup {r})
      BY <1>1, SeqMonotonic
    <3> HIDE DEF u
    <3> QED
      BY <3>1 DEF t
  <2> QED
    BY <1>1, <1>2, <2>1, <2>2
<1> QED
  BY <1>2, <1>3, <1>4

\* The path of a stack has a step less than the stack has frames.
LEMMA PathOfFrames ==
    ASSUME NEW frames, Len(frames) \in Nat \ {0}
    PROVE  /\ Len(Path(frames)) = Len(frames) - 1
           /\ \A j \in 1 .. Len(frames) - 1 : Path(frames)[j] = frames[j + 1].child
           /\ (\A j \in 1 .. Len(frames) : frames[j].child \in Nat) => Path(frames) \in Seq(Nat)
BY DEF Path

-----------------------------------------------------------------------------
(* The steps of the walk                                                   *)

LEMMA NodeFacts ==
    ASSUME NEW node \in Nodes
    PROVE  /\ node.children \in Seq(Nodes) /\ Len(node.children) \in Nat
           /\ \A i \in 1 .. Len(node.children) : node.children[i] \in Nodes
           /\ node.children # <<>> => 1 \in 1 .. Len(node.children)
<1>1. node.children \in Seq(Nodes)
  BY NodesAssumption
<1> HIDE NodesAssumption
<1> QED
  BY <1>1

LEMMA ProgramFacts ==
    ASSUME NEW p \in Programs
    PROVE  /\ Len(p) \in Nat \ {0} /\ DOMAIN p = 1 .. Len(p)
           /\ \A k \in 1 .. Len(p) : p[k].ast \in Nodes
BY ProgramsAssumption

\* The walker enters a node: the root, or the next child of the node on top.
Entering(node, i) ==
    /\ Walking /\ node \in Nodes /\ i \in Nat /\ Visit(node, i)
    /\ \/ stack = <<>> /\ node = program[tu].ast /\ i = 0
       \/ /\ stack # <<>> /\ i = Top.next /\ i <= Len(Top.node.children)
          /\ node = Top.node.children[i]

\* Frames are records of their fields.
LEMMA FrameStarts ==
    ASSUME NEW node \in Nodes, NEW i \in Nat, NEW h, NEW e \in answers \cup {NoFunction}, NEW n \in Nat \ {0}
    PROVE  [node |-> node, child |-> i, hint |-> h, outer |-> e, next |-> n] \in
               [node : Nodes, child : Nat, hint : {h}, outer : answers \cup {NoFunction}, next : Nat \ {0}]
OBVIOUS

LEMMA FrameMoves ==
    ASSUME NEW old, IsFrame(old), NEW h
    PROVE  LET r == [old EXCEPT !.next = @ + 1, !.hint = h]
           IN /\ r.node = old.node /\ r.child = old.child /\ r.outer = old.outer
              /\ r.next = old.next + 1 /\ r.hint = h /\ IsFrame(r)
<1> DEFINE r == [old EXCEPT !.next = @ + 1, !.hint = h]
           n == old.next + 1
<1>1. PICK H : old \in [node : Nodes, child : Nat, hint : H, outer : answers \cup {NoFunction}, next : Nat \ {0}]
  BY DEF IsFrame
<1>2. /\ r.node = old.node /\ r.child = old.child /\ r.outer = old.outer
      /\ r.next = old.next + 1 /\ r.hint = h
  BY <1>1
<1>3. r = [old EXCEPT !.next = n, !.hint = h]
  OBVIOUS
<1>4. n \in Nat \ {0}
  <2>1. old.next \in Nat
    BY <1>1
  <2> QED
    BY <2>1
<1>5. r \in [node : Nodes, child : Nat, hint : H \cup {h}, outer : answers \cup {NoFunction}, next : Nat \ {0}]
  <2> HIDE DEF n, r
  <2> QED
    BY <1>1, <1>3, <1>4
<1>6. r \in [node : Nodes, child : Nat, hint : {r.hint}, outer : answers \cup {NoFunction}, next : Nat \ {0}]
  <2> HIDE DEF n, r
  <2> QED
    BY <1>5
<1> QED
  <2> HIDE DEF r
  <2> QED
    BY <1>2, <1>6 DEF IsFrame

\* What is known of a stack and of the frames on it.
LEMMA StackTypes ==
    ASSUME WalkTypes
    PROVE  /\ Len(stack) \in Nat /\ DOMAIN stack = 1 .. Len(stack) /\ (stack = <<>> <=> Len(stack) = 0)
           /\ \A i \in 1 .. Len(stack) :
                 /\ IsFrame(stack[i]) /\ stack[i] \in ToSet(stack)
                 /\ stack[i].node \in Nodes /\ stack[i].child \in Nat /\ stack[i].next \in Nat \ {0}
                 /\ stack[i].outer \in answers \cup {NoFunction}
           /\ stack # <<>> => Top = stack[Len(stack)] /\ Len(stack) \in 1 .. Len(stack)
<1>1. /\ Len(stack) \in Nat /\ DOMAIN stack = 1 .. Len(stack) /\ (stack = <<>> <=> Len(stack) = 0)
      /\ stack # <<>> => Top = stack[Len(stack)] /\ Len(stack) \in 1 .. Len(stack)
  <2>1. stack \in Seq(ToSet(stack))
    BY DEF WalkTypes
  <2>2. Len(stack) \in Nat /\ DOMAIN stack = 1 .. Len(stack) /\ (stack = <<>> <=> Len(stack) = 0)
    BY <2>1
  <2> QED
    BY <2>2 DEF Top
<1>2. ASSUME NEW i \in 1 .. Len(stack) PROVE IsFrame(stack[i]) /\ stack[i] \in ToSet(stack)
  <2>1. stack[i] \in ToSet(stack)
    BY <1>1 DEF ToSet
  <2> QED
    BY <2>1 DEF WalkTypes
<1>3. \A r : IsFrame(r) => /\ r.node \in Nodes /\ r.child \in Nat /\ r.next \in Nat \ {0}
                           /\ r.outer \in answers \cup {NoFunction}
  BY DEF IsFrame
<1> QED
  BY <1>1, <1>2, <1>3

LEMMA Enters ==
    ASSUME WalkTypes, StageInv, VisitRoot \/ VisitChild
    PROVE  \E node \in Nodes, i \in Nat : Entering(node, i)
<1>1. CASE VisitRoot
  <2>1. Walking /\ stack = <<>> /\ Visit(program[tu].ast, 0)
    BY <1>1 DEF VisitRoot
  <2>2. program[tu].ast \in Nodes
    <3>1. program \in Programs /\ tu \in Nat \ {0} /\ tu <= Len(program)
      BY <2>1 DEF Walking, WalkTypes
    <3>2. tu \in 1 .. Len(program)
      BY <3>1, ProgramFacts
    <3> QED
      BY <3>1, <3>2, ProgramFacts
  <2>3. Entering(program[tu].ast, 0)
    BY <2>1, <2>2 DEF Entering
  <2> QED
    BY <2>2, <2>3
<1>2. CASE VisitChild
  <2>1. /\ Walking /\ stack # <<>> /\ Top.next <= Len(Top.node.children)
        /\ Visit(Top.node.children[Top.next], Top.next)
    BY <1>2 DEF VisitChild
  <2>2. Top.node \in Nodes /\ Top.next \in Nat \ {0}
    BY <2>1, StackTypes
  <2>3. Top.next \in 1 .. Len(Top.node.children)
    BY <2>1, <2>2, NodeFacts
  <2>4. Top.node.children[Top.next] \in Nodes
    BY <2>2, <2>3, NodeFacts
  <2>5. Entering(Top.node.children[Top.next], Top.next)
    BY <2>1, <2>2, <2>4 DEF Entering
  <2> QED
    BY <2>2, <2>4, <2>5
<1> QED
  BY <1>1, <1>2

\* Entering a node puts its frame on the stack.
LEMMA Grows ==
    ASSUME WalkTypes, NEW node \in Nodes, NEW i \in Nat, Visit(node, i)
    PROVE  LET L == Len(stack)
               r == stack'[L + 1]
           IN /\ stack' = Append(stack, Frame(node, i))
              /\ L \in Nat /\ Len(stack') = L + 1 /\ DOMAIN stack' = 1 .. L + 1 /\ stack' # <<>>
              /\ stack' \in Seq(ToSet(stack')) /\ \A r1 \in ToSet(stack') : IsFrame(r1)
              /\ \A j \in 1 .. L : stack'[j] = stack[j]
              /\ r.node = node /\ r.child = i /\ r.outer = enclosing /\ r.next = 1
<1> DEFINE L == Len(stack)
           r == Frame(node, i)
<1>1. stack' = Append(stack, r)
  BY DEF Visit
<1>2. r.node = node /\ r.child = i /\ r.outer = enclosing /\ r.next = 1 /\ IsFrame(r)
  <2>1. enclosing \in answers \cup {NoFunction}
    BY DEF WalkTypes
  <2>2. r = [node |-> node, child |-> i, hint |-> <<>>, outer |-> enclosing, next |-> 1]
    BY DEF Frame
  <2> HIDE DEF r
  <2>3. /\ r.node = node /\ r.child = i /\ r.outer = enclosing /\ r.next = 1 /\ r.hint = <<>>
    BY <2>2
  <2>4. r \in [node : Nodes, child : Nat, hint : {r.hint}, outer : answers \cup {NoFunction}, next : Nat \ {0}]
    <3> DEFINE h == r.hint
    <3>1. r = [node |-> node, child |-> i, hint |-> h, outer |-> enclosing, next |-> 1] /\ 1 \in Nat \ {0}
      BY <2>2, <2>3
    <3> HIDE DEF h
    <3>2. r \in [node : Nodes, child : Nat, hint : {h}, outer : answers \cup {NoFunction}, next : Nat \ {0}]
      BY <2>1, <3>1, FrameStarts
    <3> QED
      BY <3>2 DEF h
  <2> QED
    BY <2>3, <2>4 DEF IsFrame
<1>3. /\ Append(stack, r) \in Seq(ToSet(Append(stack, r)))
      /\ Len(stack) \in Nat /\ DOMAIN stack = 1 .. Len(stack)
      /\ Len(Append(stack, r)) = L + 1 /\ DOMAIN Append(stack, r) = 1 .. L + 1
      /\ Append(stack, r)[L + 1] = r /\ \A j \in 1 .. L : Append(stack, r)[j] = stack[j]
      /\ ToSet(Append(stack, r)) = ToSet(stack) \cup {r}
  <2> HIDE DEF r
  <2>1. stack \in Seq(ToSet(stack))
    BY DEF WalkTypes
  <2> QED
    BY <2>1, OneMore
<1>4. \A r1 \in ToSet(stack) \cup {r} : IsFrame(r1)
  BY <1>2 DEF WalkTypes
<1>5. stack' # <<>> /\ stack'[L + 1] = r
  <2> HIDE DEF r
  <2> QED
    BY <1>1, <1>3
<1>6. stack'[L + 1].node = node /\ stack'[L + 1].child = i /\ stack'[L + 1].outer = enclosing /\ stack'[L + 1].next = 1
  <2> HIDE DEF r
  <2> QED
    BY <1>2, <1>5
<1> QED
  <2> HIDE DEF r
  <2>1. stack' = Append(stack, Frame(node, i))
    BY <1>1 DEF r
  <2> QED
    BY <1>1, <1>3, <1>4, <1>5, <1>6, <2>1

\* Leaving a node takes its frame off and moves its parent on.
LEMMA Shrinks ==
    ASSUME WalkTypes, Leave
    PROVE  LET L == Len(stack)
               old == stack[L - 1]
               r == stack'[L - 1]
           IN /\ L \in Nat /\ L > 1 /\ Len(stack') = L - 1 /\ DOMAIN stack' = 1 .. L - 1
              /\ stack' \in Seq(ToSet(stack')) /\ \A r1 \in ToSet(stack') : IsFrame(r1)
              /\ \A j \in 1 .. L - 2 : stack'[j] = stack[j]
              /\ r.node = old.node /\ r.child = old.child /\ r.outer = old.outer /\ r.next = old.next + 1
              /\ r.hint = IF stack[L].child = 1 THEN Hint(old.node, stack[L].node) ELSE old.hint
              /\ enclosing' = stack[L].outer /\ stack[L].next > Len(stack[L].node.children)
<1> DEFINE L == Len(stack)
           old == stack[L - 1]
           h == IF stack[L].child = 1 THEN Hint(old.node, stack[L].node) ELSE old.hint
           r == [old EXCEPT !.next = @ + 1, !.hint = h]
           t == Append(SubSeq(stack, 1, L - 2), r)
<1>1. /\ L > 1 /\ L \in Nat /\ Top = stack[L] /\ stack' = t
      /\ enclosing' = stack[L].outer /\ stack[L].next > Len(stack[L].node.children)
  <2>1. L \in Nat
    BY StackTypes
  <2> QED
    BY <2>1 DEF Leave, Top
<1>2. IsFrame(old)
  <2>1. L - 1 \in 1 .. L
    BY <1>1
  <2> QED
    BY <2>1, StackTypes
<1>3. /\ r.node = old.node /\ r.child = old.child /\ r.outer = old.outer /\ r.next = old.next + 1
      /\ r.hint = h /\ IsFrame(r)
  <2> HIDE DEF old, h
  <2> QED
    BY <1>2, FrameMoves
<1>4. /\ t \in Seq(ToSet(t)) /\ Len(t) = L - 1 /\ DOMAIN t = 1 .. L - 1
      /\ t[L - 1] = r /\ \A j \in 1 .. L - 2 : t[j] = stack[j]
      /\ ToSet(t) \subseteq ToSet(stack) \cup {r}
  <2> HIDE DEF r
  <2>1. stack \in Seq(ToSet(stack))
    BY DEF WalkTypes
  <2> QED
    BY <1>1, <2>1, OneLess
<1>5. \A r1 \in ToSet(t) : IsFrame(r1)
  <2> HIDE DEF r, t
  <2> QED
    BY <1>3, <1>4 DEF WalkTypes
<1> HIDE DEF t, r, h
<1>6. IsFrame(r) /\ \A r1 \in ToSet(stack') : IsFrame(r1)
  BY <1>1, <1>3, <1>5
<1> QED
  BY <1>1, <1>3, <1>4, <1>6 DEF h

-----------------------------------------------------------------------------
(* What the walker asks of its stack                                       *)

\* The greatest of some places, 0 if there is none.
LEMMA LastOf ==
    ASSUME NEW n \in Nat, NEW S, S \subseteq 1 .. n
    PROVE  LET last == Max({0} \cup S)
           IN (last = 0 \/ last \in S) /\ last \in 0 .. n /\ \A i \in S : i <= last
<1> DEFINE all == {0} \cup S
           last == Max(all)
<1>1. all \in SUBSET (0 .. n) /\ all # {}
  OBVIOUS
<1>2. last \in all /\ \A i \in all : i <= last
  <2> HIDE DEF all
  <2> QED
    BY <1>1, MaxIsGreatest
<1> HIDE DEF last
<1>3. (last = 0 \/ last \in S) /\ last \in 0 .. n /\ \A i \in S : i <= last
  BY <1>1, <1>2
<1> QED
  BY <1>3 DEF last

\* A stack goes down from the root of the TU, and its hints are its own.
Descends(frames) ==
    /\ Len(frames) \in Nat \ {0} /\ frames[1].node = program[tu].ast
    /\ \A i \in 1 .. Len(frames) :
          /\ frames[i].node \in Nodes /\ frames[i].child \in Nat /\ frames[i].next \in Nat \ {0}
          /\ frames[i].next > 1 => frames[i].hint = Hint(frames[i].node, frames[i].node.children[1])
    /\ \A i \in 2 .. Len(frames) :
          /\ frames[i].child = frames[i - 1].next /\ frames[i - 1].next <= Len(frames[i - 1].node.children)
          /\ frames[i].node = frames[i - 1].node.children[frames[i - 1].next]

LEMMA StackDescends ==
    ASSUME WalkTypes, StackInv, stack # <<>>
    PROVE  Descends(stack)
<1>1. /\ Len(stack) \in Nat \ {0} /\ DOMAIN stack = 1 .. Len(stack)
      /\ \A i \in 1 .. Len(stack) :
            stack[i].node \in Nodes /\ stack[i].child \in Nat /\ stack[i].next \in Nat \ {0}
  BY StackTypes
<1>2. stack[1].node = program[tu].ast
  BY <1>1 DEF StackInv
<1>3. ASSUME NEW i \in 1 .. Len(stack), stack[i].next > 1
      PROVE  stack[i].hint = Hint(stack[i].node, stack[i].node.children[1])
  BY <1>1, <1>3 DEF StackInv
<1>4. ASSUME NEW i \in 2 .. Len(stack)
      PROVE  /\ stack[i].child = stack[i - 1].next /\ stack[i - 1].next <= Len(stack[i - 1].node.children)
             /\ stack[i].node = stack[i - 1].node.children[stack[i - 1].next]
  <2>1. i \in 1 .. Len(stack) /\ i > 1
    BY <1>1
  <2> QED
    BY <1>1, <2>1 DEF StackInv
<1> QED
  BY <1>1, <1>2, <1>3, <1>4 DEF Descends

\* The nodes along a path that goes down with the stack, and along its own.
LEMMA FrameNodes ==
    ASSUME NEW frames, Descends(frames), NEW path, Len(path) \in Nat,
           NEW m \in 0 .. Len(frames) - 1, m <= Len(path),
           \A j \in 1 .. m : path[j] = frames[j + 1].child
    PROVE  \A n \in 0 .. m : NodesOn(program, tu, path)[n] = frames[n + 1].node
<1> DEFINE T == {n \in 0 .. m : NodesOn(program, tu, path)[n] = frames[n + 1].node}
<1>1. m \in Nat /\ Len(frames) \in Nat
  BY DEF Descends
<1>2. 0 \in T
  <2>1. NodesOn(program, tu, path)[0] = program[tu].ast
    BY NodesOnStep
  <2> QED
    BY <1>1, <2>1 DEF Descends
<1>3. ASSUME NEW n \in 0 .. m - 1, n \in T PROVE n + 1 \in T
  <2>1. /\ n + 1 \in 1 .. Len(path) /\ n + 1 \in 1 .. m /\ n + 2 \in 2 .. Len(frames)
        /\ (n + 1) - 1 = n /\ (n + 2) - 1 = n + 1 /\ (n + 1) + 1 = n + 2
    BY <1>1
  <2>2. NodesOn(program, tu, path)[n + 1] = NodesOn(program, tu, path)[n].children[path[n + 1]]
    BY <2>1, NodesOnStep
  <2>3. frames[n + 2].node = frames[n + 1].node.children[frames[n + 2].child]
    BY <2>1 DEF Descends
  <2>4. path[n + 1] = frames[n + 2].child
    BY <2>1
  <2> QED
    BY <1>3, <2>1, <2>2, <2>3, <2>4
<1>4. 0 .. m \subseteq T
  <2> HIDE DEF T
  <2> QED
    BY <1>1, <1>2, <1>3, InductionUpTo
<1> QED
  BY <1>4

LEMMA PathNodes ==
    ASSUME NEW frames, Descends(frames)
    PROVE  /\ Len(Path(frames)) = Len(frames) - 1 /\ Len(Path(frames)) \in Nat /\ Path(frames) \in Seq(Nat)
           /\ \A n \in 1 .. Len(frames) - 1 : Path(frames)[n] = frames[n + 1].child
           /\ \A n \in 0 .. Len(frames) - 1 : NodesOn(program, tu, Path(frames))[n] = frames[n + 1].node
           /\ \A n \in 1 .. Len(frames) : NodesOn(program, tu, Path(frames))[n - 1] = frames[n].node
<1> DEFINE m == Len(frames) - 1
           path == Path(frames)
<1>1. /\ Len(path) = m /\ m \in Nat /\ Len(frames) \in Nat \ {0} /\ Len(path) \in Nat
      /\ \A n \in 1 .. m : path[n] = frames[n + 1].child
      /\ path \in Seq(Nat)
  <2>1. Len(frames) \in Nat \ {0} /\ \A j \in 1 .. Len(frames) : frames[j].child \in Nat
    BY DEF Descends
  <2> HIDE DEF m, path
  <2>2. /\ Len(Path(frames)) = Len(frames) - 1 /\ Path(frames) \in Seq(Nat)
        /\ \A j \in 1 .. Len(frames) - 1 : Path(frames)[j] = frames[j + 1].child
    BY <2>1, PathOfFrames
  <2>3. Len(frames) - 1 \in Nat
    BY <2>1
  <2> QED
    BY <2>1, <2>2, <2>3 DEF m, path
<1>2. \A n \in 0 .. m : NodesOn(program, tu, path)[n] = frames[n + 1].node
  <2>1. m \in 0 .. Len(frames) - 1 /\ m <= Len(path)
    BY <1>1
  <2> HIDE DEF m, path
  <2> QED
    BY <1>1, <2>1, FrameNodes
<1>3. \A n \in 1 .. Len(frames) : n - 1 \in 0 .. m /\ (n - 1) + 1 = n
  BY <1>1
<1>4. \A n \in 1 .. Len(frames) : NodesOn(program, tu, path)[n - 1] = frames[n].node
  <2> HIDE DEF m, path
  <2> TAKE n \in 1 .. Len(frames)
  <2> QED
    BY <1>2, <1>3
<1> QED
  BY <1>1, <1>2, <1>4

\* What is nearest along the path of a stack is the last frame of its kinds.
LEMMA NearestFrame ==
    ASSUME NEW frames, Descends(frames), NEW kinds
    PROVE  LET n == Nearest(tu, Path(frames), kinds)
               S == {i \in 1 .. Len(frames) - 1 : Kind(frames[i]) \in kinds}
           IN (n = 0 \/ n \in S) /\ n \in Nat /\ \A i \in S : i <= n
<1> DEFINE path == Path(frames)
           L == Len(frames)
           S == {i \in 1 .. L - 1 : Kind(frames[i]) \in kinds}
           R == {n \in 1 .. Len(path) : NodesOn(program, tu, path)[n - 1].kind \in kinds}
<1>1. L \in Nat \ {0}
  BY DEF Descends
<1>2. R = S
  <2>1. Len(path) = L - 1 /\ \A n \in 1 .. L : NodesOn(program, tu, path)[n - 1] = frames[n].node
    BY PathNodes
  <2> HIDE DEF path
  <2> QED
    BY <1>1, <2>1 DEF Kind
<1>3. Nearest(tu, path, kinds) = Max({0} \cup R)
  BY DEF Nearest
<1>4. S \subseteq 1 .. L
  BY <1>1
<1>5. LET n == Nearest(tu, path, kinds) IN (n = 0 \/ n \in S) /\ n \in 0 .. L /\ \A i \in S : i <= n
  <2> HIDE DEF S, R, L, path
  <2> QED
    BY <1>1, <1>2, <1>3, <1>4, LastOf
<1> QED
  <2> HIDE DEF path, S
  <2>1. LET n == Nearest(tu, path, kinds) IN (n = 0 \/ n \in S) /\ n \in Nat /\ \A i \in S : i <= n
    BY <1>1, <1>5
  <2> QED
    BY <2>1 DEF path, S

\* The frame that decides the category, and the call the node is in.
LEMMA DecisiveFrame ==
    ASSUME NEW frames, Descends(frames)
    PROVE  LET i == Max({0} \cup Decisive(frames))
           IN (i = 0 \/ i \in Decisive(frames)) /\ i \in Nat /\ \A j \in Decisive(frames) : j <= i
<1> DEFINE D == Decisive(frames)
           L == Len(frames)
<1>1. L \in Nat
  BY DEF Descends
<1>2. D \subseteq 1 .. L
  <2>1. ASSUME NEW i \in D PROVE i \in 1 .. L - 1
    BY DEF Decisive
  <2> HIDE DEF D, L
  <2> QED
    BY <1>1, <2>1
<1>3. LET i == Max({0} \cup D) IN (i = 0 \/ i \in D) /\ i \in 0 .. L /\ \A j \in D : j <= i
  <2> HIDE DEF D, L
  <2> QED
    BY <1>1, <1>2, LastOf
<1> QED
  <2> HIDE DEF L
  <2> DEFINE i == Max({0} \cup D)
  <2>1. (i = 0 \/ i \in D) /\ i \in 0 .. L /\ \A j \in D : j <= i
    BY <1>3
  <2> HIDE DEF i, D
  <2>2. i \in Nat
    BY <1>1, <2>1
  <2> QED
    BY <2>1, <2>2 DEF i, D

LEMMA CalleeFrame ==
    ASSUME NEW frames, Descends(frames)
    PROVE  LET calls == {i \in 1 .. Len(frames) - 1 : Kind(frames[i]) = "Call"}
               n == Nearest(tu, Path(frames), {"Call"})
           IN InCalleeSubtree(frames) <=> n # 0 /\ Path(frames)[n] = 1
<1> DEFINE L == Len(frames)
           calls == {i \in 1 .. L - 1 : Kind(frames[i]) = "Call"}
           n == Nearest(tu, Path(frames), {"Call"})
<1>1. L \in Nat \ {0} /\ \A j \in 1 .. L - 1 : Path(frames)[j] = frames[j + 1].child
  BY PathNodes DEF Descends
<1>2. (n = 0 \/ n \in calls) /\ n \in Nat /\ \A i \in calls : i <= n
  <2>1. calls = {i \in 1 .. L - 1 : Kind(frames[i]) \in {"Call"}}
    OBVIOUS
  <2> HIDE DEF calls
  <2> QED
    BY <2>1, NearestFrame
<1>3. calls # {} => n = Max(calls)
  <2>1. calls \in SUBSET (0 .. L) /\ calls \subseteq Nat /\ 0 \notin calls
    BY <1>1
  <2> HIDE DEF calls, n
  <2>2. ASSUME calls # {} PROVE Max(calls) \in calls /\ \A i \in calls : i <= Max(calls)
    BY <1>1, <2>1, <2>2, MaxIsGreatest
  <2>3. ASSUME calls # {} PROVE n = Max(calls)
    <3>1. Max(calls) \in Nat /\ Max(calls) <= n /\ n \in calls
      <4>1. Max(calls) \in Nat /\ Max(calls) # 0
        BY <2>1, <2>2, <2>3
      <4>2. Max(calls) <= n
        BY <1>2, <2>2, <2>3
      <4>3. n # 0
        BY <1>2, <4>1, <4>2
      <4> QED
        BY <1>2, <4>1, <4>2, <4>3
    <3>2. n <= Max(calls)
      BY <2>2, <2>3, <3>1
    <3> QED
      BY <1>2, <3>1, <3>2
  <2> QED
    BY <2>3
<1>4. n # 0 => n \in 1 .. L - 1 /\ calls # {}
  BY <1>2
<1>5. calls # {} => n # 0 /\ n \in 1 .. L - 1
  <2>1. 0 \notin calls /\ calls \subseteq 1 .. L - 1
    OBVIOUS
  <2> HIDE DEF calls, n
  <2> QED
    <3> SUFFICES ASSUME calls # {} PROVE n # 0 /\ n \in 1 .. L - 1
      OBVIOUS
    <3>1. PICK i \in calls : i \in 1 .. L - 1
      BY <2>1
    <3>2. n # 0
      BY <1>1, <1>2, <3>1
    <3> QED
      BY <1>2, <2>1, <3>2
<1>6. InCalleeSubtree(frames) <=> calls # {} /\ frames[Max(calls) + 1].child = 1
  BY DEF InCalleeSubtree
<1> HIDE DEF calls, n
<1>7. InCalleeSubtree(frames) <=> n # 0 /\ Path(frames)[n] = 1
  BY <1>1, <1>3, <1>4, <1>5, <1>6
<1> QED
  BY <1>7 DEF n

-----------------------------------------------------------------------------
(* Contexts                                                                *)

\* What an assignment stores into is never an argument.
LEMMA TargetsAreNotArguments ==
    ASSUME NEW node
    PROVE  InspectLHS(node)[1] # "arg_to"
<1> DEFINE lhs == Peel(node, {"Paren"})
           stored == <<"stored_in", lhs.children[1].type, lhs.detail>>
           inited == <<"array_init", DetailOf(lhs.children[1], {"DeclRef"}),
                       DetailOf(lhs.children[2], {"IntegerLiteral", "DeclRef"})>>
           named  == <<"assigned_to", lhs.detail>>
           other  == <<"assigned_to", "">>
<1>1. InspectLHS(node) \in {stored, inited, named, other}
  <2>1. InspectLHS(node) = CASE lhs.kind = "Member" -> stored
                             [] lhs.kind = "ArraySubscript" -> inited
                             [] lhs.kind = "DeclRef" -> named
                             [] OTHER -> other
    BY DEF InspectLHS
  <2> HIDE DEF lhs, stored, inited, named, other
  <2>2. CASE lhs.kind = "Member"
    BY <2>1, <2>2
  <2>3. CASE lhs.kind = "ArraySubscript"
    BY <2>1, <2>3
  <2>4. CASE lhs.kind = "DeclRef"
    BY <2>1, <2>4
  <2>5. CASE lhs.kind \notin {"Member", "ArraySubscript", "DeclRef"}
    BY <2>1, <2>5
  <2> QED
    BY <2>2, <2>3, <2>4, <2>5
<1>2. stored[1] = "stored_in" /\ inited[1] = "array_init" /\ named[1] = "assigned_to" /\ other[1] = "assigned_to"
  <2> HIDE DEF lhs
  <2> QED
    OBVIOUS
<1> HIDE DEF stored, inited, named, other
<1> QED
  BY <1>1, <1>2

\* The category is that of the frame that decides it.
LEMMA Classified ==
    ASSUME NEW frames, Descends(frames)
    PROVE  LET i == Max({0} \cup Decisive(frames))
               context == ClassifyAddressTake(frames)
           IN /\ i # 0 /\ Kind(frames[i]) = "BinaryOperator" => context = BinaryContext(frames, i)
              /\ i # 0 /\ Kind(frames[i]) = "Call" => context = CallContext(frames, i)
              /\ i = 0 \/ Kind(frames[i]) \notin {"BinaryOperator", "Call"} => context[1] # "arg_to"
<1> DEFINE i == Max({0} \cup Decisive(frames))
           context == ClassifyAddressTake(frames)
           k == Kind(frames[i])
           f == IF FunctionAbove(frames) = 0 THEN "" ELSE frames[FunctionAbove(frames)].node.detail
           name == frames[i].node.detail
<1>1. context = IF i = 0 THEN <<"other">>
                ELSE CASE k = "BinaryOperator" -> BinaryContext(frames, i)
                       [] k = "Return" -> <<"returned_from", f>>
                       [] k = "Call" -> CallContext(frames, i)
                       [] k = "InitList" -> InitListContext(frames, i)
                       [] k = "DesignatedInit" -> Designated(frames, i)
                       [] k = "Var" -> <<"assigned_to", name>>
  BY DEF ClassifyAddressTake
<1>2. i = 0 \/ k \in {"BinaryOperator", "Return", "Call", "InitList", "Var", "DesignatedInit"}
  <2>1. i = 0 \/ i \in Decisive(frames)
    BY DecisiveFrame
  <2> HIDE DEF i
  <2> QED
    BY <2>1 DEF Decisive
<1>3. InitListContext(frames, i)[1] # "arg_to" /\ Designated(frames, i)[1] # "arg_to"
  <2> HIDE DEF i
  <2> DEFINE v == VarAbove(frames, i)
             var == frames[v].node
  <2>1. Designated(frames, i)[1] = "stored_in"
    BY DEF Designated
  <2>2. CASE v = 0
    BY <2>1, <2>2 DEF InitListContext
  <2>3. CASE v # 0 /\ "[" \in ToSet(var.type)
    <3>1. InitListContext(frames, i) = <<"array_init", var.detail, ToString(frames[i + 1].child - 1)>>
      BY <2>3 DEF InitListContext
    <3> QED
      BY <2>1, <3>1
  <2>4. CASE v # 0 /\ "[" \notin ToSet(var.type)
    <3>1. InitListContext(frames, i) = <<"stored_in", var.type, "<init>">>
      BY <2>4 DEF InitListContext
    <3> QED
      BY <2>1, <3>1
  <2> QED
    BY <2>2, <2>3, <2>4
<1>4. <<"other">>[1] # "arg_to" /\ <<"returned_from", f>>[1] # "arg_to" /\ <<"assigned_to", name>>[1] # "arg_to"
  <2> HIDE DEF f, name
  <2> QED
    OBVIOUS
<1> HIDE DEF i, context, k, f, name
<1>5. i # 0 /\ k = "BinaryOperator" => context = BinaryContext(frames, i)
  BY <1>1
<1>6. i # 0 /\ k = "Call" => context = CallContext(frames, i)
  BY <1>1
<1>7. i = 0 \/ k \notin {"BinaryOperator", "Call"} => context[1] # "arg_to"
  <2>1. CASE i = 0
    BY <1>1, <1>4, <2>1
  <2>2. CASE i # 0 /\ k = "Return"
    BY <1>1, <1>4, <2>2
  <2>3. CASE i # 0 /\ k = "InitList"
    BY <1>1, <1>3, <2>3
  <2>4. CASE i # 0 /\ k = "DesignatedInit"
    BY <1>1, <1>3, <2>4
  <2>5. CASE i # 0 /\ k = "Var"
    BY <1>1, <1>4, <2>5
  <2> QED
    BY <1>2, <2>1, <2>2, <2>3, <2>4, <2>5
<1> QED
  BY <1>5, <1>6, <1>7 DEF i, context, k

\* What a take says of the call or assignment it is in is right when it is
\* found.
LEMMA ContextOfNew ==
    ASSUME NEW frames, Descends(frames), ~InCalleeSubtree(frames),
           NEW t, t.at = <<tu, Path(frames)>>, t.context = ClassifyAddressTake(frames)
    PROVE  ContextOf(t)
<1> DEFINE L == Len(frames)
           path == Path(frames)
           i == Max({0} \cup Decisive(frames))
           n == Nearest(tu, path, {"Call", "BinaryOperator"})
           m == Nearest(tu, path, {"InitList", "DesignatedInit", "Return", "Var"})
           call == Nearest(tu, path, {"Call"})
           nodes == NodesOn(program, tu, path)
<1>1. L \in Nat \ {0} /\ \A j \in 1 .. L - 1 : path[j] = frames[j + 1].child /\ nodes[j - 1] = frames[j].node
  <2>1. L \in Nat \ {0}
    BY DEF Descends
  <2>2. \A j \in 1 .. L - 1 : j \in 1 .. L
    BY <2>1
  <2> HIDE DEF L, path, nodes
  <2>3. /\ \A j \in 1 .. L - 1 : path[j] = frames[j + 1].child
        /\ \A j \in 1 .. L : nodes[j - 1] = frames[j].node
    BY PathNodes DEF L, path, nodes
  <2> QED
    BY <2>1, <2>2, <2>3
<1>2. ASSUME NEW j \in 1 .. L - 1
      PROVE  /\ path[j] \in Nat \ {0}
             /\ path[j] # 1 => frames[j].hint = Hint(frames[j].node, frames[j].node.children[1])
  <2>1. j \in 1 .. L /\ j + 1 \in 2 .. L /\ (j + 1) - 1 = j
    BY <1>1
  <2>2. path[j] = frames[j].next
    <3>1. path[j] = frames[j + 1].child
      BY <1>1
    <3>2. frames[j + 1].child = frames[(j + 1) - 1].next
      BY <2>1 DEF Descends
    <3> HIDE DEF path
    <3> QED
      BY <2>1, <3>1, <3>2
  <2>3. frames[j].next \in Nat \ {0}
    BY <2>1 DEF Descends
  <2>4. frames[j].next > 1 => frames[j].hint = Hint(frames[j].node, frames[j].node.children[1])
    BY <2>1 DEF Descends
  <2> HIDE DEF path
  <2> QED
    BY <2>2, <2>3, <2>4
<1> DEFINE D == Decisive(frames)
<1>3. (i = 0 \/ i \in D) /\ i \in Nat /\ \A j \in D : j <= i
  BY DecisiveFrame
<1>4. D \subseteq 1 .. L - 1 /\ \A j \in 1 .. L - 1 : Kind(frames[j]) \in {"Call", "BinaryOperator"} => j \in D
  BY DEF Decisive
<1>5. \A j \in D : Kind(frames[j]) \in {"Call", "BinaryOperator", "InitList", "DesignatedInit", "Return", "Var"}
  BY DEF Decisive
<1>6. /\ n # 0 => n \in 1 .. L - 1 /\ Kind(frames[n]) \in {"Call", "BinaryOperator"}
      /\ n \in Nat /\ \A j \in 1 .. L - 1 : Kind(frames[j]) \in {"Call", "BinaryOperator"} => j <= n
  <2> DEFINE S == {j \in 1 .. L - 1 : Kind(frames[j]) \in {"Call", "BinaryOperator"}}
  <2>1. (n = 0 \/ n \in S) /\ n \in Nat /\ \A j \in S : j <= n
    BY NearestFrame
  <2> HIDE DEF n, L
  <2> QED
    BY <2>1
<1>7. m \in Nat /\ \A j \in 1 .. L - 1 : Kind(frames[j]) \in {"InitList", "DesignatedInit", "Return", "Var"} => j <= m
  BY NearestFrame
<1>8. call # 0 => path[call] # 1
  BY CalleeFrame
<1>9. call \in Nat /\ \A j \in 1 .. L - 1 : Kind(frames[j]) = "Call" => j <= call
  BY NearestFrame
<1>10. call # 0 => call \in 1 .. L - 1 /\ Kind(frames[call]) = "Call"
  <2> DEFINE S == {j \in 1 .. L - 1 : Kind(frames[j]) \in {"Call"}}
  <2>1. call = 0 \/ call \in S
    BY NearestFrame
  <2> HIDE DEF call, L
  <2> QED
    BY <2>1
<1>11. /\ i # 0 /\ Kind(frames[i]) = "BinaryOperator" => t.context = BinaryContext(frames, i)
       /\ i # 0 /\ Kind(frames[i]) = "Call" => t.context = CallContext(frames, i)
       /\ i = 0 \/ Kind(frames[i]) \notin {"BinaryOperator", "Call"} => t.context[1] # "arg_to"
  BY Classified
<1>12. ContextOf(t) <=>
          /\ t.context[1] = "arg_to" =>
                /\ n # 0 /\ nodes[n - 1].kind = "Call" /\ path[n] >= 2
                /\ t.context[2] = IF InspectCallee(nodes[n - 1].children[1]) = <<>> THEN "<call>"
                                  ELSE InspectCallee(nodes[n - 1].children[1])[2]
          /\ (n # 0 /\ nodes[n - 1].kind = "BinaryOperator" /\ nodes[n - 1].detail = "=" /\ path[n] = 2 /\ m < n) =>
                t.context = InspectLHS(nodes[n - 1].children[1])
  <2>1. t.at[1] = tu /\ t.at[2] = path
    OBVIOUS
  <2> QED
    BY <2>1 DEF ContextOf
<1> HIDE DEF i, n, m, call, nodes, path, D
<1>13. n # 0 => n \in D /\ n <= i /\ i # 0
  <2>1. n # 0 => n \in D /\ n >= 1
    BY <1>4, <1>6
  <2> QED
    BY <1>3, <1>6, <2>1
<1>14. i # 0 => i \in D /\ i \in 1 .. L - 1
  BY <1>3, <1>4
<1>15. (i # 0 /\ Kind(frames[i]) \in {"Call", "BinaryOperator"}) => n = i
  <2> SUFFICES ASSUME i # 0, Kind(frames[i]) \in {"Call", "BinaryOperator"} PROVE n = i
    OBVIOUS
  <2>1. i <= n /\ n # 0
    BY <1>6, <1>14, <1>1
  <2> QED
    BY <1>3, <1>6, <1>13, <2>1
<1>16. ASSUME t.context[1] = "arg_to"
       PROVE  /\ n # 0 /\ nodes[n - 1].kind = "Call" /\ path[n] >= 2
              /\ t.context[2] = IF InspectCallee(nodes[n - 1].children[1]) = <<>> THEN "<call>"
                                ELSE InspectCallee(nodes[n - 1].children[1])[2]
  <2>1. i # 0 /\ i \in 1 .. L - 1 /\ Kind(frames[i]) \in {"BinaryOperator", "Call"}
    BY <1>11, <1>14, <1>16
  <2>2. n = i /\ nodes[i - 1] = frames[i].node
    BY <1>1, <1>15, <2>1
  <2>3. path[i] # 1 => frames[i].hint = Hint(frames[i].node, frames[i].node.children[1])
    BY <1>2, <2>1
  <2>4. Kind(frames[i]) # "BinaryOperator"
    <3> SUFFICES ASSUME Kind(frames[i]) = "BinaryOperator" PROVE FALSE
      OBVIOUS
    <3>1. t.context = BinaryContext(frames, i)
      BY <1>11, <2>1
    <3>2. path[i] = frames[i + 1].child
      BY <1>1, <2>1
    <3>3. path[i] # 1 => frames[i].hint = InspectLHS(frames[i].node.children[1])
      BY <2>3 DEF Hint, Kind
    <3>4. BinaryContext(frames, i) \in {<<"compared">>, <<"other">>} \/
             (path[i] # 1 /\ BinaryContext(frames, i) = frames[i].hint)
      BY <3>2 DEF BinaryContext
    <3>5. <<"compared">>[1] # "arg_to" /\ <<"other">>[1] # "arg_to"
      OBVIOUS
    <3> QED
      BY <1>16, <3>1, <3>3, <3>4, <3>5, TargetsAreNotArguments
  <2>5. Kind(frames[i]) = "Call" /\ t.context = CallContext(frames, i)
    BY <1>11, <2>1, <2>4
  <2>6. path[i] # 1
    <3>1. i <= call /\ call # 0 /\ call \in 1 .. L - 1 /\ Kind(frames[call]) = "Call"
      BY <1>1, <1>9, <1>10, <2>1, <2>5
    <3>2. call <= i
      BY <1>3, <1>4, <3>1
    <3>3. call = i
      BY <1>3, <1>9, <3>1, <3>2
    <3> QED
      BY <1>8, <3>1, <3>3
  <2>7. path[i] >= 2
    BY <1>2, <2>1, <2>6
  <2>8. frames[i].hint = InspectCallee(frames[i].node.children[1])
    BY <2>3, <2>5, <2>6 DEF Hint, Kind
  <2>9. t.context[2] = IF frames[i].hint = <<>> THEN "<call>" ELSE frames[i].hint[2]
    BY <2>5 DEF CallContext
  <2> QED
    BY <2>1, <2>2, <2>5, <2>7, <2>8, <2>9 DEF Kind
<1>17. ASSUME n # 0, nodes[n - 1].kind = "BinaryOperator", nodes[n - 1].detail = "=", path[n] = 2, m < n
       PROVE  t.context = InspectLHS(nodes[n - 1].children[1])
  <2>1. n <= i /\ i # 0 /\ i \in D /\ i \in 1 .. L - 1 /\ n \in 1 .. L - 1
    BY <1>6, <1>13, <1>14, <1>17
  <2>2. Kind(frames[i]) \in {"Call", "BinaryOperator"}
    <3> SUFFICES ASSUME Kind(frames[i]) \notin {"Call", "BinaryOperator"} PROVE FALSE
      OBVIOUS
    <3>1. Kind(frames[i]) \in {"InitList", "DesignatedInit", "Return", "Var"}
      BY <1>5, <2>1
    <3>2. i <= m
      BY <1>7, <2>1, <3>1
    <3> QED
      BY <1>3, <1>6, <1>7, <1>17, <2>1, <3>2
  <2>3. n = i /\ nodes[i - 1] = frames[i].node
    BY <1>1, <1>15, <2>1, <2>2
  <2>4. Kind(frames[i]) = "BinaryOperator" /\ frames[i].node.detail = "=" /\ path[i] = 2
    BY <1>17, <2>3 DEF Kind
  <2>5. frames[i].hint = InspectLHS(frames[i].node.children[1])
    <3>1. frames[i].hint = Hint(frames[i].node, frames[i].node.children[1])
      BY <1>2, <2>1, <2>4
    <3> QED
      BY <2>4, <3>1 DEF Hint, Kind
  <2>6. BinaryContext(frames, i) = frames[i].hint
    <3>1. frames[i + 1].child # 1
      BY <1>1, <2>1, <2>4
    <3> QED
      BY <2>4, <3>1 DEF BinaryContext, Comparisons
  <2> QED
    BY <1>11, <2>1, <2>3, <2>4, <2>5, <2>6
<1> QED
  BY <1>12, <1>16, <1>17

-----------------------------------------------------------------------------
(* Entering a node                                                         *)

\* A node declares at most one function that clangd knows.
LEMMA KnownFacts ==
    ASSUME WalkTypes, NEW k, NEW node
    PROVE  /\ node.kind # "Function" => KnownFunction(k, node) = {}
           /\ KnownFunction(k, node) = {} \/ \E f \in answers \ {NoFunction} : KnownFunction(k, node) = {f}
<1>1. NoFunction \notin answers
  BY FunctionsAssumption DEF WalkTypes
<1>2. FunctionUSR(k, node.detail) = {} \/ \E f \in answers : FunctionUSR(k, node.detail) = {f}
  <2> DEFINE docs == program[k].docs
             named == {i \in DOMAIN docs : docs[i].callable /\ docs[i].name = node.detail}
             f == docs[Min(named)].usr
  <2>1. FunctionUSR(k, node.detail) = IF named = {} THEN {} ELSE {f} \cap answers
    BY DEF FunctionUSR
  <2> HIDE DEF named, f
  <2>2. CASE f \in answers /\ named # {}
    BY <2>1, <2>2
  <2>3. CASE f \notin answers \/ named = {}
    BY <2>1, <2>3
  <2> QED
    BY <2>2, <2>3
<1> QED
  BY <1>1, <1>2 DEF KnownFunction

\* The address take at the node on top, if there is one.
LEMMA Taken ==
    ASSUME NEW frames, NEW known, NEW take \in AddressTake(frames, known)
    PROVE  LET node == frames[Len(frames)].node
               is == ReferencesFunction(node) /\ ~InCalleeSubtree(frames) /\ node.detail \in answers
           IN \/ take = <<>> /\ ~is
              \/ is /\ \E t : /\ take = <<t>> /\ t.at = <<tu, Path(frames)>>
                              /\ t.context = ClassifyAddressTake(frames)
                              /\ t.type \in CanonicalTypes(NormalizeFnPtrType(node.type), known)
<1> DEFINE node == frames[Len(frames)].node
           is == ReferencesFunction(node) /\ ~InCalleeSubtree(frames) /\ node.detail \in answers
           fact(type) == [function |-> node.detail, at |-> <<tu, Path(frames)>>, type |-> type,
                          context |-> ClassifyAddressTake(frames)]
           types == CanonicalTypes(NormalizeFnPtrType(node.type), known)
<1>1. AddressTake(frames, known) = IF is THEN {<<fact(type)>> : type \in types} ELSE {<<>>}
  BY DEF AddressTake
<1>2. CASE ~is
  <2> HIDE DEF is, fact, types
  <2>1. take = <<>>
    BY <1>1, <1>2
  <2> QED
    BY <1>2, <2>1 DEF is
<1>3. CASE is
  <2>1. \E type \in types : take = <<fact(type)>>
    <3> HIDE DEF is, fact, types
    <3> QED
      BY <1>1, <1>3
  <2>2. PICK type \in types : take = <<fact(type)>>
    BY <2>1
  <2>3. /\ fact(type).at = <<tu, Path(frames)>> /\ fact(type).context = ClassifyAddressTake(frames)
        /\ fact(type).type = type
    OBVIOUS
  <2> HIDE DEF fact, types
  <2>4. \E t : /\ take = <<t>> /\ t.at = <<tu, Path(frames)>> /\ t.context = ClassifyAddressTake(frames)
               /\ t.type \in types
    BY <2>2, <2>3
  <2> QED
    BY <1>3, <2>4 DEF types
<1> QED
  BY <1>2, <1>3

\* The call at the node on top, if it is one that is recorded.
LEMMA Called ==
    ASSUME NEW frames, NEW known, NEW caller, NEW node \in Nodes, frames[Len(frames)].node = node,
           NEW site \in HandleCall(frames, known, caller)
    PROVE  LET call == /\ node.kind = "Call" /\ node.children # <<>> /\ caller # NoFunction
                       /\ InspectCallee(node.children[1]) = <<>>
           IN \/ site = <<>> /\ ~call
              \/ /\ call
                 /\ \E s : /\ site = <<s>> /\ s.at = <<tu, Path(frames)>> /\ s.caller = caller
                           /\ s.type \in CanonicalTypes(node.children[1].type, known)
<1> DEFINE callee == node.children[1]
           is == /\ node.kind = "Call" /\ node.children # <<>> /\ caller # NoFunction
                 /\ ~ReferencesFunction(DrillThroughCastWrappers(callee)) /\ callee.type # <<>>
           fact(type) == [caller |-> caller, at |-> <<tu, Path(frames)>>, type |-> type]
           types == CanonicalTypes(callee.type, known)
<1>1. HandleCall(frames, known, caller) = IF is THEN {<<fact(type)>> : type \in types} ELSE {<<>>}
  BY DEF HandleCall
<1>2. CASE ~is
  <2>1. site = <<>>
    <3> HIDE DEF is, fact, types
    <3> QED
      BY <1>1, <1>2
  <2>2. node.kind = "Call" /\ node.children # <<>> => callee.type # <<>>
    <3> HIDE DEF is
    <3> QED
      BY CalleesAssumption
  <2>3. InspectCallee(callee) = <<>> => ~ReferencesFunction(DrillThroughCastWrappers(callee))
    <3> DEFINE n == DrillThroughCastWrappers(callee)
    <3>1. InspectCallee(callee) = IF ReferencesFunction(n) THEN <<"callee", n.detail>> ELSE <<>>
      BY DEF InspectCallee
    <3>2. <<"callee", n.detail>> # <<>>
      <4> HIDE DEF n
      <4> QED
        OBVIOUS
    <3> HIDE DEF n, callee
    <3>3. InspectCallee(callee) = <<>> => ~ReferencesFunction(n)
      BY <3>1, <3>2
    <3> QED
      BY <3>3 DEF n
  <2> HIDE DEF callee
  <2>4. ~(/\ node.kind = "Call" /\ node.children # <<>> /\ caller # NoFunction /\ InspectCallee(callee) = <<>>)
    BY <1>2, <2>2, <2>3
  <2> QED
    BY <2>1, <2>4 DEF callee
<1>3. CASE is
  <2>1. PICK type \in types : site = <<fact(type)>>
    <3> HIDE DEF is, fact, types
    <3> QED
      BY <1>1, <1>3
  <2>2. fact(type).at = <<tu, Path(frames)>> /\ fact(type).caller = caller /\ fact(type).type = type
    OBVIOUS
  <2> HIDE DEF fact, types
  <2>3. \E s : site = <<s>> /\ s.at = <<tu, Path(frames)>> /\ s.caller = caller /\ s.type \in types
    BY <2>1, <2>2
  <2>4. InspectCallee(callee) = <<>>
    BY <1>3 DEF InspectCallee
  <2> QED
    BY <1>3, <2>3, <2>4 DEF types, callee
<1> QED
  BY <1>2, <1>3

\* The stack goes on down.
LEMMA DescendsFurther ==
    ASSUME WalkTypes, StackInv, NEW node \in Nodes, NEW i \in Nat, Entering(node, i)
    PROVE  Descends(stack')
<1> DEFINE L == Len(stack)
           new == stack'
<1>1. /\ L \in Nat /\ Len(new) = L + 1 /\ \A j \in 1 .. L : new[j] = stack[j]
      /\ new[L + 1].node = node /\ new[L + 1].child = i /\ new[L + 1].next = 1
  <2>1. Visit(node, i)
    BY DEF Entering
  <2> QED
    BY <2>1, Grows
<1>2. /\ stack = <<>> => L = 0 /\ node = program[tu].ast
      /\ stack # <<>> => /\ L > 0 /\ Descends(stack) /\ i = stack[L].next /\ i <= Len(stack[L].node.children)
                         /\ node = stack[L].node.children[i]
  <2>1. (stack = <<>> <=> L = 0) /\ L \in Nat
    BY StackTypes
  <2>2. stack = <<>> \/ i # 0
    <3>1. stack # <<>> => Top = stack[L] /\ Top.next \in Nat \ {0}
      BY StackTypes
    <3> QED
      BY <3>1 DEF Entering
  <2>3. stack # <<>> => Descends(stack) /\ L > 0
    BY <2>1, StackDescends
  <2> QED
    BY <2>1, <2>2, <2>3 DEF Entering, Top
<1> HIDE DEF new
<1>3. ASSUME NEW j \in 1 .. L
      PROVE  /\ new[j].node \in Nodes /\ new[j].child \in Nat /\ new[j].next \in Nat \ {0}
             /\ new[j].next > 1 => new[j].hint = Hint(new[j].node, new[j].node.children[1])
  <2>1. Descends(stack)
    BY <1>1, <1>2
  <2> QED
    BY <1>1, <2>1 DEF Descends
<1>4. new[1].node = program[tu].ast
  <2>1. CASE L = 0
    BY <1>1, <1>2, <2>1
  <2>2. CASE L # 0
    BY <1>1, <1>2, <2>2 DEF Descends
  <2> QED
    BY <2>1, <2>2
<1>5. ASSUME NEW j \in 2 .. L + 1
      PROVE  /\ new[j].child = new[j - 1].next /\ new[j - 1].next <= Len(new[j - 1].node.children)
             /\ new[j].node = new[j - 1].node.children[new[j - 1].next]
  <2>1. L \in 1 .. L /\ Descends(stack) /\ j - 1 \in 1 .. L
    BY <1>1, <1>2
  <2>2. CASE j = L + 1
    <3>1. j - 1 = L
      BY <1>1, <2>2
    <3> QED
      BY <1>1, <1>2, <2>1, <2>2, <3>1
  <2>3. CASE j # L + 1
    <3>1. j \in 2 .. L /\ j \in 1 .. L
      BY <1>1, <2>3
    <3>2. new[j] = stack[j] /\ new[j - 1] = stack[j - 1]
      BY <1>1, <2>1, <3>1
    <3>3. /\ stack[j].child = stack[j - 1].next /\ stack[j - 1].next <= Len(stack[j - 1].node.children)
          /\ stack[j].node = stack[j - 1].node.children[stack[j - 1].next]
      BY <2>1, <3>1 DEF Descends
    <3> QED
      BY <3>2, <3>3
  <2> QED
    BY <2>2, <2>3
<1>6. ASSUME NEW j \in 1 .. L + 1
      PROVE  /\ new[j].node \in Nodes /\ new[j].child \in Nat /\ new[j].next \in Nat \ {0}
             /\ new[j].next > 1 => new[j].hint = Hint(new[j].node, new[j].node.children[1])
  <2>1. CASE j \in 1 .. L
    BY <1>3, <2>1
  <2>2. CASE j = L + 1
    BY <1>1, <2>2
  <2> QED
    BY <1>1, <2>1, <2>2
<1>7. Len(new) \in Nat \ {0}
  BY <1>1
<1>8. Descends(new)
  <2> HIDE DEF L
  <2> QED
    BY <1>1, <1>4, <1>5, <1>6, <1>7 DEF Descends
<1> QED
  BY <1>8 DEF new

\* What entering a node does, apart from the stack.
LEMMA Entered ==
    ASSUME WalkTypes, NEW node \in Nodes, NEW i \in Nat, Entering(node, i)
    PROVE  LET frames == stack'
               ref  == ReferencesFunction(node) /\ ~InCalleeSubtree(frames) /\ node.detail \in answers
               call == /\ node.kind = "Call" /\ node.children # <<>> /\ enclosing' # NoFunction
                       /\ InspectCallee(node.children[1]) = <<>>
           IN /\ UNCHANGED <<program, answers, stage, tu, doc, symbols, edges, payloads, merged, agg, rows, answer>>
              /\ stage = "walk" /\ tu <= Len(program)
              /\ \/ KnownFunction(tu, node) = {} /\ enclosing' = enclosing
                 \/ KnownFunction(tu, node) = {enclosing'} /\ enclosing' \in answers \ {NoFunction}
              /\ \/ takes' = takes /\ ~ref
                 \/ ref /\ \E t : /\ takes' = Append(takes, t) /\ t.at = <<tu, Path(frames)>>
                                  /\ t.context = ClassifyAddressTake(frames)
                                  /\ t.type \in CanonicalTypes(NormalizeFnPtrType(node.type), typedefs')
              /\ \/ sites' = sites /\ ~call
                 \/ /\ call
                    /\ \E s : /\ sites' = Append(sites, s) /\ s.at = <<tu, Path(frames)>>
                              /\ s.caller = enclosing'
                              /\ s.type \in CanonicalTypes(node.children[1].type, typedefs')
              /\ \/ typedefs' = typedefs
                 \/ node.kind = "Typedef" /\ node.type # <<>> /\ node.detail \notin DOMAIN typedefs
<1> DEFINE frames == Append(stack, Frame(node, i))
           known  == IF node.kind = "Typedef" /\ node.type # <<>> /\ node.detail \notin DOMAIN typedefs
                     THEN WithMore(typedefs, node.detail :> node.type) ELSE typedefs
           usrs   == KnownFunction(tu, node)
           caller == IF usrs # {} THEN CHOOSE usr \in usrs : TRUE ELSE enclosing
<1>1. /\ stack' = frames /\ typedefs' = known /\ enclosing' = caller
      /\ \E take \in AddressTake(frames, known) : takes' = takes \o take
      /\ \E site \in HandleCall(frames, known, caller) : sites' = sites \o site
      /\ UNCHANGED <<program, answers, stage, tu, symbolVars, payloads, merged, agg, rows, answer>>
  BY DEF Entering, Visit
<1>2. stage = "walk" /\ tu <= Len(program)
  BY DEF Entering, Walking
<1>3. \/ usrs = {} /\ enclosing' = enclosing
      \/ usrs = {enclosing'} /\ enclosing' \in answers \ {NoFunction}
  <2>1. CASE usrs = {}
    BY <1>1, <2>1
  <2>2. CASE usrs # {}
    <3>1. PICK f \in answers \ {NoFunction} : usrs = {f}
      BY <2>2, KnownFacts
    <3>2. enclosing' = f
      BY <1>1, <3>1
    <3> QED
      BY <3>1, <3>2
  <2> QED
    BY <2>1, <2>2
<1>4. /\ takes \in Seq(ToSet(takes)) /\ sites \in Seq(ToSet(sites))
      /\ \A r : takes \o <<r>> = Append(takes, r) /\ sites \o <<r>> = Append(sites, r)
      /\ takes \o <<>> = takes /\ sites \o <<>> = sites
  <2>1. takes \in Seq(ToSet(takes)) /\ sites \in Seq(ToSet(sites))
    BY DEF WalkTypes
  <2>2. \A r : takes \o <<r>> = Append(takes, r) /\ sites \o <<r>> = Append(sites, r)
    BY <2>1, OneMore
  <2>3. takes \o <<>> = takes /\ sites \o <<>> = sites
    BY <2>1
  <2> QED
    BY <2>1, <2>2, <2>3
<1>5. stack'[Len(stack')].node = node
  <2>1. Visit(node, i)
    BY DEF Entering
  <2> QED
    BY <2>1, Grows
<1>9. \/ typedefs' = typedefs
      \/ node.kind = "Typedef" /\ node.type # <<>> /\ node.detail \notin DOMAIN typedefs
  BY <1>1
<1> HIDE DEF frames, known, usrs, caller
<1> DEFINE ref  == ReferencesFunction(node) /\ ~InCalleeSubtree(stack') /\ node.detail \in answers
           call == /\ node.kind = "Call" /\ node.children # <<>> /\ enclosing' # NoFunction
                   /\ InspectCallee(node.children[1]) = <<>>
<1>6. \/ takes' = takes /\ ~ref
      \/ ref /\ \E t : /\ takes' = Append(takes, t) /\ t.at = <<tu, Path(stack')>>
                       /\ t.context = ClassifyAddressTake(stack')
                       /\ t.type \in CanonicalTypes(NormalizeFnPtrType(node.type), typedefs')
  <2>1. PICK take \in AddressTake(frames, known) : takes' = takes \o take
    BY <1>1
  <2>2. \/ take = <<>> /\ ~ref
        \/ ref /\ \E t : /\ take = <<t>> /\ t.at = <<tu, Path(stack')>>
                         /\ t.context = ClassifyAddressTake(stack')
                         /\ t.type \in CanonicalTypes(NormalizeFnPtrType(node.type), typedefs')
    <3>1. take \in AddressTake(stack', typedefs')
      BY <1>1, <2>1
    <3> QED
      BY <1>5, <3>1, Taken
  <2> HIDE DEF ref
  <2> QED
    BY <1>4, <2>1, <2>2
<1>7. \/ sites' = sites /\ ~call
      \/ /\ call
         /\ \E s : /\ sites' = Append(sites, s) /\ s.at = <<tu, Path(stack')>>
                   /\ s.caller = enclosing' /\ s.type \in CanonicalTypes(node.children[1].type, typedefs')
  <2>1. PICK site \in HandleCall(frames, known, caller) : sites' = sites \o site
    BY <1>1
  <2>2. \/ site = <<>> /\ ~call
        \/ /\ call
           /\ \E s : /\ site = <<s>> /\ s.at = <<tu, Path(stack')>> /\ s.caller = enclosing'
                     /\ s.type \in CanonicalTypes(node.children[1].type, typedefs')
    <3>1. site \in HandleCall(stack', typedefs', enclosing')
      BY <1>1
    <3> QED
      BY <1>5, <3>1, Called
  <2> HIDE DEF call
  <2> QED
    BY <1>4, <2>1, <2>2
<1>8. UNCHANGED <<program, answers, stage, tu, doc, symbols, edges, payloads, merged, agg, rows, answer>>
  BY <1>1 DEF symbolVars
<1> QED
  BY <1>2, <1>3, <1>6, <1>7, <1>8, <1>9 DEF usrs

\* The functions clangd knows stay what they are.
LEMMA KnownSame ==
    ASSUME program' = program, answers' = answers
    PROVE  \A k, node : KnownFunction(k, node)' = KnownFunction(k, node)
BY DEF KnownFunction, FunctionUSR

\* The invariants of the stack, after a step within a TU.
LEMMA StackInvNext ==
    ASSUME program' = program, tu' = tu, Descends(stack'), DOMAIN stack' = 1 .. Len(stack')
    PROVE  StackInv'
<1> DEFINE new == stack'
<1>1. ASSUME NEW i \in DOMAIN new
      PROVE  /\ i = 1 => new[i].node = program[tu].ast
             /\ i > 1 => /\ new[i].child = new[i - 1].next /\ new[i - 1].next <= Len(new[i - 1].node.children)
                         /\ new[i].node = new[i - 1].node.children[new[i - 1].next]
             /\ new[i].next > 1 => new[i].hint = Hint(new[i].node, new[i].node.children[1])
  <2>1. Len(new) \in Nat /\ i \in 1 .. Len(new) /\ Descends(new) /\ (i > 1 => i \in 2 .. Len(new))
    BY DEF Descends
  <2> HIDE DEF new
  <2> QED
    BY <2>1 DEF Descends
<1>2. StackInv' <=> \A i \in DOMAIN new :
        /\ i = 1 => new[i].node = program[tu].ast
        /\ i > 1 => LET parent == new[i - 1]
                    IN /\ new[i].child = parent.next /\ parent.next <= Len(parent.node.children)
                       /\ new[i].node = parent.node.children[parent.next]
        /\ new[i].next > 1 => new[i].hint = Hint(new[i].node, new[i].node.children[1])
  BY DEF StackInv
<1> HIDE DEF new
<1> QED
  BY <1>1, <1>2

LEMMA EnclosingInvNext ==
    ASSUME program' = program, answers' = answers, tu' = tu
    PROVE  EnclosingInv' <=> /\ Encloses(stack', Len(stack'), enclosing')
                             /\ \A i \in DOMAIN stack' : Encloses(stack', i - 1, stack'[i].outer)
<1>1. Encloses(stack, Len(stack), enclosing)' <=> Encloses(stack', Len(stack'), enclosing')
  BY DEF Encloses, KnownFunction, FunctionUSR
<1>2. (\A i \in DOMAIN stack : Encloses(stack, i - 1, stack[i].outer))'
          <=> \A i \in DOMAIN stack' : Encloses(stack', i - 1, stack'[i].outer)
  BY DEF Encloses, KnownFunction, FunctionUSR
<1> QED
  BY <1>1, <1>2 DEF EnclosingInv

LEMMA EnclosesSame ==
    ASSUME NEW frames, NEW others, NEW n \in Nat, NEW f,
           \A j \in 1 .. n : frames[j].node = others[j].node, Encloses(frames, n, f)
    PROVE  Encloses(others, n, f)
<1> DEFINE K(fs, j) == KnownFunction(tu, fs[j].node)
<1>1. \A j \in 1 .. n : K(frames, j) = K(others, j)
  OBVIOUS
<1>2. \A j \in 1 .. n : \A l \in j + 1 .. n : l \in 1 .. n
  OBVIOUS
<1>3. \A fs : Encloses(fs, n, f) <=>
                  \/ f = NoFunction /\ \A j \in 1 .. n : K(fs, j) = {}
                  \/ \E j \in 1 .. n : K(fs, j) = {f} /\ \A l \in j + 1 .. n : K(fs, l) = {}
  BY DEF Encloses
<1> HIDE DEF K
<1>4. CASE f = NoFunction /\ \A j \in 1 .. n : K(frames, j) = {}
  BY <1>1, <1>3, <1>4
<1>5. CASE \E j \in 1 .. n : K(frames, j) = {f} /\ \A l \in j + 1 .. n : K(frames, l) = {}
  <2>1. PICK j \in 1 .. n : K(frames, j) = {f} /\ \A l \in j + 1 .. n : K(frames, l) = {}
    BY <1>5
  <2>2. K(others, j) = {f} /\ \A l \in j + 1 .. n : K(others, l) = {}
    BY <1>1, <1>2, <2>1
  <2> QED
    BY <1>3, <2>2
<1> QED
  BY <1>3, <1>4, <1>5

\* A function declared further down is the one that encloses.
LEMMA EnclosesMore ==
    ASSUME NEW frames, NEW n \in Nat, NEW f, NEW g, Encloses(frames, n, f),
           \/ KnownFunction(tu, frames[n + 1].node) = {} /\ g = f
           \/ KnownFunction(tu, frames[n + 1].node) = {g}
    PROVE  Encloses(frames, n + 1, g)
<1> DEFINE K(j) == KnownFunction(tu, frames[j].node)
<1>1. \A j \in 1 .. n + 1 : j \in 1 .. n \/ j = n + 1
  OBVIOUS
<1>2. n + 1 \in 1 .. n + 1 /\ \A j \in 1 .. n : j \in 1 .. n + 1
  OBVIOUS
<1>3. \/ f = NoFunction /\ \A j \in 1 .. n : K(j) = {}
      \/ \E j \in 1 .. n : K(j) = {f} /\ \A l \in j + 1 .. n : K(l) = {}
  BY DEF Encloses
<1>4. (K(n + 1) = {} /\ g = f) \/ K(n + 1) = {g}
  OBVIOUS
<1> HIDE DEF K
<1>5. \/ g = NoFunction /\ \A j \in 1 .. n + 1 : K(j) = {}
      \/ \E j \in 1 .. n + 1 : K(j) = {g} /\ \A l \in j + 1 .. n + 1 : K(l) = {}
  <2>1. CASE K(n + 1) = {g}
    <3>1. \A l \in (n + 1) + 1 .. n + 1 : FALSE
      OBVIOUS
    <3> QED
      BY <1>2, <2>1, <3>1
  <2>2. CASE K(n + 1) = {} /\ g = f /\ f = NoFunction /\ \A j \in 1 .. n : K(j) = {}
    BY <1>1, <2>2
  <2>3. CASE K(n + 1) = {} /\ g = f /\ \E j \in 1 .. n : K(j) = {f} /\ \A l \in j + 1 .. n : K(l) = {}
    <3>1. PICK j \in 1 .. n : K(j) = {f} /\ \A l \in j + 1 .. n : K(l) = {}
      BY <2>3
    <3>2. \A l \in j + 1 .. n + 1 : l \in j + 1 .. n \/ l = n + 1
      OBVIOUS
    <3> QED
      BY <1>2, <2>3, <3>1, <3>2
  <2> QED
    BY <1>3, <1>4, <2>1, <2>2, <2>3
<1> QED
  BY <1>5 DEF K, Encloses

\* Entering a node, and the functions around it.
LEMMA EnterEncloses ==
    ASSUME WalkTypes, EnclosingInv, NEW node \in Nodes, NEW i \in Nat, Entering(node, i)
    PROVE  EnclosingInv'
<1> DEFINE L == Len(stack)
           new == stack'
<1>1. /\ L \in Nat /\ Len(new) = L + 1 /\ DOMAIN new = 1 .. L + 1 /\ \A j \in 1 .. L : new[j] = stack[j]
      /\ new[L + 1].node = node /\ new[L + 1].outer = enclosing
  <2>1. Visit(node, i)
    BY DEF Entering
  <2> QED
    BY <2>1, Grows
<1>2. /\ program' = program /\ answers' = answers /\ tu' = tu
      /\ \/ KnownFunction(tu, node) = {} /\ enclosing' = enclosing
         \/ KnownFunction(tu, node) = {enclosing'}
  BY Entered
<1>3. DOMAIN stack = 1 .. L
  BY StackTypes
<1> HIDE DEF new
<1>4. Encloses(new, L, enclosing)
  <2>1. Encloses(stack, L, enclosing)
    BY DEF EnclosingInv
  <2> QED
    BY <1>1, <2>1, EnclosesSame
<1>5. Encloses(new, L + 1, enclosing')
  BY <1>1, <1>2, <1>4, EnclosesMore
<1>6. ASSUME NEW j \in 1 .. L + 1 PROVE Encloses(new, j - 1, new[j].outer)
  <2>1. CASE j = L + 1
    BY <1>1, <1>4, <2>1
  <2>2. CASE j # L + 1
    <3>1. j \in 1 .. L /\ j - 1 \in Nat /\ \A l \in 1 .. j - 1 : l \in 1 .. L
      BY <1>1, <2>2
    <3>2. Encloses(stack, j - 1, stack[j].outer)
      BY <1>3, <3>1 DEF EnclosingInv
    <3>3. \A l \in 1 .. j - 1 : stack[l].node = new[l].node
      BY <1>1, <3>1
    <3> QED
      BY <1>1, <3>1, <3>2, <3>3, EnclosesSame
  <2> QED
    BY <2>1, <2>2
<1> QED
  BY <1>1, <1>2, <1>5, <1>6, EnclosingInvNext DEF new

-----------------------------------------------------------------------------
(* What the walker has entered                                             *)

\* A path has been entered, as far as some frames say: it leads to one of them,
\* or goes on from one of them to a child that was left.
Visits(frames, path) ==
    \E m \in 1 .. Len(frames) :
        /\ Len(path) >= m - 1 /\ \A j \in 1 .. m - 1 : path[j] = frames[j + 1].child
        /\ Len(path) = m - 1 \/ path[m] < frames[m].next

LEMMA VisitedIs ==
    /\ WalkTypes => \A path : Visited(path) <=> Visits(stack, path)
    /\ DOMAIN stack' = 1 .. Len(stack') => \A path : Visited(path)' <=> Visits(stack', path)
<1>1. WalkTypes => DOMAIN stack = 1 .. Len(stack)
  BY StackTypes
<1> QED
  BY <1>1 DEF Visited, Visits

\* Entering a node adds its own path, which is new, and no other.
LEMMA EnterVisits ==
    ASSUME WalkTypes, StackInv, NEW node \in Nodes, NEW i \in Nat, Entering(node, i)
    PROVE  /\ Visits(stack', Path(stack')) /\ ~Visits(stack, Path(stack'))
           /\ \A path \in Seq(Nat) : Visits(stack, path) => Visits(stack', path)
           /\ \A path \in Seq(Nat \ {0}) : Visits(stack', path) => Visits(stack, path) \/ path = Path(stack')
<1> DEFINE L == Len(stack)
           new == stack'
           own == Path(new)
<1>1. /\ L \in Nat /\ Len(new) = L + 1 /\ \A j \in 1 .. L : new[j] = stack[j]
      /\ new[L + 1].child = i /\ new[L + 1].next = 1
  <2>1. Visit(node, i)
    BY DEF Entering
  <2> QED
    BY <2>1, Grows
<1>2. L # 0 => i = stack[L].next
  <2>1. (stack = <<>> <=> L = 0) /\ (stack # <<>> => Top = stack[L] /\ Top.next \in Nat \ {0})
    BY StackTypes
  <2> QED
    BY <2>1 DEF Entering
<1>3. Descends(new)
  BY DescendsFurther
<1>4. Len(own) = L /\ own \in Seq(Nat) /\ \A j \in 1 .. L : own[j] = new[j + 1].child
  <2>1. Len(own) = Len(new) - 1 /\ own \in Seq(Nat) /\ \A j \in 1 .. Len(new) - 1 : own[j] = new[j + 1].child
    BY <1>3, PathNodes
  <2> HIDE DEF own, new
  <2> QED
    BY <1>1, <2>1
<1>5. \A j \in 1 .. L : stack[j].next \in Nat
  BY StackTypes
<1>6. L # 0 => \A j \in 2 .. L : stack[j].child = stack[j - 1].next
  <2>1. L # 0 => Descends(stack)
    BY StackDescends, StackTypes
  <2> QED
    BY <2>1 DEF Descends
<1> HIDE DEF own, new
<1>7. Visits(new, own)
  <2>1. L + 1 \in 1 .. Len(new) /\ (L + 1) - 1 = L
    BY <1>1
  <2> QED
    BY <1>1, <1>4, <2>1 DEF Visits
<1>8. ~Visits(stack, own)
  <2> SUFFICES ASSUME Visits(stack, own) PROVE FALSE
    OBVIOUS
  <2>1. PICK m \in 1 .. L : Len(own) = m - 1 \/ own[m] < stack[m].next
    BY DEF Visits
  <2>2. own[m] < stack[m].next /\ own[m] = new[m + 1].child
    BY <1>1, <1>4, <2>1
  <2>3. own[m] = stack[m].next
    <3>1. CASE m = L
      BY <1>1, <1>2, <2>2, <3>1
    <3>2. CASE m # L
      <4>1. m + 1 \in 2 .. L /\ m + 1 \in 1 .. L /\ (m + 1) - 1 = m /\ L # 0
        BY <1>1, <3>2
      <4>2. stack[m + 1].child = stack[(m + 1) - 1].next
        BY <1>6, <4>1
      <4>3. new[m + 1] = stack[m + 1]
        BY <1>1, <4>1
      <4> QED
        BY <2>2, <4>1, <4>2, <4>3
    <3> QED
      BY <3>1, <3>2
  <2> QED
    BY <1>5, <2>1, <2>2, <2>3
<1>9. ASSUME NEW path \in Seq(Nat), Visits(stack, path) PROVE Visits(new, path)
  <2>1. PICK m \in 1 .. L : /\ Len(path) >= m - 1 /\ \A j \in 1 .. m - 1 : path[j] = stack[j + 1].child
                            /\ Len(path) = m - 1 \/ path[m] < stack[m].next
    BY <1>9 DEF Visits
  <2>2. m \in 1 .. Len(new) /\ new[m] = stack[m] /\ \A j \in 1 .. m - 1 : j + 1 \in 1 .. L
    BY <1>1
  <2>3. \A j \in 1 .. m - 1 : path[j] = new[j + 1].child
    BY <1>1, <2>1, <2>2
  <2>4. Len(path) = m - 1 \/ path[m] < new[m].next
    BY <2>1, <2>2
  <2> QED
    BY <2>1, <2>2, <2>3, <2>4 DEF Visits
<1>10. ASSUME NEW path \in Seq(Nat \ {0}), Visits(new, path) PROVE Visits(stack, path) \/ path = own
  <2>1. PICK m \in 1 .. Len(new) : /\ Len(path) >= m - 1 /\ \A j \in 1 .. m - 1 : path[j] = new[j + 1].child
                                   /\ Len(path) = m - 1 \/ path[m] < new[m].next
    BY <1>10 DEF Visits
  <2>2. CASE m = L + 1
    <3>1. Len(path) = L
      <4> SUFFICES ASSUME Len(path) # L PROVE FALSE
        OBVIOUS
      <4>1. m - 1 = L /\ Len(path) \in Nat /\ Len(path) >= L + 1
        BY <1>1, <2>1, <2>2
      <4>2. path[L + 1] < 1
        BY <1>1, <2>1, <2>2, <4>1
      <4>3. path[L + 1] \in Nat \ {0}
        BY <1>1, <4>1
      <4> QED
        BY <4>2, <4>3
    <3>2. \A j \in 1 .. L : path[j] = own[j]
      BY <1>1, <1>4, <2>1, <2>2
    <3>3. path \in Seq(Nat)
      OBVIOUS
    <3> QED
      BY <1>1, <1>4, <3>1, <3>2, <3>3, SeqEqual
  <2>3. CASE m # L + 1
    <3>1. m \in 1 .. L /\ new[m] = stack[m] /\ \A j \in 1 .. m - 1 : j + 1 \in 1 .. L
      BY <1>1, <2>3
    <3>2. \A j \in 1 .. m - 1 : path[j] = stack[j + 1].child
      BY <1>1, <2>1, <3>1
    <3>3. Len(path) = m - 1 \/ path[m] < stack[m].next
      BY <2>1, <3>1
    <3> QED
      BY <2>1, <3>1, <3>2, <3>3 DEF Visits
  <2> QED
    BY <2>2, <2>3
<1> QED
  BY <1>7, <1>8, <1>9, <1>10 DEF own, new

\* Leaving a node changes nothing of it: the child that was left takes the
\* place of its frame.
LEMMA LeaveVisits ==
    ASSUME WalkTypes, StackInv, Leave
    PROVE  /\ \A path \in Seq(Nat) : Visits(stack, path) => Visits(stack', path)
           /\ \A path : InTree(program, tu, path) /\ Visits(stack', path) => Visits(stack, path)
<1> DEFINE L == Len(stack)
           new == stack'
<1>1. /\ L \in Nat /\ L > 1 /\ Len(new) = L - 1 /\ \A j \in 1 .. L - 2 : new[j] = stack[j]
      /\ new[L - 1].child = stack[L - 1].child /\ new[L - 1].next = stack[L - 1].next + 1
      /\ stack[L].next > Len(stack[L].node.children)
  BY Shrinks
<1>2. Descends(stack)
  <2>1. stack # <<>>
    BY <1>1, StackTypes
  <2> QED
    BY <2>1, StackDescends
<1>3. stack[L].child = stack[L - 1].next /\ \A j \in 1 .. L : stack[j].next \in Nat
  <2>1. L \in 2 .. L
    BY <1>1
  <2> QED
    BY <1>2, <2>1 DEF Descends
<1>4. \A j \in 1 .. L - 1 : new[j].child = stack[j].child
  <2> HIDE DEF new
  <2>1. \A j \in 1 .. L - 1 : j \in 1 .. L - 2 \/ j = L - 1
    BY <1>1
  <2> QED
    BY <1>1, <2>1
<1> HIDE DEF new
<1>5. ASSUME NEW path \in Seq(Nat), Visits(stack, path) PROVE Visits(new, path)
  <2>1. PICK m \in 1 .. L : /\ Len(path) >= m - 1 /\ \A j \in 1 .. m - 1 : path[j] = stack[j + 1].child
                            /\ Len(path) = m - 1 \/ path[m] < stack[m].next
    BY <1>5 DEF Visits
  <2>2. CASE m \in 1 .. L - 1
    <3>1. m \in 1 .. Len(new) /\ \A j \in 1 .. m - 1 : j + 1 \in 1 .. L - 1
      BY <1>1, <2>2
    <3>2. \A j \in 1 .. m - 1 : path[j] = new[j + 1].child
      BY <1>4, <2>1, <3>1
    <3>3. Len(path) = m - 1 \/ path[m] < new[m].next
      <4>1. CASE Len(path) = m - 1
        BY <4>1
      <4>2. CASE Len(path) # m - 1
        <5>1. path[m] < stack[m].next /\ path[m] \in Nat /\ stack[m].next \in Nat
          <6>1. m \in 1 .. Len(path)
            BY <2>1, <4>2
          <6> QED
            BY <1>3, <2>1, <4>2, <6>1
        <5>2. new[m].next = stack[m].next \/ new[m].next = stack[m].next + 1
          <6>1. m \in 1 .. L - 2 \/ m = L - 1
            BY <1>1, <2>2
          <6> QED
            BY <1>1, <6>1
        <5> QED
          BY <5>1, <5>2
      <4> QED
        BY <4>1, <4>2
    <3> QED
      BY <2>1, <3>1, <3>2, <3>3 DEF Visits
  <2>3. CASE m = L
    <3>1. L - 1 \in 1 .. Len(new) /\ Len(path) >= (L - 1) - 1 /\ L - 1 \in 1 .. m - 1
      BY <1>1, <2>1, <2>3
    <3>2. \A j \in 1 .. (L - 1) - 1 : path[j] = new[j + 1].child
      <4>1. \A j \in 1 .. (L - 1) - 1 : j \in 1 .. m - 1 /\ j + 1 \in 1 .. L - 1
        BY <1>1, <2>3
      <4> QED
        BY <1>4, <2>1, <4>1
    <3>3. path[L - 1] < new[L - 1].next
      <4>1. path[L - 1] = stack[L].child
        <5>1. (L - 1) + 1 = L
          BY <1>1
        <5> QED
          BY <2>1, <3>1, <5>1
      <4>2. stack[L - 1].next \in Nat
        <5>1. L - 1 \in 1 .. L
          BY <1>1
        <5> QED
          BY <1>3, <5>1
      <4> QED
        BY <1>1, <1>3, <4>1, <4>2
    <3> QED
      BY <3>1, <3>2, <3>3 DEF Visits
  <2> QED
    BY <1>1, <2>2, <2>3
<1>6. ASSUME NEW path, InTree(program, tu, path), Visits(new, path) PROVE Visits(stack, path)
  <2>1. PICK m \in 1 .. Len(new) : /\ Len(path) >= m - 1 /\ \A j \in 1 .. m - 1 : path[j] = new[j + 1].child
                                   /\ Len(path) = m - 1 \/ path[m] < new[m].next
    BY <1>6 DEF Visits
  <2>2. m \in 1 .. L - 1 /\ m \in 1 .. L /\ Len(path) \in Nat
    BY <1>1, <1>6 DEF InTree
  <2>3. \A j \in 1 .. m - 1 : path[j] = stack[j + 1].child
    <3>1. \A j \in 1 .. m - 1 : j + 1 \in 1 .. L - 1
      BY <1>1, <2>2
    <3> QED
      BY <1>4, <2>1, <3>1
  <2>4. CASE Len(path) = m - 1 \/ path[m] < stack[m].next
    BY <2>1, <2>2, <2>3, <2>4 DEF Visits
  <2>5. CASE ~(Len(path) = m - 1 \/ path[m] < stack[m].next)
    <3>1. m = L - 1 /\ path[m] < stack[m].next + 1 /\ m \in 1 .. Len(path)
      <4>1. m \in 1 .. L - 2 \/ m = L - 1
        BY <1>1, <2>2
      <4>2. m # L - 1 => new[m] = stack[m]
        BY <1>1, <4>1
      <4> QED
        BY <1>1, <2>1, <2>2, <2>5, <4>2
    <3>2. path[m] = stack[m].next
      <4>1. path[m] \in Nat /\ stack[m].next \in Nat
        BY <1>3, <1>6, <2>2, <3>1 DEF InTree
      <4> QED
        BY <2>5, <3>1, <4>1
    <3>3. \A j \in 1 .. L - 1 : path[j] = stack[j + 1].child
      <4>1. \A j \in 1 .. L - 1 : j \in 1 .. m - 1 \/ j = m
        BY <1>1, <3>1
      <4>2. m + 1 = L
        BY <1>1, <3>1
      <4>3. path[m] = stack[m + 1].child
        BY <1>3, <3>1, <3>2, <4>2
      <4> QED
        BY <2>3, <4>1, <4>3
    <3>4. Len(path) = L - 1 \/ path[L] < stack[L].next
      <4> SUFFICES ASSUME Len(path) # L - 1 PROVE path[L] < stack[L].next
        OBVIOUS
      <4>1. L \in 1 .. Len(path)
        BY <1>1, <2>2, <3>1
      <4>2. NodesOn(program, tu, path)[L - 1] = stack[L].node
        <5>1. L - 1 \in 0 .. Len(stack) - 1 /\ L - 1 <= Len(path) /\ L - 1 \in 0 .. L - 1 /\ (L - 1) + 1 = L
          BY <1>1, <3>1, <2>2
        <5>2. \A n \in 0 .. L - 1 : NodesOn(program, tu, path)[n] = stack[n + 1].node
          BY <1>2, <2>2, <3>3, <5>1, FrameNodes
        <5> QED
          BY <5>1, <5>2
      <4>3. path[L] \in 1 .. Len(stack[L].node.children)
        BY <1>6, <4>1, <4>2 DEF InTree
      <4>4. Len(stack[L].node.children) \in Nat /\ stack[L].next \in Nat
        <5>1. stack[L].node \in Nodes
          BY <1>1, <1>2 DEF Descends
        <5> QED
          BY <1>1, <1>3, <5>1, NodeFacts
      <4> QED
        BY <1>1, <4>3, <4>4
    <3> QED
      BY <1>1, <2>2, <3>1, <3>3, <3>4 DEF Visits
  <2> QED
    BY <2>4, <2>5
<1> QED
  BY <1>5, <1>6 DEF new

-----------------------------------------------------------------------------
(* Nothing is lost and nothing recorded twice                              *)

LEMMA InTreePositive ==
    ASSUME NEW p, NEW k, NEW path, InTree(p, k, path)
    PROVE  path \in Seq(Nat \ {0}) /\ path \in Seq(Nat) /\ Len(path) \in Nat
<1>1. path \in Seq(Nat) /\ Len(path) \in Nat
  BY DEF InTree
<1>2. \A n \in 1 .. Len(path) : path[n] \in Nat \ {0}
  <2> SUFFICES ASSUME NEW n \in 1 .. Len(path) PROVE path[n] \in Nat \ {0}
    OBVIOUS
  <2>1. path[n] \in Nat
    BY <1>1
  <2>2. path[n] \in 1 .. Len(NodesOn(p, k, path)[n - 1].children)
    BY DEF InTree
  <2> QED
    BY <2>1, <2>2
<1> QED
  BY <1>1, <1>2

\* Facts of entered nodes, each recorded once.
PlacedAt(facts, frames) ==
    Once(facts) /\ \A fact \in ToSet(facts) :
        fact.at = <<tu, fact.at[2]>> /\ fact.at[2] \in Seq(Nat) /\ Visits(frames, fact.at[2])

LEMMA PlacedIs ==
    /\ WalkTypes => (Placed(takes) <=> PlacedAt(takes, stack)) /\ (Placed(sites) <=> PlacedAt(sites, stack))
    /\ DOMAIN stack' = 1 .. Len(stack') /\ tu' = tu =>
          (Placed(takes)' <=> PlacedAt(takes', stack')) /\ (Placed(sites)' <=> PlacedAt(sites', stack'))
<1>1. WalkTypes => (Placed(takes) <=> PlacedAt(takes, stack)) /\ (Placed(sites) <=> PlacedAt(sites, stack))
  BY VisitedIs DEF Placed, PlacedAt
<1>2. ASSUME DOMAIN stack' = 1 .. Len(stack'), tu' = tu
      PROVE  (Placed(takes)' <=> PlacedAt(takes', stack')) /\ (Placed(sites)' <=> PlacedAt(sites', stack'))
  <2>1. \A path : Visited(path)' <=> Visits(stack', path)
    BY <1>2, VisitedIs
  <2> QED
    BY <1>2, <2>1 DEF Placed, PlacedAt, Once
<1> QED
  BY <1>1, <1>2

LEMMA EnterPlaces ==
    ASSUME WalkTypes, StackInv, NEW node \in Nodes, NEW i \in Nat, Entering(node, i),
           NEW s, s \in Seq(ToSet(s)), PlacedAt(s, stack)
    PROVE  /\ PlacedAt(s, stack')
           /\ \A r : r.at = <<tu, Path(stack')>> => PlacedAt(Append(s, r), stack')
<1> DEFINE own == Path(stack')
<1>1. /\ Visits(stack', own) /\ ~Visits(stack, own)
      /\ \A path \in Seq(Nat) : Visits(stack, path) => Visits(stack', path)
  BY EnterVisits
<1>2. own \in Seq(Nat)
  BY DescendsFurther, PathNodes
<1> HIDE DEF own
<1>3. PlacedAt(s, stack')
  BY <1>1 DEF PlacedAt
<1>4. ASSUME NEW r, r.at = <<tu, own>> PROVE PlacedAt(Append(s, r), stack')
  <2> DEFINE t == Append(s, r)
             N == Len(s)
  <2>1. /\ N \in Nat /\ DOMAIN s = 1 .. N /\ DOMAIN t = 1 .. N + 1 /\ t[N + 1] = r
        /\ \A j \in 1 .. N : t[j] = s[j]
        /\ ToSet(t) = ToSet(s) \cup {r}
    BY OneMore
  <2>2. \A j \in 1 .. N : s[j].at # r.at
    <3> SUFFICES ASSUME NEW j \in 1 .. N, s[j].at = r.at PROVE FALSE
      OBVIOUS
    <3>1. s[j] \in ToSet(s)
      BY <2>1 DEF ToSet
    <3>2. Visits(stack, s[j].at[2])
      BY <3>1 DEF PlacedAt
    <3>3. s[j].at[2] = own
      BY <1>4
    <3> QED
      BY <1>1, <3>2, <3>3
  <2> HIDE DEF t
  <2>3. Once(t)
    <3> SUFFICES ASSUME NEW j \in 1 .. N + 1, NEW l \in 1 .. N + 1, j # l PROVE t[j].at # t[l].at
      BY <2>1 DEF Once
    <3>1. CASE j = N + 1
      <4>1. l \in 1 .. N
        BY <2>1, <3>1
      <4> QED
        BY <2>1, <2>2, <3>1, <4>1
    <3>2. CASE l = N + 1
      <4>1. j \in 1 .. N
        BY <2>1, <3>2
      <4> QED
        BY <2>1, <2>2, <3>2, <4>1
    <3>3. CASE j # N + 1 /\ l # N + 1
      <4>1. j \in 1 .. N /\ l \in 1 .. N
        BY <2>1, <3>3
      <4>2. s[j].at # s[l].at
        BY <2>1, <4>1 DEF PlacedAt, Once
      <4> QED
        BY <2>1, <4>1, <4>2
    <3> QED
      BY <3>1, <3>2, <3>3
  <2>4. r.at = <<tu, r.at[2]>> /\ r.at[2] = own
    BY <1>4
  <2> QED
    BY <1>1, <1>2, <1>3, <2>1, <2>3, <2>4 DEF PlacedAt, t
<1> QED
  BY <1>3, <1>4 DEF own

\* Calls on the stack that are recorded.
CallsOf(frames, facts) ==
    \A n \in 1 .. Len(frames) :
        LET node == frames[n].node
        IN (/\ node.kind = "Call" /\ node.children # <<>> /\ InspectCallee(node.children[1]) = <<>>
            /\ \E i \in 1 .. n : KnownFunction(tu, frames[i].node) # {})
           => Recorded(ToSet(facts), tu, SubSeq(Path(frames), 1, n - 1))

LEMMA CallsInvNext ==
    /\ WalkTypes => (CallsInv <=> CallsOf(stack, sites))
    /\ (program' = program /\ answers' = answers /\ tu' = tu /\ DOMAIN stack' = 1 .. Len(stack')) =>
          (CallsInv' <=> CallsOf(stack', sites'))
<1>1. WalkTypes => (CallsInv <=> CallsOf(stack, sites))
  <2>1. WalkTypes => DOMAIN stack = 1 .. Len(stack)
    BY StackTypes
  <2> QED
    BY <2>1 DEF CallsInv, CallsOf
<1>2. ASSUME program' = program, answers' = answers, tu' = tu, DOMAIN stack' = 1 .. Len(stack')
      PROVE  CallsInv' <=> CallsOf(stack', sites')
  BY <1>2 DEF CallsInv, CallsOf, Recorded, Path, KnownFunction, FunctionUSR
<1> QED
  BY <1>1, <1>2

LEMMA SamePath ==
    ASSUME NEW frames, NEW others, NEW n, Len(frames) \in Nat \ {0}, Len(others) \in Nat \ {0},
           n \in 1 .. Len(frames), n \in 1 .. Len(others),
           \A j \in 1 .. n : frames[j].child = others[j].child
    PROVE  SubSeq(Path(frames), 1, n - 1) = SubSeq(Path(others), 1, n - 1)
<1>1. \A fs : SubSeq(Path(fs), 1, n - 1) = [j \in 1 .. n - 1 |-> Path(fs)[j]]
  <2>1. (n - 1) - 1 + 1 = n - 1
    OBVIOUS
  <2>2. \A fs : SubSeq(Path(fs), 1, n - 1) = [j \in 1 .. (n - 1) - 1 + 1 |-> Path(fs)[1 + j - 1]]
    OBVIOUS
  <2>3. \A j \in 1 .. n - 1 : 1 + j - 1 = j
    OBVIOUS
  <2> QED
    BY <2>1, <2>2, <2>3
<1>2. \A j \in 1 .. n - 1 : Path(frames)[j] = Path(others)[j]
  <2> SUFFICES ASSUME NEW j \in 1 .. n - 1 PROVE Path(frames)[j] = Path(others)[j]
    OBVIOUS
  <2>1. j \in 1 .. Len(frames) - 1 /\ j \in 1 .. Len(others) - 1 /\ j + 1 \in 1 .. n
    OBVIOUS
  <2>2. Path(frames)[j] = frames[j + 1].child /\ Path(others)[j] = others[j + 1].child
    BY <2>1, PathOfFrames
  <2> QED
    BY <2>1, <2>2
<1> QED
  BY <1>1, <1>2

LEMMA FactsGrow ==
    ASSUME WalkTypes, NEW node \in Nodes, NEW i \in Nat, Entering(node, i)
    PROVE  /\ ToSet(takes) \subseteq ToSet(takes') /\ ToSet(sites) \subseteq ToSet(sites')
           /\ takes' \in Seq(ToSet(takes')) /\ sites' \in Seq(ToSet(sites'))
<1>1. takes \in Seq(ToSet(takes)) /\ sites \in Seq(ToSet(sites))
  BY DEF WalkTypes
<1>2. takes' = takes \/ \E t : takes' = Append(takes, t)
  BY Entered
<1>3. sites' = sites \/ \E s : sites' = Append(sites, s)
  BY Entered
<1>4. ToSet(takes) \subseteq ToSet(takes') /\ takes' \in Seq(ToSet(takes'))
  <2>1. CASE takes' = takes
    BY <1>1, <2>1
  <2>2. CASE \E t : takes' = Append(takes, t)
    <3>1. PICK t : takes' = Append(takes, t)
      BY <2>2
    <3> QED
      BY <1>1, <3>1, OneMore
  <2> QED
    BY <1>2, <2>1, <2>2
<1>5. ToSet(sites) \subseteq ToSet(sites') /\ sites' \in Seq(ToSet(sites'))
  <2>1. CASE sites' = sites
    BY <1>1, <2>1
  <2>2. CASE \E s : sites' = Append(sites, s)
    <3>1. PICK s : sites' = Append(sites, s)
      BY <2>2
    <3> QED
      BY <1>1, <3>1, OneMore
  <2> QED
    BY <1>3, <2>1, <2>2
<1> QED
  BY <1>4, <1>5

\* A function that encloses is one that is known.
LEMMA EnclosingIsKnown ==
    ASSUME WalkTypes, NEW frames, NEW n \in Nat, NEW f, Encloses(frames, n, f),
           NEW i \in 1 .. n, KnownFunction(tu, frames[i].node) # {}
    PROVE  f # NoFunction
<1>1. PICK j \in 1 .. n : KnownFunction(tu, frames[j].node) = {f}
  BY DEF Encloses
<1>2. \E g \in answers \ {NoFunction} : KnownFunction(tu, frames[j].node) = {g}
  BY <1>1, KnownFacts
<1> QED
  BY <1>1, <1>2

\* A call that names no function is recorded when it is entered.
LEMMA EnterCalls ==
    ASSUME WalkTypes, StackInv, EnclosingInv, CallsInv, NEW node \in Nodes, NEW i \in Nat, Entering(node, i)
    PROVE  CallsOf(stack', sites')
<1> DEFINE L == Len(stack)
           new == stack'
<1>1. /\ L \in Nat /\ Len(new) = L + 1 /\ DOMAIN new = 1 .. L + 1 /\ \A j \in 1 .. L : new[j] = stack[j]
      /\ new[L + 1].node = node
  <2>1. Visit(node, i)
    BY DEF Entering
  <2> QED
    BY <2>1, Grows
<1>2. CallsOf(stack, sites)
  BY CallsInvNext
<1>3. Encloses(new, L + 1, enclosing')
  <2>1. EnclosingInv'
    BY EnterEncloses
  <2>2. program' = program /\ answers' = answers /\ tu' = tu
    BY Entered
  <2>3. Encloses(new, Len(new), enclosing')
    BY <2>1, <2>2, EnclosingInvNext
  <2> HIDE DEF new
  <2> QED
    BY <1>1, <2>3
<1>4. \/ sites' = sites /\ ~(/\ node.kind = "Call" /\ node.children # <<>> /\ enclosing' # NoFunction
                             /\ InspectCallee(node.children[1]) = <<>>)
      \/ \E s : sites' = Append(sites, s) /\ s.at = <<tu, Path(new)>>
  BY Entered
<1>5. Len(Path(new)) = L /\ Path(new) \in Seq(Nat)
  <2>1. Descends(new)
    BY DescendsFurther
  <2> HIDE DEF new
  <2> QED
    BY <1>1, <2>1, PathNodes
<1>6. ToSet(sites) \subseteq ToSet(sites') /\ sites \in Seq(ToSet(sites))
  BY FactsGrow DEF WalkTypes
<1> HIDE DEF new
<1>7. ASSUME NEW n \in 1 .. Len(new), new[n].node.kind = "Call", new[n].node.children # <<>>,
             InspectCallee(new[n].node.children[1]) = <<>>,
             NEW l \in 1 .. n, KnownFunction(tu, new[l].node) # {}
      PROVE  Recorded(ToSet(sites'), tu, SubSeq(Path(new), 1, n - 1))
  <2>1. CASE n \in 1 .. L
    <3>1. \A j \in 1 .. n : new[j] = stack[j]
      <4>1. \A j \in 1 .. n : j \in 1 .. L
        BY <1>1, <2>1
      <4> QED
        BY <1>1, <4>1
    <3>2. Recorded(ToSet(sites), tu, SubSeq(Path(stack), 1, n - 1))
      <4>1. new[n] = stack[n] /\ new[l] = stack[l] /\ n \in 1 .. Len(stack)
        BY <1>1, <2>1, <3>1
      <4>2. /\ stack[n].node.kind = "Call" /\ stack[n].node.children # <<>>
            /\ InspectCallee(stack[n].node.children[1]) = <<>>
            /\ KnownFunction(tu, stack[l].node) # {}
        BY <1>7, <4>1
      <4> QED
        BY <1>2, <4>1, <4>2 DEF CallsOf
    <3>3. SubSeq(Path(stack), 1, n - 1) = SubSeq(Path(new), 1, n - 1)
      <4>1. Len(stack) \in Nat \ {0} /\ Len(new) \in Nat \ {0} /\ n \in 1 .. Len(stack) /\ n \in 1 .. Len(new)
        BY <1>1, <2>1
      <4> HIDE DEF L
      <4> QED
        BY <3>1, <4>1, SamePath
    <3> QED
      BY <1>6, <3>2, <3>3 DEF Recorded
  <2>2. CASE n = L + 1
    <3>1. enclosing' # NoFunction
      <4>1. l \in 1 .. L + 1 /\ L + 1 \in Nat
        BY <1>1, <2>2
      <4> HIDE DEF L
      <4> QED
        BY <1>3, <1>7, <4>1, EnclosingIsKnown
    <3>2. PICK s : sites' = Append(sites, s) /\ s.at = <<tu, Path(new)>>
      BY <1>1, <1>4, <1>7, <2>2, <3>1
    <3>3. s \in ToSet(sites')
      BY <1>6, <3>2, OneMore
    <3>4. SubSeq(Path(new), 1, n - 1) = Path(new)
      <4>1. n - 1 = L
        BY <1>1, <2>2
      <4> HIDE DEF L
      <4> QED
        BY <1>5, <4>1
    <3> QED
      BY <3>2, <3>3, <3>4 DEF Recorded
  <2> QED
    BY <1>1, <2>1, <2>2
<1> QED
  BY <1>7 DEF CallsOf, new

\* What some facts account for.
Accounts(path, some, others) ==
    LET nodes == NodesOn(program, tu, path)
        ref == nodes[Len(path)]
        n   == Nearest(tu, path, {"Call"})
        f   == Nearest(tu, path, {"Function"})
    IN (/\ ReferencesFunction(ref) /\ ref.detail \in answers
        /\ f # 0 /\ FunctionUSR(tu, nodes[f - 1].detail) # {})
       => \/ Recorded(ToSet(some), tu, path)
          \/ /\ n # 0 /\ path[n] = 1
             /\ \/ InspectCallee(nodes[n]) # <<>>
                \/ Recorded(ToSet(others), tu, SubSeq(path, 1, n - 1))

LEMMA AccountedIs ==
    /\ \A path : AccountedFor(path) <=> Accounts(path, takes, sites)
    /\ (program' = program /\ answers' = answers /\ tu' = tu) =>
          \A path : AccountedFor(path)' <=> Accounts(path, takes', sites')
<1>1. \A path : AccountedFor(path) <=> Accounts(path, takes, sites)
  BY DEF AccountedFor, Accounts
<1>2. ASSUME program' = program, answers' = answers, tu' = tu, NEW path
      PROVE  AccountedFor(path)' <=> Accounts(path, takes', sites')
  BY <1>2 DEF AccountedFor, Accounts, Nearest, Recorded, FunctionUSR
<1> QED
  BY <1>1, <1>2

LEMMA AccountsMore ==
    ASSUME NEW path, NEW some, NEW others, NEW more, NEW further,
           ToSet(some) \subseteq ToSet(more), ToSet(others) \subseteq ToSet(further), Accounts(path, some, others)
    PROVE  Accounts(path, more, further)
<1>1. /\ \A p : Recorded(ToSet(some), tu, p) => Recorded(ToSet(more), tu, p)
      /\ \A p : Recorded(ToSet(others), tu, p) => Recorded(ToSet(further), tu, p)
  BY DEF Recorded
<1> QED
  BY <1>1 DEF Accounts

\* A reference is accounted for when it is entered.
LEMMA EnterAccounts ==
    ASSUME WalkTypes, StackInv, EnclosingInv, CallsInv, NEW node \in Nodes, NEW i \in Nat, Entering(node, i),
           Path(stack') \in Paths(program, tu)
    PROVE  Accounts(Path(stack'), takes', sites')
<1> DEFINE new == stack'
           path == Path(new)
           L == Len(new)
           nodes == NodesOn(program, tu, path)
           n == Nearest(tu, path, {"Call"})
           f == Nearest(tu, path, {"Function"})
<1>1. Descends(new) /\ CallsOf(new, sites')
  BY DescendsFurther, EnterCalls
<1>2. new[L].node = node
  <2>1. Visit(node, i)
    BY DEF Entering
  <2> QED
    BY <2>1, Grows
<1>3. takes \in Seq(ToSet(takes))
  BY DEF WalkTypes
<1>4. \/ ~(ReferencesFunction(node) /\ ~InCalleeSubtree(new) /\ node.detail \in answers)
      \/ \E t : takes' = Append(takes, t) /\ t.at = <<tu, path>>
  BY Entered
<1> HIDE DEF new
<1>5. /\ Len(path) = L - 1 /\ L \in Nat \ {0} /\ \A j \in 1 .. L - 1 : path[j] = new[j + 1].child
      /\ \A j \in 0 .. L - 1 : nodes[j] = new[j + 1].node
      /\ \A j \in 1 .. L : nodes[j - 1] = new[j].node
  BY <1>1, PathNodes DEF Descends
<1>6. /\ n # 0 => n \in 1 .. L - 1 /\ Kind(new[n]) = "Call"
      /\ f # 0 => f \in 1 .. L - 1 /\ Kind(new[f]) = "Function"
  <2>1. \A kind : LET m == Nearest(tu, path, {kind})
                  IN m # 0 => m \in {j \in 1 .. L - 1 : Kind(new[j]) \in {kind}}
    <3> TAKE kind
    <3> HIDE DEF L
    <3> QED
      BY <1>1, NearestFrame DEF L
  <2>2. \A kind, m : m \in {j \in 1 .. L - 1 : Kind(new[j]) \in {kind}} => m \in 1 .. L - 1 /\ Kind(new[m]) = kind
    OBVIOUS
  <2> HIDE DEF L, path
  <2> QED
    BY <2>1, <2>2
<1>7. InCalleeSubtree(new) => n # 0 /\ path[n] = 1
  BY <1>1, CalleeFrame
<1>8. nodes[Len(path)] = node
  <2>1. L - 1 \in 0 .. L - 1 /\ (L - 1) + 1 = L
    BY <1>5
  <2> HIDE DEF nodes, path, L
  <2> QED
    BY <1>2, <1>5, <2>1
<1>9. program \in Programs /\ tu \in DOMAIN program
  <2>1. program \in Programs /\ tu \in Nat \ {0} /\ tu <= Len(program)
    BY Entered DEF WalkTypes
  <2> QED
    BY <2>1, ProgramFacts
<1>10. path \in Paths(program, tu)
  BY DEF new
<1>11. \A j \in 1 .. Len(path) : nodes[j - 1].kind = "Call" /\ path[j] = 1 =>
           \A l \in j .. Len(path) - 1 : nodes[l].kind # "Function"
  <2> HIDE DEF path
  <2> QED
    BY <1>9, <1>10, CalleesAssumption
<1> HIDE DEF path, nodes, n, f
<1> SUFFICES ASSUME ReferencesFunction(node), node.detail \in answers,
                    f # 0, FunctionUSR(tu, nodes[f - 1].detail) # {},
                    ~Recorded(ToSet(takes'), tu, path)
             PROVE  /\ n # 0 /\ path[n] = 1
                    /\ \/ InspectCallee(nodes[n]) # <<>>
                       \/ Recorded(ToSet(sites'), tu, SubSeq(path, 1, n - 1))
  BY <1>8 DEF Accounts, new, path, nodes, n, f
<1>12. InCalleeSubtree(new)
  <2> SUFFICES ASSUME ~InCalleeSubtree(new) PROVE FALSE
    OBVIOUS
  <2>1. PICK t : takes' = Append(takes, t) /\ t.at = <<tu, path>>
    BY <1>4
  <2>2. t \in ToSet(takes')
    BY <1>3, <2>1, OneMore
  <2> QED
    BY <2>1, <2>2 DEF Recorded
<1>13. n # 0 /\ path[n] = 1 /\ n \in 1 .. L - 1 /\ new[n].node.kind = "Call"
  BY <1>6, <1>7, <1>12 DEF Kind
<1>14. nodes[n] = new[n].node.children[1] /\ new[n].node.children # <<>>
  <2>1. n + 1 \in 2 .. L /\ (n + 1) - 1 = n /\ n \in 0 .. L - 1 /\ n \in 1 .. L
    BY <1>5, <1>13
  <2>2. /\ new[n + 1].child = new[n].next /\ new[n].next <= Len(new[n].node.children)
        /\ new[n + 1].node = new[n].node.children[new[n].next]
    <3>1. n + 1 \in 2 .. Len(new)
      BY <2>1
    <3>2. /\ new[n + 1].child = new[(n + 1) - 1].next
          /\ new[(n + 1) - 1].next <= Len(new[(n + 1) - 1].node.children)
          /\ new[n + 1].node = new[(n + 1) - 1].node.children[new[(n + 1) - 1].next]
      BY <1>1, <3>1 DEF Descends
    <3> QED
      BY <2>1, <3>2
  <2>3. new[n].next = 1 /\ nodes[n] = new[n + 1].node
    BY <1>5, <1>13, <2>1, <2>2
  <2>4. Len(new[n].node.children) >= 1
    BY <2>2, <2>3
  <2> QED
    BY <2>2, <2>3, <2>4
<1>15. f \in 1 .. L - 1 /\ new[f].node.kind = "Function" /\ nodes[f - 1] = new[f].node
  <2>1. f \in 1 .. L - 1 /\ new[f].node.kind = "Function"
    BY <1>6 DEF Kind
  <2>2. f \in 1 .. L
    BY <1>5, <2>1
  <2> QED
    BY <1>5, <2>1, <2>2
<1>16. f \in 1 .. n
  <2> SUFFICES ASSUME f > n PROVE FALSE
    BY <1>13, <1>15
  <2>1. n \in 1 .. Len(path) /\ f - 1 \in n .. Len(path) - 1 /\ n \in 1 .. L
    BY <1>5, <1>13, <1>15
  <2>2. nodes[n - 1].kind = "Call"
    BY <1>5, <1>13, <2>1
  <2> QED
    BY <1>11, <1>13, <1>15, <2>1, <2>2
<1>17. KnownFunction(tu, new[f].node) # {}
  BY <1>15 DEF KnownFunction
<1>18. InspectCallee(nodes[n]) = <<>> => Recorded(ToSet(sites'), tu, SubSeq(path, 1, n - 1))
  <2>1. n \in 1 .. Len(new)
    BY <1>5, <1>13
  <2> HIDE DEF L
  <2> QED
    BY <1>1, <1>13, <1>14, <1>16, <1>17, <2>1 DEF CallsOf, path
<1> QED
  BY <1>13, <1>18

-----------------------------------------------------------------------------
(* Every step preserves the invariant                                      *)

LEMMA ContextNext ==
    ASSUME program' = program
    PROVE  \A t : ContextOf(t)' <=> ContextOf(t)
BY DEF ContextOf, Nearest

LEMMA CallerNext ==
    ASSUME program' = program, answers' = answers
    PROVE  \A s : CallerOf(s)' <=> CallerOf(s)
BY DEF CallerOf, KnownFunction, FunctionUSR

LEMMA EnterContexts ==
    ASSUME WalkTypes, StackInv, ContextIsNearest, NEW node \in Nodes, NEW i \in Nat, Entering(node, i)
    PROVE  ContextIsNearest'
<1>1. program' = program /\ payloads' = payloads
  BY Entered
<1>2. takes \in Seq(ToSet(takes))
  BY DEF WalkTypes
<1>3. Descends(stack') /\ stack'[Len(stack')].node = node
  <2>1. Visit(node, i)
    BY DEF Entering
  <2> QED
    BY <2>1, DescendsFurther, Grows
<1>4. \/ takes' = takes
      \/ /\ ~InCalleeSubtree(stack')
         /\ \E t : /\ takes' = Append(takes, t) /\ t.at = <<tu, Path(stack')>>
                   /\ t.context = ClassifyAddressTake(stack')
  BY Entered
<1>5. \A t \in ToSet(takes') : t \in ToSet(takes) \/ ContextOf(t)
  <2>1. CASE takes' = takes
    BY <2>1
  <2>2. CASE takes' # takes
    <3>1. PICK t : /\ takes' = Append(takes, t) /\ t.at = <<tu, Path(stack')>>
                   /\ t.context = ClassifyAddressTake(stack')
      BY <1>4, <2>2
    <3>2. ContextOf(t)
      BY <1>3, <1>4, <2>2, <3>1, ContextOfNew
    <3>3. ToSet(takes') = ToSet(takes) \cup {t}
      BY <1>2, <3>1, OneMore
    <3> QED
      BY <3>2, <3>3
  <2> QED
    BY <2>1, <2>2
<1>6. \A t \in AllTakes' : t \in AllTakes \/ ContextOf(t)
  BY <1>1, <1>5 DEF AllTakes
<1>7. \A t \in AllTakes' : ContextOf(t)
  BY <1>6 DEF ContextIsNearest
<1>8. \A t \in AllTakes' : ContextOf(t)'
  BY <1>1, <1>7, ContextNext
<1> QED
  BY <1>8 DEF ContextIsNearest

LEMMA EnterCallers ==
    ASSUME WalkTypes, StackInv, EnclosingInv, CallerIsInnermost,
           NEW node \in Nodes, NEW i \in Nat, Entering(node, i)
    PROVE  CallerIsInnermost'
<1> DEFINE L == Len(stack)
           new == stack'
           path == Path(new)
           nodes == NodesOn(program, tu, path)
<1>1. program' = program /\ answers' = answers /\ tu' = tu /\ payloads' = payloads
  BY Entered
<1>2. sites \in Seq(ToSet(sites))
  BY DEF WalkTypes
<1>3. L \in Nat /\ Len(new) = L + 1 /\ new[L + 1].node = node
  <2>1. Visit(node, i)
    BY DEF Entering
  <2> QED
    BY <2>1, Grows
<1>4. \/ sites' = sites
      \/ /\ node.kind = "Call" /\ enclosing' # NoFunction
         /\ \E s : sites' = Append(sites, s) /\ s.at = <<tu, path>> /\ s.caller = enclosing'
  BY Entered
<1>5. Encloses(new, L + 1, enclosing')
  <2>1. EnclosingInv'
    BY EnterEncloses
  <2>2. Encloses(new, Len(new), enclosing')
    BY <1>1, <2>1, EnclosingInvNext
  <2> HIDE DEF new
  <2> QED
    BY <1>3, <2>2
<1>6. Descends(new)
  BY DescendsFurther
<1> HIDE DEF new
<1>7. Len(path) = L /\ \A n \in 1 .. L + 1 : nodes[n - 1] = new[n].node
  <2> HIDE DEF L
  <2> QED
    BY <1>3, <1>6, PathNodes
<1>8. ASSUME NEW s, node.kind = "Call", enclosing' # NoFunction, s.at = <<tu, path>>, s.caller = enclosing'
      PROVE  CallerOf(s)
  <2>1. PICK n \in 1 .. L + 1 : /\ KnownFunction(tu, new[n].node) = {enclosing'}
                                /\ \A m \in n + 1 .. L + 1 : KnownFunction(tu, new[m].node) = {}
    BY <1>5, <1>8 DEF Encloses
  <2>2. n # L + 1
    <3>1. KnownFunction(tu, node) = {}
      BY <1>8, KnownFacts
    <3> QED
      BY <1>3, <2>1, <3>1
  <2>3. n \in 1 .. L /\ \A m \in n + 1 .. L : m \in n + 1 .. L + 1 /\ m \in 1 .. L + 1
    BY <1>3, <2>2
  <2> HIDE DEF nodes
  <2>4. /\ KnownFunction(tu, nodes[n - 1]) = {enclosing'}
        /\ \A m \in n + 1 .. L : KnownFunction(tu, nodes[m - 1]) = {}
    BY <1>7, <2>1, <2>3
  <2> HIDE DEF path, L
  <2>5. s.at[1] = tu /\ s.at[2] = path
    BY <1>8
  <2> QED
    BY <1>7, <1>8, <2>3, <2>4, <2>5 DEF CallerOf, nodes
<1>9. \A s \in ToSet(sites') : s \in ToSet(sites) \/ CallerOf(s)
  <2>1. CASE sites' = sites
    BY <2>1
  <2>2. CASE sites' # sites
    <3>1. PICK s : sites' = Append(sites, s) /\ s.at = <<tu, path>> /\ s.caller = enclosing'
      BY <1>4, <2>2
    <3>2. CallerOf(s)
      BY <1>4, <1>8, <2>2, <3>1
    <3>3. ToSet(sites') = ToSet(sites) \cup {s}
      BY <1>2, <3>1, OneMore
    <3> QED
      BY <3>2, <3>3
  <2> QED
    BY <2>1, <2>2
<1>10. \A s \in AllSites' : s \in AllSites \/ CallerOf(s)
  BY <1>1, <1>9 DEF AllSites
<1>11. \A s \in AllSites' : CallerOf(s)
  BY <1>10 DEF CallerIsInnermost
<1>12. \A s \in AllSites' : CallerOf(s)'
  BY <1>1, <1>11, CallerNext
<1> QED
  BY <1>12 DEF CallerIsInnermost

LEMMA EnterVisited ==
    ASSUME WalkTypes, StackInv, EnclosingInv, CallsInv, VisitedInv,
           NEW node \in Nodes, NEW i \in Nat, Entering(node, i)
    PROVE  VisitedInv'
<1>1. program' = program /\ answers' = answers /\ tu' = tu /\ stage' = stage /\ stage = "walk"
  BY Entered
<1>2. DOMAIN stack' = 1 .. Len(stack')
  <2>1. Visit(node, i)
    BY DEF Entering
  <2> QED
    BY <2>1, Grows
<1>3. Placed(takes)'
  <2>1. PlacedAt(takes, stack) /\ takes \in Seq(ToSet(takes))
    BY PlacedIs DEF VisitedInv, WalkTypes
  <2>2. takes' = takes \/ \E t : takes' = Append(takes, t) /\ t.at = <<tu, Path(stack')>>
    BY Entered
  <2>3. PlacedAt(takes, stack') /\ \A r : r.at = <<tu, Path(stack')>> => PlacedAt(Append(takes, r), stack')
    BY <2>1, EnterPlaces
  <2>4. PlacedAt(takes', stack')
    BY <2>2, <2>3
  <2> QED
    BY <1>1, <1>2, <2>4, PlacedIs
<1>4. Placed(sites)'
  <2>1. PlacedAt(sites, stack) /\ sites \in Seq(ToSet(sites))
    BY PlacedIs DEF VisitedInv, WalkTypes
  <2>2. sites' = sites \/ \E s : sites' = Append(sites, s) /\ s.at = <<tu, Path(stack')>>
    BY Entered
  <2>3. PlacedAt(sites, stack') /\ \A r : r.at = <<tu, Path(stack')>> => PlacedAt(Append(sites, r), stack')
    BY <2>1, EnterPlaces
  <2>4. PlacedAt(sites', stack')
    BY <2>2, <2>3
  <2> QED
    BY <1>1, <1>2, <2>4, PlacedIs
<1>5. ASSUME NEW path \in Paths(program, tu), Visits(stack', path)
      PROVE  Accounts(path, takes', sites')
  <2>1. path \in Seq(Nat \ {0})
    BY PathsAreInTree, InTreePositive
  <2>2. Visits(stack, path) \/ path = Path(stack')
    BY <1>5, <2>1, EnterVisits
  <2>3. CASE Visits(stack, path)
    <3>1. Accounts(path, takes, sites)
      BY <1>1, <2>3, VisitedIs, AccountedIs DEF VisitedInv, Indexing
    <3> QED
      BY <3>1, FactsGrow, AccountsMore
  <2>4. CASE path = Path(stack')
    BY <2>4, EnterAccounts
  <2> QED
    BY <2>2, <2>3, <2>4
<1>6. \A path \in Paths(program', tu') : Visited(path)' => AccountedFor(path)'
  BY <1>1, <1>2, <1>5, VisitedIs, AccountedIs
<1> QED
  BY <1>3, <1>4, <1>6 DEF VisitedInv

LEMMA TypesNext ==
    ASSUME WalkTypes, program' = program, answers' = answers,
           enclosing' \in answers \cup {NoFunction},
           stage' \in {"walk", "symbols", "merge", "write", "serve"}, tu' \in Nat \ {0},
           stack' \in Seq(ToSet(stack')), \A r \in ToSet(stack') : IsFrame(r),
           takes' \in Seq(ToSet(takes')), sites' \in Seq(ToSet(sites')), payloads' \in Seq(ToSet(payloads'))
    PROVE  WalkTypes'
<1>1. \A r : IsFrame(r)' <=> IsFrame(r)
  BY DEF IsFrame
<1> QED
  BY <1>1 DEF WalkTypes

LEMMA EnterTypes ==
    ASSUME WalkTypes, StageInv, NEW node \in Nodes, NEW i \in Nat, Entering(node, i)
    PROVE  WalkTypes' /\ StageInv'
<1>1. /\ UNCHANGED <<program, answers, stage, tu, payloads>> /\ stage = "walk"
      /\ enclosing' \in answers \cup {NoFunction}
  <2>1. enclosing \in answers \cup {NoFunction}
    BY DEF WalkTypes
  <2> QED
    BY <2>1, Entered
<1>2. stack' \in Seq(ToSet(stack')) /\ (\A r \in ToSet(stack') : IsFrame(r)) /\ stack' # <<>>
  <2>1. Visit(node, i)
    BY DEF Entering
  <2> QED
    BY <2>1, Grows
<1>3. takes' \in Seq(ToSet(takes')) /\ sites' \in Seq(ToSet(sites'))
  BY FactsGrow
<1>4. WalkTypes'
  <2>1. stage' \in {"walk", "symbols", "merge", "write", "serve"} /\ tu' \in Nat \ {0} /\ payloads' \in Seq(ToSet(payloads'))
    BY <1>1 DEF WalkTypes
  <2> QED
    BY <1>1, <1>2, <1>3, <2>1, TypesNext
<1>5. StageInv'
  BY <1>1, <1>2 DEF StageInv, Indexing
<1> QED
  BY <1>4, <1>5

\* MergeInv, as a formula about the values of the variables.
MergeOf(at, known, ends, all, done, total, database) ==
    /\ ends \subseteq (DOMAIN known) \X (DOMAIN known)
    /\ \A p \in ToSet(all) : p.edges \subseteq (DOMAIN p.symbols) \X (DOMAIN p.symbols)
    /\ done \subseteq DOMAIN all /\ (at \in {"walk", "symbols"} => done = {})
    /\ at \in {"write", "serve"} => done = DOMAIN all
    /\ DOMAIN total.symbols = UNION {DOMAIN all[k].symbols : k \in done}
    /\ total.edges = UNION {all[k].edges : k \in done}
    /\ total.takes = UNION {ToSet(all[k].takes) : k \in done}
    /\ total.sites = UNION {ToSet(all[k].sites) : k \in done}
    /\ at = "serve" => /\ database.edges = total.edges
                       /\ database.takes = {t \in total.takes : t.function \in DOMAIN total.symbols}
                       /\ database.sites = {s \in total.sites : s.caller \in DOMAIN total.symbols}

LEMMA MergeIs ==
    /\ MergeInv <=> MergeOf(stage, symbols, edges, payloads, merged, agg, rows)
    /\ MergeInv' <=> MergeOf(stage', symbols', edges', payloads', merged', agg', rows')
BY DEF MergeInv, MergeOf, Indexing, Serving

LEMMA MergeSame ==
    ASSUME MergeInv, UNCHANGED <<stage, symbols, edges, payloads, merged, agg, rows>>
    PROVE  MergeInv'
BY MergeIs

LEMMA EnterStep ==
    ASSUME IInv, VisitRoot \/ VisitChild
    PROVE  IInv'
<1>1. PICK node \in Nodes, i \in Nat : Entering(node, i)
  BY Enters DEF IInv
<1>2. WalkTypes' /\ StageInv'
  BY <1>1, EnterTypes DEF IInv
<1>3. StackInv' /\ CallsInv'
  <2>1. program' = program /\ answers' = answers /\ tu' = tu
    BY <1>1, Entered DEF IInv
  <2>2. DOMAIN stack' = 1 .. Len(stack')
    <3>1. Visit(node, i)
      BY <1>1 DEF Entering
    <3> QED
      BY <3>1, Grows DEF IInv
  <2>3. Descends(stack') /\ CallsOf(stack', sites')
    BY <1>1, DescendsFurther, EnterCalls DEF IInv
  <2> QED
    BY <2>1, <2>2, <2>3, StackInvNext, CallsInvNext
<1>4. EnclosingInv' /\ VisitedInv' /\ ContextIsNearest' /\ CallerIsInnermost'
  BY <1>1, EnterEncloses, EnterVisited, EnterContexts, EnterCallers DEF IInv
<1>5. MergeInv'
  <2>1. UNCHANGED <<stage, symbols, edges, payloads, merged, agg, rows>>
    BY <1>1, Entered DEF IInv
  <2> QED
    BY <2>1, MergeSame DEF IInv
<1> QED
  BY <1>2, <1>3, <1>4, <1>5 DEF IInv

-----------------------------------------------------------------------------
(* Leaving a node                                                          *)

LEMMA LeaveDescends ==
    ASSUME WalkTypes, StackInv, Leave
    PROVE  Descends(stack')
<1> DEFINE L == Len(stack)
           new == stack'
           old == stack[L - 1]
<1>1. /\ L \in Nat /\ L > 1 /\ Len(new) = L - 1 /\ \A j \in 1 .. L - 2 : new[j] = stack[j]
      /\ new[L - 1].node = old.node /\ new[L - 1].child = old.child /\ new[L - 1].next = old.next + 1
      /\ new[L - 1].hint = IF stack[L].child = 1 THEN Hint(old.node, stack[L].node) ELSE old.hint
  BY Shrinks
<1>2. Descends(stack)
  <2>1. stack # <<>>
    BY <1>1, StackTypes
  <2> QED
    BY <2>1, StackDescends
<1>3. /\ L \in 1 .. L /\ L - 1 \in 1 .. L /\ L \in 2 .. L
      /\ \A j \in 1 .. L - 1 : (j \in 1 .. L - 2 \/ j = L - 1) /\ j \in 1 .. L
  BY <1>1
<1>4. /\ old.next \in Nat \ {0} /\ old.node \in Nodes /\ old.child \in Nat
      /\ old.next > 1 => old.hint = Hint(old.node, old.node.children[1])
  BY <1>2, <1>3 DEF Descends
<1>5. stack[L].child = old.next /\ stack[L].node = old.node.children[old.next]
  BY <1>2, <1>3 DEF Descends
<1>6. new[L - 1].hint = Hint(old.node, old.node.children[1])
  <2>1. CASE old.next = 1
    BY <1>1, <1>5, <2>1
  <2>2. CASE old.next # 1
    <3>1. old.next > 1
      BY <1>4, <2>2
    <3> QED
      BY <1>1, <1>4, <1>5, <2>2, <3>1
  <2> QED
    BY <2>1, <2>2
<1>7. old.next + 1 \in Nat \ {0}
  BY <1>4
<1> HIDE DEF new, old
<1>8. ASSUME NEW j \in 1 .. L - 1
      PROVE  /\ new[j].node \in Nodes /\ new[j].child \in Nat /\ new[j].next \in Nat \ {0}
             /\ new[j].next > 1 => new[j].hint = Hint(new[j].node, new[j].node.children[1])
  <2>1. CASE j = L - 1
    BY <1>1, <1>4, <1>6, <1>7, <2>1
  <2>2. CASE j \in 1 .. L - 2
    <3>1. new[j] = stack[j] /\ j \in 1 .. L
      BY <1>1, <1>3, <2>2
    <3> QED
      BY <1>2, <3>1 DEF Descends
  <2> QED
    BY <1>3, <2>1, <2>2
<1>9. ASSUME NEW j \in 2 .. L - 1
      PROVE  /\ new[j].child = new[j - 1].next /\ new[j - 1].next <= Len(new[j - 1].node.children)
             /\ new[j].node = new[j - 1].node.children[new[j - 1].next]
  <2>1. j \in 1 .. L - 1 /\ j - 1 \in 1 .. L - 2 /\ j \in 2 .. L
    BY <1>1
  <2>2. new[j - 1] = stack[j - 1]
    BY <1>1, <2>1
  <2>3. new[j].child = stack[j].child /\ new[j].node = stack[j].node
    BY <1>1, <1>3, <2>1 DEF old
  <2>4. /\ stack[j].child = stack[j - 1].next /\ stack[j - 1].next <= Len(stack[j - 1].node.children)
        /\ stack[j].node = stack[j - 1].node.children[stack[j - 1].next]
    BY <1>2, <2>1 DEF Descends
  <2> QED
    BY <2>2, <2>3, <2>4
<1>10. new[1].node = program[tu].ast
  <2>1. stack[1].node = program[tu].ast
    BY <1>2 DEF Descends
  <2>2. new[1].node = stack[1].node
    <3>1. 1 \in 1 .. L - 1
      BY <1>1
    <3> QED
      BY <1>1, <1>3, <3>1 DEF old
  <2> QED
    BY <2>1, <2>2
<1>11. Len(new) \in Nat \ {0}
  BY <1>1
<1>12. Descends(new)
  <2> HIDE DEF L
  <2> QED
    BY <1>1, <1>8, <1>9, <1>10, <1>11 DEF Descends
<1> QED
  BY <1>12 DEF new

LEMMA LeaveStep ==
    ASSUME IInv, Leave
    PROVE  IInv'
<1> DEFINE L == Len(stack)
           new == stack'
<1> USE DEF IInv
<1>1. /\ L \in Nat /\ L > 1 /\ Len(new) = L - 1 /\ DOMAIN new = 1 .. L - 1
      /\ new \in Seq(ToSet(new)) /\ \A r \in ToSet(new) : IsFrame(r)
      /\ \A j \in 1 .. L - 2 : new[j] = stack[j]
      /\ new[L - 1].node = stack[L - 1].node /\ new[L - 1].child = stack[L - 1].child
      /\ enclosing' = stack[L].outer
  BY Shrinks
<1>2. /\ UNCHANGED <<program, answers, stage, tu, takes, sites, symbols, edges, payloads, merged, agg, rows>>
      /\ stage = "walk"
  BY DEF Leave, Walking, symbolVars
<1>3. stack[L].outer \in answers \cup {NoFunction} /\ DOMAIN stack = 1 .. L /\ L \in 1 .. L
  <2>1. L \in 1 .. L
    BY <1>1
  <2> QED
    BY <2>1, StackTypes
<1>4. \A j \in 1 .. L - 1 : new[j].node = stack[j].node /\ new[j].child = stack[j].child
  <2> HIDE DEF new
  <2>1. \A j \in 1 .. L - 1 : j \in 1 .. L - 2 \/ j = L - 1
    BY <1>1
  <2> QED
    BY <1>1, <2>1
<1>5. new # <<>>
  <2> HIDE DEF new
  <2> QED
    BY <1>1
<1>6. Descends(new) /\ DOMAIN new = 1 .. Len(new)
  BY <1>1, LeaveDescends
<1> HIDE DEF IInv
<1>7. WalkTypes' /\ StageInv'
  <2>1. WalkTypes /\ StageInv
    BY DEF IInv
  <2>2. /\ stage' \in {"walk", "symbols", "merge", "write", "serve"} /\ tu' \in Nat \ {0}
        /\ payloads' \in Seq(ToSet(payloads')) /\ takes' \in Seq(ToSet(takes')) /\ sites' \in Seq(ToSet(sites'))
    BY <1>2, <2>1 DEF WalkTypes
  <2>3. WalkTypes'
    BY <1>1, <1>2, <1>3, <2>1, <2>2, TypesNext
  <2>4. StageInv'
    BY <1>2, <1>5, <2>1 DEF StageInv, Indexing
  <2> QED
    BY <2>3, <2>4
<1>8. StackInv'
  BY <1>2, <1>6, StackInvNext
<1>9. EnclosingInv'
  <2>1. ASSUME NEW n \in 1 .. L, NEW f, Encloses(stack, n - 1, f) PROVE Encloses(new, n - 1, f)
    <3>1. n - 1 \in Nat /\ \A j \in 1 .. n - 1 : j \in 1 .. L - 1
      BY <1>1
    <3>2. \A j \in 1 .. n - 1 : stack[j].node = new[j].node
      BY <1>4, <3>1
    <3> QED
      BY <2>1, <3>1, <3>2, EnclosesSame
  <2> HIDE DEF new
  <2>2. \A n \in 1 .. L : Encloses(stack, n - 1, stack[n].outer)
    BY <1>3 DEF IInv, EnclosingInv
  <2>3. Encloses(new, Len(new), enclosing')
    BY <1>1, <1>3, <2>1, <2>2
  <2>4. \A n \in 1 .. L - 1 : new[n].outer = stack[n].outer
    <3>1. new[L - 1].outer = stack[L - 1].outer
      BY Shrinks DEF new, IInv
    <3>2. \A n \in 1 .. L - 1 : n \in 1 .. L - 2 \/ n = L - 1
      BY <1>1
    <3> QED
      BY <1>1, <3>1, <3>2
  <2>5. \A n \in 1 .. L - 1 : Encloses(new, n - 1, new[n].outer)
    <3>1. \A n \in 1 .. L - 1 : n \in 1 .. L
      BY <1>1
    <3> QED
      BY <2>1, <2>2, <2>4, <3>1
  <2>6. \A n \in DOMAIN new : Encloses(new, n - 1, new[n].outer)
    BY <1>1, <2>5
  <2> QED
    BY <1>2, <2>3, <2>6, EnclosingInvNext DEF new
<1>10. VisitedInv'
  <2>1. WalkTypes /\ StackInv /\ VisitedInv
    BY DEF IInv
  <2>2. PlacedAt(takes, stack) /\ PlacedAt(sites, stack)
    BY <2>1, PlacedIs DEF VisitedInv
  <2>3. \A path \in Seq(Nat) : Visits(stack, path) => Visits(new, path)
    BY <2>1, LeaveVisits
  <2>4. PlacedAt(takes, new) /\ PlacedAt(sites, new)
    BY <2>2, <2>3 DEF PlacedAt
  <2>5. Placed(takes)' /\ Placed(sites)'
    BY <1>2, <1>6, <2>4, PlacedIs
  <2>6. ASSUME NEW path \in Paths(program, tu), Visits(new, path) PROVE Accounts(path, takes, sites)
    <3>1. Visits(stack, path)
      BY <2>1, <2>6, LeaveVisits, PathsAreInTree
    <3> QED
      BY <1>2, <2>1, <3>1, VisitedIs, AccountedIs DEF VisitedInv, Indexing
  <2>7. \A path \in Paths(program', tu') : Visited(path)' => AccountedFor(path)'
    BY <1>2, <1>6, <2>6, VisitedIs, AccountedIs
  <2> QED
    BY <2>5, <2>7 DEF VisitedInv
<1>11. CallsInv'
  <2>1. CallsOf(stack, sites)
    BY CallsInvNext DEF IInv
  <2> HIDE DEF new
  <2>2. ASSUME NEW n \in 1 .. Len(new), new[n].node.kind = "Call", new[n].node.children # <<>>,
               InspectCallee(new[n].node.children[1]) = <<>>,
               NEW l \in 1 .. n, KnownFunction(tu, new[l].node) # {}
        PROVE  Recorded(ToSet(sites'), tu, SubSeq(Path(new), 1, n - 1))
    <3>1. n \in 1 .. L - 1 /\ l \in 1 .. L - 1 /\ n \in 1 .. Len(stack)
      BY <1>1
    <3>2. new[n].node = stack[n].node /\ new[l].node = stack[l].node
      BY <1>4, <3>1
    <3>3. Recorded(ToSet(sites), tu, SubSeq(Path(stack), 1, n - 1))
      <4>1. /\ stack[n].node.kind = "Call" /\ stack[n].node.children # <<>>
            /\ InspectCallee(stack[n].node.children[1]) = <<>>
            /\ KnownFunction(tu, stack[l].node) # {}
        BY <2>2, <3>2
      <4> QED
        BY <2>1, <3>1, <4>1 DEF CallsOf
    <3>4. SubSeq(Path(stack), 1, n - 1) = SubSeq(Path(new), 1, n - 1)
      <4>1. /\ Len(stack) \in Nat \ {0} /\ Len(new) \in Nat \ {0} /\ n \in 1 .. Len(stack) /\ n \in 1 .. Len(new)
            /\ \A j \in 1 .. n : j \in 1 .. L - 1
        BY <1>1, <3>1
      <4>2. \A j \in 1 .. n : stack[j].child = new[j].child
        BY <1>4, <4>1
      <4> HIDE DEF L
      <4> QED
        BY <4>1, <4>2, SamePath
    <3> QED
      BY <1>2, <3>3, <3>4
  <2>3. CallsOf(new, sites')
    BY <2>2 DEF CallsOf
  <2> QED
    BY <1>2, <1>6, <2>3, CallsInvNext DEF new
<1>12. ContextIsNearest' /\ CallerIsInnermost'
  <2>1. AllTakes' = AllTakes /\ AllSites' = AllSites
    BY <1>2 DEF AllTakes, AllSites
  <2>2. (\A t \in AllTakes : ContextOf(t)) /\ \A s \in AllSites : CallerOf(s)
    BY DEF IInv, ContextIsNearest, CallerIsInnermost
  <2>3. (\A t : ContextOf(t)' <=> ContextOf(t)) /\ \A s : CallerOf(s)' <=> CallerOf(s)
    BY <1>2, ContextNext, CallerNext
  <2> QED
    BY <2>1, <2>2, <2>3 DEF ContextIsNearest, CallerIsInnermost
<1>13. MergeInv'
  BY <1>2, MergeSame DEF IInv
<1> QED
  BY <1>7, <1>8, <1>9, <1>10, <1>11, <1>12, <1>13 DEF IInv

-----------------------------------------------------------------------------
(* The other steps                                                         *)

\* A step that leaves the walker alone.
LEMMA QuietStep ==
    ASSUME IInv, UNCHANGED <<program, answers, tu, walkVars, payloads>>,
           stage' \in {"walk", "symbols", "merge", "write", "serve"}, Indexing' => Indexing,
           StageInv', MergeInv'
    PROVE  IInv'
<1>1. /\ UNCHANGED <<program, answers, tu, stack, enclosing, takes, sites, payloads>>
      /\ WalkTypes /\ DOMAIN stack' = 1 .. Len(stack')
  <2>1. UNCHANGED <<program, answers, tu, stack, enclosing, takes, sites, payloads>> /\ WalkTypes
    BY DEF walkVars, IInv
  <2> QED
    BY <2>1, StackTypes
<1>2. WalkTypes'
  <2>1. /\ enclosing' \in answers \cup {NoFunction} /\ tu' \in Nat \ {0}
        /\ stack' \in Seq(ToSet(stack')) /\ \A r \in ToSet(stack') : IsFrame(r)
        /\ takes' \in Seq(ToSet(takes')) /\ sites' \in Seq(ToSet(sites')) /\ payloads' \in Seq(ToSet(payloads'))
    BY <1>1 DEF WalkTypes
  <2> QED
    BY <1>1, <2>1, TypesNext
<1>3. StackInv'
  BY <1>1 DEF StackInv, IInv
<1>4. EnclosingInv'
  BY <1>1, EnclosingInvNext DEF EnclosingInv, IInv
<1>5. CallsInv'
  BY <1>1, CallsInvNext DEF IInv
<1>6. VisitedInv'
  <2>1. Placed(takes)' /\ Placed(sites)'
    BY <1>1, PlacedIs DEF VisitedInv, IInv
  <2>2. ASSUME Indexing', NEW path \in Paths(program, tu), Visits(stack, path)
        PROVE  Accounts(path, takes, sites)
    BY <1>1, <2>2, VisitedIs, AccountedIs DEF VisitedInv, IInv
  <2>3. Indexing' => \A path \in Paths(program', tu') : Visited(path)' => AccountedFor(path)'
    BY <1>1, <2>2, VisitedIs, AccountedIs
  <2> QED
    BY <2>1, <2>3 DEF VisitedInv
<1>7. ContextIsNearest' /\ CallerIsInnermost'
  <2>1. AllTakes' = AllTakes /\ AllSites' = AllSites
    BY <1>1 DEF AllTakes, AllSites
  <2>2. (\A t \in AllTakes : ContextOf(t)) /\ \A s \in AllSites : CallerOf(s)
    BY DEF IInv, ContextIsNearest, CallerIsInnermost
  <2>3. (\A t : ContextOf(t)' <=> ContextOf(t)) /\ \A s : CallerOf(s)' <=> CallerOf(s)
    BY <1>1, ContextNext, CallerNext
  <2> QED
    BY <2>1, <2>2, <2>3 DEF ContextIsNearest, CallerIsInnermost
<1> QED
  BY <1>2, <1>3, <1>4, <1>5, <1>6, <1>7 DEF IInv

LEMMA WalkEndsStep ==
    ASSUME IInv, WalkEnds
    PROVE  IInv'
<1>1. /\ stage = "walk" /\ Len(stack) = 1 /\ Top.next > Len(Top.node.children)
      /\ stage' = "symbols" /\ symbols' = <<>> /\ edges' = {}
      /\ UNCHANGED <<program, answers, tu, walkVars, payloads, merged, agg, rows>>
  BY DEF WalkEnds, Walking
<1>2. stack' = stack /\ enclosing' = enclosing /\ takes' = takes /\ sites' = sites
  BY <1>1 DEF walkVars
<1>3. StageInv'
  <2>1. StageInv
    BY DEF IInv
  <2>2. Top' = Top
    BY <1>2 DEF Top
  <2> QED
    BY <1>1, <1>2, <2>1, <2>2 DEF StageInv, Indexing
<1>4. MergeInv'
  BY <1>1, MergeIs DEF MergeOf, IInv
<1>5. stage' \in {"walk", "symbols", "merge", "write", "serve"} /\ (Indexing' => Indexing)
  BY <1>1 DEF Indexing
<1> QED
  BY <1>1, <1>3, <1>4, <1>5, QuietStep

\* Two more sets of keys.
LEMMA SeenKeys ==
    ASSUME NEW known, NEW fs, NEW role
    PROVE  DOMAIN Seen(known, fs, role) = (DOMAIN known) \cup fs
BY DEF Seen, WithMore

LEMMA DocSymbolStep ==
    ASSUME IInv, DocSymbol \/ DocSymbolUnknown
    PROVE  IInv'
<1>1. /\ stage = "symbols" /\ stage' = stage
      /\ UNCHANGED <<program, answers, tu, walkVars, payloads, merged, agg, rows>>
  BY DEF DocSymbol, DocSymbolUnknown
<1>2. StageInv'
  <2>1. StageInv /\ stack' = stack /\ enclosing' = enclosing /\ takes' = takes /\ sites' = sites
    BY <1>1 DEF IInv, walkVars
  <2>2. Top' = Top
    BY <2>1 DEF Top
  <2> QED
    BY <1>1, <2>1, <2>2 DEF StageInv, Indexing
<1>3. edges' \subseteq (DOMAIN symbols') \X (DOMAIN symbols')
  <2>1. edges \subseteq (DOMAIN symbols) \X (DOMAIN symbols)
    BY DEF IInv, MergeInv
  <2>2. CASE DocSymbolUnknown
    BY <2>1, <2>2 DEF DocSymbolUnknown
  <2>3. CASE DocSymbol
    <3> DEFINE u == Docs[doc].usr
    <3>1. PICK callees : /\ symbols' = Seen(Seen(symbols, {u}, "definition"), callees, "callee")
                         /\ edges' = edges \cup {<<u, f>> : f \in callees}
      BY <2>3 DEF DocSymbol
    <3> HIDE DEF u
    <3>2. DOMAIN symbols' = ((DOMAIN symbols) \cup {u}) \cup callees
      <4> DEFINE first == Seen(symbols, {u}, "definition")
      <4>1. DOMAIN first = (DOMAIN symbols) \cup {u}
        BY SeenKeys
      <4>2. symbols' = Seen(first, callees, "callee")
        BY <3>1
      <4> HIDE DEF first
      <4>3. DOMAIN symbols' = (DOMAIN first) \cup callees
        BY <4>2, SeenKeys
      <4> QED
        BY <4>1, <4>3
    <3> QED
      BY <2>1, <3>1, <3>2
  <2> QED
    BY <2>2, <2>3
<1>4. MergeInv'
  BY <1>1, <1>3, MergeIs DEF MergeOf, IInv
<1>5. stage' \in {"walk", "symbols", "merge", "write", "serve"} /\ (Indexing' => Indexing)
  BY <1>1 DEF Indexing
<1> QED
  BY <1>1, <1>2, <1>4, <1>5, QuietStep

\* The payloads are the TUs', once all have been walked.
LEMMA PayloadPlaces ==
    ASSUME WalkTypes
    PROVE  /\ Len(payloads) \in Nat /\ DOMAIN payloads = 1 .. Len(payloads) /\ TUs = 1 .. Len(program)
           /\ \A k \in DOMAIN payloads : payloads[k] \in ToSet(payloads)
           /\ \A p \in ToSet(payloads) : \E k \in DOMAIN payloads : p = payloads[k]
<1>1. payloads \in Seq(ToSet(payloads)) /\ program \in Programs
  BY DEF WalkTypes
<1>2. Len(payloads) \in Nat /\ DOMAIN payloads = 1 .. Len(payloads)
  BY <1>1
<1>3. TUs = 1 .. Len(program)
  BY <1>1, ProgramFacts DEF TUs
<1> QED
  BY <1>2, <1>3 DEF ToSet

LEMMA AddPayloadStep ==
    ASSUME IInv, NEW k \in TUs, AddPayload(k)
    PROVE  IInv'
<1>1. /\ stage = "merge" /\ merged' = merged \cup {k} /\ agg' = Merged(agg, payloads[k])
      /\ stage' = IF merged' = TUs THEN "write" ELSE "merge"
      /\ UNCHANGED <<program, answers, tu, walkVars, symbols, edges, payloads, rows>>
  BY DEF AddPayload, symbolVars
<1>2. stage' \in {"merge", "write"}
  BY <1>1
<1>3. StageInv'
  <2>1. StageInv /\ stack' = stack /\ enclosing' = enclosing /\ takes' = takes /\ sites' = sites
    BY <1>1 DEF IInv, walkVars
  <2> QED
    BY <1>1, <1>2, <2>1 DEF StageInv, Indexing
<1>4. DOMAIN payloads = TUs
  <2>1. Len(payloads) = Len(program)
    BY <1>1 DEF IInv, StageInv, Indexing
  <2> QED
    BY <2>1, PayloadPlaces DEF IInv
<1>5. /\ DOMAIN agg'.symbols = (DOMAIN payloads[k].symbols) \cup DOMAIN agg.symbols
      /\ agg'.edges = agg.edges \cup payloads[k].edges
      /\ agg'.takes = agg.takes \cup ToSet(payloads[k].takes)
      /\ agg'.sites = agg.sites \cup ToSet(payloads[k].sites)
  BY <1>1 DEF Merged, WithMore
<1>6. MergeInv'
  <2>1. MergeOf(stage, symbols, edges, payloads, merged, agg, rows)
    BY MergeIs DEF IInv
  <2>2. /\ DOMAIN agg'.symbols = UNION {DOMAIN payloads[j].symbols : j \in merged \cup {k}}
        /\ agg'.edges = UNION {payloads[j].edges : j \in merged \cup {k}}
        /\ agg'.takes = UNION {ToSet(payloads[j].takes) : j \in merged \cup {k}}
        /\ agg'.sites = UNION {ToSet(payloads[j].sites) : j \in merged \cup {k}}
    <3>1. DOMAIN agg'.symbols = UNION {DOMAIN payloads[j].symbols : j \in merged \cup {k}}
      <4>1. DOMAIN agg.symbols = UNION {DOMAIN payloads[j].symbols : j \in merged}
        BY <2>1 DEF MergeOf
      <4> QED
        BY <1>5, <4>1
    <3>2. agg'.edges = UNION {payloads[j].edges : j \in merged \cup {k}}
      <4>1. agg.edges = UNION {payloads[j].edges : j \in merged}
        BY <2>1 DEF MergeOf
      <4> QED
        BY <1>5, <4>1
    <3>3. agg'.takes = UNION {ToSet(payloads[j].takes) : j \in merged \cup {k}}
      <4>1. agg.takes = UNION {ToSet(payloads[j].takes) : j \in merged}
        BY <2>1 DEF MergeOf
      <4> QED
        BY <1>5, <4>1
    <3>4. agg'.sites = UNION {ToSet(payloads[j].sites) : j \in merged \cup {k}}
      <4>1. agg.sites = UNION {ToSet(payloads[j].sites) : j \in merged}
        BY <2>1 DEF MergeOf
      <4> QED
        BY <1>5, <4>1
    <3> QED
      BY <3>1, <3>2, <3>3, <3>4
  <2>3. /\ merged' \subseteq DOMAIN payloads
        /\ stage' \in {"write", "serve"} => merged' = DOMAIN payloads
        /\ stage' \notin {"walk", "symbols", "serve"}
    BY <1>1, <1>2, <1>4, <2>1 DEF MergeOf
  <2>4. MergeOf(stage', symbols, edges, payloads, merged', agg', rows)
    BY <1>1, <2>1, <2>2, <2>3 DEF MergeOf
  <2> QED
    BY <1>1, <2>4, MergeIs
<1>7. stage' \in {"walk", "symbols", "merge", "write", "serve"} /\ (Indexing' => Indexing)
  BY <1>2 DEF Indexing
<1> QED
  BY <1>1, <1>3, <1>6, <1>7, QuietStep

LEMMA WriteStep ==
    ASSUME IInv, WriteIndexWithFacts
    PROVE  IInv'
<1>1. /\ stage = "write" /\ stage' = "serve"
      /\ rows' = [symbols |-> agg.symbols,
                  edges |-> {e \in agg.edges : e[1] \in DOMAIN agg.symbols /\ e[2] \in DOMAIN agg.symbols},
                  takes |-> {t \in agg.takes : t.function \in DOMAIN agg.symbols},
                  sites |-> {s \in agg.sites : s.caller \in DOMAIN agg.symbols}]
      /\ UNCHANGED <<program, answers, tu, walkVars, symbols, edges, payloads, merged, agg>>
  BY DEF WriteIndexWithFacts, symbolVars
<1>2. StageInv'
  <2>1. StageInv /\ stack' = stack /\ enclosing' = enclosing /\ takes' = takes /\ sites' = sites
    BY <1>1 DEF IInv, walkVars
  <2> QED
    BY <1>1, <2>1 DEF StageInv, Indexing
<1>3. MergeOf(stage, symbols, edges, payloads, merged, agg, rows)
  BY MergeIs DEF IInv
<1>4. agg.edges \subseteq (DOMAIN agg.symbols) \X (DOMAIN agg.symbols)
  <2>1. /\ merged \subseteq DOMAIN payloads
        /\ DOMAIN agg.symbols = UNION {DOMAIN payloads[k].symbols : k \in merged}
        /\ agg.edges = UNION {payloads[k].edges : k \in merged}
        /\ \A p \in ToSet(payloads) : p.edges \subseteq (DOMAIN p.symbols) \X (DOMAIN p.symbols)
    BY <1>3 DEF MergeOf
  <2>2. ASSUME NEW e \in agg.edges PROVE e \in (DOMAIN agg.symbols) \X (DOMAIN agg.symbols)
    <3>1. PICK k \in merged : e \in payloads[k].edges
      BY <2>1
    <3>2. payloads[k] \in ToSet(payloads)
      BY <2>1, PayloadPlaces DEF IInv
    <3>3. e \in (DOMAIN payloads[k].symbols) \X (DOMAIN payloads[k].symbols)
      BY <2>1, <3>1, <3>2
    <3>4. DOMAIN payloads[k].symbols \subseteq DOMAIN agg.symbols
      BY <2>1
    <3> QED
      BY <3>3, <3>4
  <2> QED
    BY <2>2
<1>5. rows'.edges = agg.edges
  <2>1. \A e \in agg.edges : e[1] \in DOMAIN agg.symbols /\ e[2] \in DOMAIN agg.symbols
    BY <1>4
  <2>2. rows'.edges = {e \in agg.edges : e[1] \in DOMAIN agg.symbols /\ e[2] \in DOMAIN agg.symbols}
    BY <1>1
  <2> QED
    BY <2>1, <2>2
<1>6. /\ rows'.takes = {t \in agg.takes : t.function \in DOMAIN agg.symbols}
      /\ rows'.sites = {s \in agg.sites : s.caller \in DOMAIN agg.symbols}
  BY <1>1
<1>7. MergeOf("serve", symbols, edges, payloads, merged, agg, rows')
  BY <1>1, <1>3, <1>5, <1>6 DEF MergeOf
<1>8. MergeInv'
  BY <1>1, <1>7, MergeIs
<1>9. stage' \in {"walk", "symbols", "merge", "write", "serve"} /\ (Indexing' => Indexing)
  BY <1>1 DEF Indexing
<1> QED
  BY <1>1, <1>2, <1>8, <1>9, QuietStep

\* A query, or nothing, changes nothing that matters.
LEMMA QueryStep ==
    ASSUME IInv, UNCHANGED <<program, answers, stage, tu, walkVars, symbolVars, payloads, merged, agg, rows>>
    PROVE  IInv'
<1>1. StageInv'
  <2>1. /\ StageInv /\ stack' = stack /\ enclosing' = enclosing /\ takes' = takes /\ sites' = sites
        /\ UNCHANGED <<program, stage, tu, payloads>>
    BY DEF IInv, walkVars
  <2>2. Top' = Top
    BY <2>1 DEF Top
  <2> QED
    BY <2>1, <2>2 DEF StageInv, Indexing
<1>2. MergeInv'
  BY MergeSame DEF IInv, symbolVars
<1>3. stage' \in {"walk", "symbols", "merge", "write", "serve"} /\ (Indexing' => Indexing)
  BY DEF Indexing, IInv, WalkTypes
<1> QED
  BY <1>1, <1>2, <1>3, QuietStep

\* The next TU, or the merge, after the payload of a TU.
LEMMA TUEndsStep ==
    ASSUME IInv, TUEnds
    PROVE  IInv'
<1> DEFINE p == [symbols |-> symbols, edges |-> edges, takes |-> takes, sites |-> sites]
<1>1. /\ stage = "symbols" /\ payloads' = Append(payloads, p) /\ tu' = tu + 1
      /\ stage' = IF tu = Len(program) THEN "merge" ELSE "walk"
      /\ symbols' = <<>> /\ edges' = {}
      /\ stack' = <<>> /\ enclosing' = NoFunction /\ takes' = <<>> /\ sites' = <<>>
      /\ UNCHANGED <<program, answers, merged, agg, rows>>
  BY DEF TUEnds, StartWalk
<1>2. /\ Len(payloads') = Len(payloads) + 1 /\ Len(payloads) = tu - 1 /\ tu \in 1 .. Len(program)
      /\ payloads' \in Seq(ToSet(payloads')) /\ ToSet(payloads') = ToSet(payloads) \cup {p}
      /\ DOMAIN payloads \subseteq DOMAIN payloads' /\ Len(program) \in Nat
  <2> HIDE DEF p
  <2>1. payloads \in Seq(ToSet(payloads)) /\ program \in Programs
    BY DEF IInv, WalkTypes
  <2>2. Len(payloads) = tu - 1 /\ tu \in 1 .. Len(program)
    BY <1>1 DEF IInv, StageInv, Indexing
  <2> QED
    BY <1>1, <2>1, <2>2, OneMore, ProgramFacts
<1>3. DOMAIN stack' = {} /\ ToSet(stack') = {} /\ Len(stack') = 0 /\ DOMAIN stack' = 1 .. Len(stack')
      /\ \A s \in {takes', sites', stack'} : s \in Seq(ToSet(s)) /\ ToSet(s) = {} /\ DOMAIN s = {}
  <2>1. ToSet(<<>>) = {} /\ <<>> \in Seq(ToSet(<<>>)) /\ DOMAIN <<>> = {} /\ Len(<<>>) = 0
    BY DEF ToSet
  <2> QED
    BY <1>1, <2>1
<1>4. WalkTypes'
  <2>1. /\ enclosing' \in answers \cup {NoFunction} /\ tu' \in Nat \ {0}
        /\ stage' \in {"walk", "symbols", "merge", "write", "serve"}
    BY <1>1, <1>2
  <2> QED
    BY <1>1, <1>2, <1>3, <2>1, TypesNext DEF IInv
<1>5. StageInv'
  <2>1. CASE tu = Len(program)
    BY <1>1, <1>2, <2>1 DEF StageInv, Indexing
  <2>2. CASE tu # Len(program)
    <3>1. tu + 1 \in 1 .. Len(program) /\ Len(payloads') = (tu + 1) - 1
      BY <1>2, <2>2
    <3> QED
      BY <1>1, <2>2, <3>1 DEF StageInv, Indexing
  <2> QED
    BY <2>1, <2>2
<1>6. StackInv' /\ CallsInv'
  BY <1>3 DEF StackInv, CallsInv
<1>7. EnclosingInv'
  <2>1. Encloses(stack, Len(stack), enclosing)'
    BY <1>1, <1>3 DEF Encloses
  <2> QED
    BY <1>3, <2>1 DEF EnclosingInv
<1>8. VisitedInv'
  BY <1>3 DEF VisitedInv, Placed, Once, Visited
<1>9. ContextIsNearest' /\ CallerIsInnermost'
  <2>1. AllTakes' = AllTakes /\ AllSites' = AllSites
    <3>1. p.takes = takes /\ p.sites = sites
      OBVIOUS
    <3> HIDE DEF p
    <3> QED
      BY <1>2, <1>3, <3>1 DEF AllTakes, AllSites
  <2>2. (\A t \in AllTakes : ContextOf(t)) /\ \A s \in AllSites : CallerOf(s)
    BY DEF IInv, ContextIsNearest, CallerIsInnermost
  <2>3. (\A t : ContextOf(t)' <=> ContextOf(t)) /\ \A s : CallerOf(s)' <=> CallerOf(s)
    BY <1>1, ContextNext, CallerNext
  <2> QED
    BY <2>1, <2>2, <2>3 DEF ContextIsNearest, CallerIsInnermost
<1>10. MergeInv'
  <2>1. MergeOf("symbols", symbols, edges, payloads, merged, agg, rows)
    BY <1>1, MergeIs DEF IInv
  <2>2. p.edges \subseteq (DOMAIN p.symbols) \X (DOMAIN p.symbols)
    BY <2>1 DEF MergeOf
  <2> HIDE DEF p
  <2>3. \A q \in ToSet(payloads') : q.edges \subseteq (DOMAIN q.symbols) \X (DOMAIN q.symbols)
    BY <1>2, <2>1, <2>2 DEF MergeOf
  <2>4. /\ merged = {} /\ DOMAIN agg.symbols = {} /\ agg.edges = {} /\ agg.takes = {} /\ agg.sites = {}
    BY <2>1 DEF MergeOf
  <2>5. stage' \notin {"symbols", "write", "serve"}
    BY <1>1
  <2>6. MergeOf(stage', <<>>, {}, payloads', {}, agg, rows)
    BY <2>3, <2>4, <2>5 DEF MergeOf
  <2> QED
    BY <1>1, <2>4, <2>6, MergeIs
<1> QED
  BY <1>4, <1>5, <1>6, <1>7, <1>8, <1>9, <1>10 DEF IInv

LEMMA Initially ==
    ASSUME Init
    PROVE  IInv
<1>1. /\ program \in Programs /\ answers \subseteq Functions /\ stage = "walk" /\ tu = 1
      /\ stack = <<>> /\ enclosing = NoFunction /\ takes = <<>> /\ sites = <<>>
      /\ symbols = <<>> /\ edges = {} /\ payloads = <<>> /\ merged = {} /\ agg = NoFacts /\ rows = NoFacts
  BY DEF Init
<1>2. ToSet(<<>>) = {} /\ <<>> \in Seq(ToSet(<<>>)) /\ DOMAIN <<>> = {} /\ Len(<<>>) = 0
  BY DEF ToSet
<1>3. Len(program) \in Nat \ {0}
  BY <1>1, ProgramFacts
<1>4. WalkTypes
  BY <1>1, <1>2 DEF WalkTypes
<1>5. StageInv
  BY <1>1, <1>2, <1>3 DEF StageInv, Indexing
<1>6. StackInv /\ CallsInv
  BY <1>1, <1>2 DEF StackInv, CallsInv
<1>7. EnclosingInv
  BY <1>1, <1>2 DEF EnclosingInv, Encloses
<1>8. VisitedInv
  BY <1>1, <1>2 DEF VisitedInv, Placed, Once, Visited
<1>9. ContextIsNearest /\ CallerIsInnermost
  <2>1. AllTakes = {} /\ AllSites = {}
    BY <1>1, <1>2 DEF AllTakes, AllSites
  <2> QED
    BY <2>1 DEF ContextIsNearest, CallerIsInnermost
<1>10. MergeInv
  <2>1. /\ agg.edges = {} /\ agg.takes = {} /\ agg.sites = {} /\ DOMAIN agg.symbols = {}
    BY <1>1, <1>2 DEF NoFacts
  <2>2. MergeOf("walk", <<>>, {}, <<>>, {}, agg, rows)
    BY <1>2, <2>1 DEF MergeOf
  <2> QED
    BY <1>1, <2>2, MergeIs
<1> QED
  BY <1>4, <1>5, <1>6, <1>7, <1>8, <1>9, <1>10 DEF IInv

-----------------------------------------------------------------------------
(* Theorems                                                                *)

\* The invariant of the walker, of what it has recorded and of the merge holds
\* throughout.
THEOREM Invariance == Spec => []IInv
<1>1. Init => IInv
  BY Initially
<1>2. IInv /\ [Next]_vars => IInv'
  <2> SUFFICES ASSUME IInv, [Next]_vars PROVE IInv'
    OBVIOUS
  <2>1. CASE VisitRoot \/ VisitChild
    BY <2>1, EnterStep
  <2>2. CASE Leave
    BY <2>2, LeaveStep
  <2>3. CASE WalkEnds
    BY <2>3, WalkEndsStep
  <2>4. CASE DocSymbol \/ DocSymbolUnknown
    BY <2>4, DocSymbolStep
  <2>5. CASE TUEnds
    BY <2>5, TUEndsStep
  <2>6. ASSUME NEW k \in TUs, AddPayload(k) PROVE IInv'
    BY <2>6, AddPayloadStep
  <2>7. CASE WriteIndexWithFacts
    BY <2>7, WriteStep
  <2>8. ASSUME NEW limit \in Limits, NEW site \in rows.sites, SQLQuery(site, limit) \/ FindAddressTakes(site, limit)
        PROVE  IInv'
    BY <2>8, QueryStep DEF SQLQuery, FindAddressTakes
  <2>9. CASE UNCHANGED vars
    BY <2>9, QueryStep DEF vars
  <2> QED
    BY <2>1, <2>2, <2>3, <2>4, <2>5, <2>6, <2>7, <2>8, <2>9 DEF Next
<1> QED
  BY <1>1, <1>2, PTL DEF Spec

\* What a take says of the call or the assignment it is in is said of the
\* nearest one, in every program.
THEOREM ContextIsNearestAlways == Spec => []ContextIsNearest
<1>1. IInv => ContextIsNearest
  BY DEF IInv
<1> QED
  BY <1>1, Invariance, PTL

\* An indirect call is attributed to the innermost function around it that
\* clangd knows, in every program.
THEOREM CallerIsInnermostAlways == Spec => []CallerIsInnermost
<1>1. IInv => CallerIsInnermost
  BY DEF IInv
<1> QED
  BY <1>1, Invariance, PTL

\* Every reference to a function is accounted for, and none twice, at the end
\* of every walk.
THEOREM NoReferenceLostAlways == Spec => []NoReferenceLost
<1>1. ASSUME IInv, stage = "symbols"
      PROVE  Once(takes) /\ Once(sites) /\ \A path \in Paths(program, tu) : AccountedFor(path)
  <2>1. /\ WalkTypes /\ StackInv /\ Once(takes) /\ Once(sites) /\ Indexing
        /\ Len(stack) = 1 /\ Top.next > Len(Top.node.children)
    BY <1>1 DEF IInv, VisitedInv, Placed, StageInv, Indexing
  <2>2. stack # <<>> /\ Top = stack[1]
    BY <2>1, StackTypes
  <2>3. Descends(stack)
    BY <2>1, <2>2, StackDescends
  <2>4. ASSUME NEW path \in Paths(program, tu) PROVE Visits(stack, path)
    <3>1. InTree(program, tu, path) /\ Len(path) \in Nat /\ path \in Seq(Nat)
      BY PathsAreInTree, InTreePositive
    <3>2. Len(path) = 0 \/ path[1] < stack[1].next
      <4> SUFFICES ASSUME Len(path) # 0 PROVE path[1] < stack[1].next
        OBVIOUS
      <4>1. 1 \in 1 .. Len(path) /\ 1 - 1 = 0
        BY <3>1
      <4>2. path[1] \in 1 .. Len(NodesOn(program, tu, path)[0].children)
        BY <3>1, <4>1 DEF InTree
      <4>3. NodesOn(program, tu, path)[0] = stack[1].node
        <5>1. NodesOn(program, tu, path)[0] = program[tu].ast
          BY <3>1, NodesOnStep
        <5> QED
          BY <2>3, <5>1 DEF Descends
      <4>4. Len(stack[1].node.children) \in Nat /\ stack[1].next \in Nat
        <5>1. stack[1].node \in Nodes /\ stack[1].next \in Nat
          BY <2>1, <2>3 DEF Descends
        <5> QED
          BY <5>1, NodeFacts
      <4> QED
        BY <2>1, <2>2, <4>2, <4>3, <4>4
    <3> QED
      BY <2>1, <3>1, <3>2 DEF Visits
  <2>5. \A path \in Paths(program, tu) : AccountedFor(path)
    BY <1>1, <2>1, <2>4, VisitedIs DEF IInv, VisitedInv
  <2> QED
    BY <2>1, <2>5
<1>2. IInv => NoReferenceLost
  BY <1>1 DEF NoReferenceLost
<1> QED
  BY <1>2, Invariance, PTL

\* Every edge and every fact about a function that is a symbol of some TU is in
\* the database, whatever the order of merging.
THEOREM FactsMeetSymbolsAlways == Spec => []FactsMeetSymbols
<1>1. ASSUME IInv, Serving
      PROVE  /\ rows.edges = UNION {p.edges : p \in ToSet(payloads)}
             /\ \A p \in ToSet(payloads) :
                   LET ids == UNION {DOMAIN q.symbols : q \in ToSet(payloads)}
                   IN /\ {t \in ToSet(p.takes) : t.function \in ids} \subseteq rows.takes
                      /\ {s \in ToSet(p.sites) : s.caller \in ids} \subseteq rows.sites
  <2> DEFINE ids == UNION {DOMAIN q.symbols : q \in ToSet(payloads)}
  <2>1. /\ DOMAIN agg.symbols = UNION {DOMAIN payloads[k].symbols : k \in DOMAIN payloads}
        /\ agg.edges = UNION {payloads[k].edges : k \in DOMAIN payloads}
        /\ agg.takes = UNION {ToSet(payloads[k].takes) : k \in DOMAIN payloads}
        /\ agg.sites = UNION {ToSet(payloads[k].sites) : k \in DOMAIN payloads}
        /\ rows.edges = agg.edges
        /\ rows.takes = {t \in agg.takes : t.function \in DOMAIN agg.symbols}
        /\ rows.sites = {s \in agg.sites : s.caller \in DOMAIN agg.symbols}
    BY <1>1 DEF IInv, MergeInv, Serving
  <2>2. \A p : p \in ToSet(payloads) <=> \E k \in DOMAIN payloads : p = payloads[k]
    BY <1>1, PayloadPlaces DEF IInv
  <2>3. DOMAIN agg.symbols = ids
    BY <2>1, <2>2
  <2>4. rows.edges = UNION {p.edges : p \in ToSet(payloads)}
    BY <2>1, <2>2
  <2> HIDE DEF ids
  <2>5. ASSUME NEW p \in ToSet(payloads)
        PROVE  /\ {t \in ToSet(p.takes) : t.function \in ids} \subseteq rows.takes
               /\ {s \in ToSet(p.sites) : s.caller \in ids} \subseteq rows.sites
    <3>1. PICK k \in DOMAIN payloads : p = payloads[k]
      BY <2>2
    <3>2. ToSet(p.takes) \subseteq agg.takes /\ ToSet(p.sites) \subseteq agg.sites
      BY <2>1, <3>1
    <3> QED
      BY <2>1, <2>3, <3>2
  <2> QED
    BY <2>4, <2>5 DEF ids
<1>2. IInv => FactsMeetSymbols
  BY <1>1 DEF FactsMeetSymbols
<1> QED
  BY <1>2, Invariance, PTL

-----------------------------------------------------------------------------
(* The join                                                                *)

\* Every path in the tree of a TU is among its paths.
LEMMA TreeIsInPaths ==
    ASSUME NEW p \in Programs, NEW k \in DOMAIN p, NEW path, InTree(p, k, path)
    PROVE  path \in Paths(p, k)
<1> DEFINE N == Len(path)
           upTo(n) == SubSeq(path, 1, n)
           T == {n \in 0 .. N : upTo(n) \in Paths(p, k)}
<1>1. path \in Seq(Nat) /\ N \in Nat
  BY DEF InTree
<1>2. ASSUME NEW n \in 0 .. N
      PROVE  upTo(n) \in Seq(Nat) /\ Len(upTo(n)) = n /\ \A j \in 1 .. n : upTo(n)[j] = path[j]
  <2>1. 1 \in 1 .. N + 1 /\ n \in 1 - 1 .. N /\ n - 1 + 1 = n
    BY <1>1
  <2>2. /\ upTo(n) \in Seq(Nat) /\ Len(upTo(n)) = n - 1 + 1
        /\ \A j \in 1 .. n - 1 + 1 : upTo(n)[j] = path[1 + j - 1]
    BY <1>1, <2>1, SubSeqProperties
  <2>3. \A j \in 1 .. n : 1 + j - 1 = j
    BY <1>1
  <2> QED
    BY <2>1, <2>2, <2>3
<1>3. upTo(0) = <<>> /\ upTo(N) = path
  <2>1. upTo(0) \in Seq(Nat) /\ Len(upTo(0)) = 0
    BY <1>1, <1>2
  <2>2. upTo(N) \in Seq(Nat) /\ Len(upTo(N)) = N /\ \A j \in 1 .. N : upTo(N)[j] = path[j]
    BY <1>1, <1>2
  <2>3. \A s, t \in Seq(Nat) : Len(s) = Len(t) /\ (\A j \in 1 .. Len(t) : s[j] = t[j]) => s = t
    OBVIOUS
  <2>4. <<>> \in Seq(Nat) /\ Len(<<>>) = 0
    OBVIOUS
  <2> HIDE DEF upTo
  <2>5. upTo(N) = path
    BY <1>1, <2>2, <2>3
  <2>6. upTo(0) = <<>>
    BY <2>1
  <2> QED
    BY <2>5, <2>6
<1>4. 0 \in T
  <2> HIDE DEF upTo
  <2> QED
    BY <1>1, <1>3, PathsGoOn
<1>5. ASSUME NEW n \in 0 .. N - 1, n \in T PROVE n + 1 \in T
  <2>1. n \in 0 .. N /\ n + 1 \in 0 .. N /\ n + 1 \in 1 .. N /\ (n + 1) - 1 = n
    BY <1>1
  <2>2. NodeAt(p, k, upTo(n)) = NodesOn(p, k, path)[n]
    <3> DEFINE other == upTo(n)
    <3>1. Len(other) = n /\ n \in Nat /\ n <= Len(path) /\ n <= Len(other) /\ Len(path) \in Nat
          /\ \A j \in 1 .. n : other[j] = path[j]
      BY <1>1, <1>2, <2>1
    <3> HIDE DEF other, N
    <3>2. \A m \in 0 .. n : NodesOn(p, k, other)[m] = NodesOn(p, k, path)[m]
      BY <3>1, SamePrefix
    <3> QED
      BY <3>1, <3>2 DEF NodeAt, other
  <2>3. path[n + 1] \in 1 .. Len(NodeAt(p, k, upTo(n)).children)
    BY <2>1, <2>2 DEF InTree
  <2>4. Append(upTo(n), path[n + 1]) \in Paths(p, k)
    <3>1. upTo(n) \in Paths(p, k)
      BY <1>5
    <3> HIDE DEF upTo
    <3> QED
      BY <2>3, <3>1, PathsGoOn
  <2>5. upTo(n + 1) = Append(upTo(n), path[n + 1])
    <3>1. /\ upTo(n) \in Seq(Nat) /\ Len(upTo(n)) = n /\ \A j \in 1 .. n : upTo(n)[j] = path[j]
          /\ upTo(n + 1) \in Seq(Nat) /\ Len(upTo(n + 1)) = n + 1
          /\ \A j \in 1 .. n + 1 : upTo(n + 1)[j] = path[j]
      BY <1>2, <2>1
    <3>2. path[n + 1] \in Nat /\ n \in Nat
      BY <1>1, <2>1
    <3> HIDE DEF upTo
    <3> QED
      BY <3>1, <3>2
  <2> QED
    BY <2>1, <2>4, <2>5
<1>6. 0 .. N \subseteq T
  <2> HIDE DEF T
  <2> QED
    BY <1>1, <1>4, <1>5, InductionUpTo
<1>7. upTo(N) \in Paths(p, k)
  <2> HIDE DEF upTo
  <2> QED
    BY <1>1, <1>6
<1> QED
  <2> HIDE DEF upTo
  <2> QED
    BY <1>3, <1>7

\* A stack that goes down is a path, and leads to the node on top.
LEMMA StackIsPath ==
    ASSUME program \in Programs, tu \in DOMAIN program, NEW frames, Descends(frames)
    PROVE  /\ Path(frames) \in Paths(program, tu)
           /\ NodeAt(program, tu, Path(frames)) = frames[Len(frames)].node
<1> DEFINE path == Path(frames)
           L == Len(frames)
<1>1. /\ L \in Nat \ {0} /\ Len(path) = L - 1 /\ path \in Seq(Nat)
      /\ \A n \in 1 .. L - 1 : path[n] = frames[n + 1].child
      /\ \A n \in 0 .. L - 1 : NodesOn(program, tu, path)[n] = frames[n + 1].node
  BY PathNodes DEF Descends
<1> HIDE DEF path
<1>2. ASSUME NEW n \in 1 .. L - 1
      PROVE  path[n] \in 1 .. Len(NodesOn(program, tu, path)[n - 1].children)
  <2>1. n + 1 \in 2 .. L /\ (n + 1) - 1 = n /\ n \in 1 .. L /\ n - 1 \in 0 .. L - 1 /\ (n - 1) + 1 = n
    BY <1>1
  <2>2. /\ path[n] = frames[n].next /\ frames[n].next <= Len(frames[n].node.children)
        /\ frames[n].next \in Nat \ {0} /\ frames[n].node \in Nodes
    BY <1>1, <2>1 DEF Descends
  <2>3. NodesOn(program, tu, path)[n - 1] = frames[n].node
    BY <1>1, <2>1
  <2>4. Len(frames[n].node.children) \in Nat
    BY <2>2, NodeFacts
  <2> QED
    BY <2>2, <2>3, <2>4
<1>3. InTree(program, tu, path)
  BY <1>1, <1>2 DEF InTree
<1>4. path \in Paths(program, tu)
  BY <1>3, TreeIsInPaths
<1>5. NodeAt(program, tu, path) = frames[L].node
  <2>1. L - 1 \in 0 .. L - 1 /\ (L - 1) + 1 = L
    BY <1>1
  <2> QED
    BY <1>1, <2>1 DEF NodeAt
<1> QED
  BY <1>4, <1>5 DEF path

\* The node a path leads to, and its first child.
LEMMA FirstChild ==
    ASSUME NEW p, NEW k, NEW path \in Paths(p, k)
    PROVE  NodeAt(p, k, Append(path, 1)) = NodeAt(p, k, path).children[1]
<1> DEFINE L == Len(path)
           longer == Append(path, 1)
<1>1. path \in Seq(Nat) /\ L \in Nat
  BY PathsAreInTree DEF InTree
<1>2. Len(longer) = L + 1 /\ longer[L + 1] = 1 /\ \A j \in 1 .. L : path[j] = longer[j]
  BY <1>1
<1> HIDE DEF longer
<1>3. NodesOn(p, k, longer)[L + 1] = NodesOn(p, k, longer)[L].children[1]
  <2>1. L + 1 \in 1 .. Len(longer) /\ (L + 1) - 1 = L /\ Len(longer) \in Nat
    BY <1>1, <1>2
  <2> QED
    BY <1>2, <2>1, NodesOnStep
<1>4. NodesOn(p, k, path)[L] = NodesOn(p, k, longer)[L]
  <2>1. L <= Len(path) /\ L <= Len(longer) /\ Len(longer) \in Nat /\ Len(path) \in Nat
    BY <1>1, <1>2
  <2>2. \A n \in 0 .. L : NodesOn(p, k, path)[n] = NodesOn(p, k, longer)[n]
    <3> HIDE DEF L
    <3> QED
      BY <1>1, <1>2, <2>1, SamePrefix
  <2> QED
    BY <1>1, <2>2
<1> QED
  BY <1>2, <1>3, <1>4 DEF NodeAt, longer

\* A typedef of a TU is among those that are shared.
LEMMA TypedefIsShared ==
    ASSUME NEW p, NEW k \in DOMAIN p, NEW node \in NodesIn(p, k), node.kind = "Typedef", node.type # <<>>
    PROVE  node.detail \in DOMAIN SharedTypedefs(p)
<1> DEFINE found == [j \in DOMAIN p |-> TypedefsOf(p, j)]
           names == [j \in DOMAIN p |-> {n.detail : n \in found[j]}]
           first(name) == Min({j \in DOMAIN p : name \in names[j]})
           own == [name \in UNION {names[j] : j \in DOMAIN p} |->
                      (CHOOSE n \in found[first(name)] : n.detail = name).type]
<1>1. SharedTypedefs(p) = WithMore(own, HeaderTypedefs)
  BY DEF SharedTypedefs
<1>2. node.detail \in names[k]
  BY DEF TypedefsOf
<1>3. node.detail \in DOMAIN own
  <2> HIDE DEF names, found
  <2> QED
    BY <1>2
<1> HIDE DEF own
<1> QED
  BY <1>1, <1>3 DEF WithMore

LEMMA TypedNext ==
    ASSUME program' = program
    PROVE  (\A t : TakenAs(t)' <=> TakenAs(t)) /\ \A s : CalledAs(s)' <=> CalledAs(s)
BY DEF TakenAs, CalledAs, TUs

\* The facts of a sequence are finitely many.
LEMMA FinitelyMany ==
    ASSUME NEW s, s \in Seq(ToSet(s))
    PROVE  IsFiniteSet(ToSet(s))
<1>1. Len(s) \in Nat /\ DOMAIN s = 1 .. Len(s) /\ s \in [1 .. Len(s) -> ToSet(s)]
  OBVIOUS
<1>2. ToSet(s) = {s[i] : i \in 1 .. Len(s)}
  BY <1>1 DEF ToSet
<1>3. s \in Surjection(1 .. Len(s), ToSet(s))
  BY <1>1, <1>2 DEF Surjection
<1>4. IsFiniteSet(1 .. Len(s))
  BY <1>1, FS_Interval
<1> QED
  BY <1>3, <1>4, FS_Surjection

LEMMA EnterTyped ==
    ASSUME IInv, TypesInv, VisitRoot \/ VisitChild
    PROVE  TypesInv'
<1>1. WalkTypes /\ StageInv /\ StackInv
  BY DEF IInv
<1>2. PICK node \in Nodes, i \in Nat : Entering(node, i)
  BY <1>1, Enters
<1>3. /\ UNCHANGED <<program, stage, tu, payloads>> /\ stage = "walk" /\ Indexing' /\ Indexing
      /\ program \in Programs /\ tu \in TUs /\ tu \in DOMAIN program
      /\ takes \in Seq(ToSet(takes)) /\ sites \in Seq(ToSet(sites))
  <2>1. UNCHANGED <<program, stage, tu, payloads>> /\ stage = "walk"
    BY <1>1, <1>2, Entered
  <2>2. tu \in 1 .. Len(program) /\ program \in Programs
    BY <1>1, <2>1 DEF StageInv, Indexing, WalkTypes
  <2> QED
    BY <1>1, <2>1, <2>2, ProgramFacts DEF TUs, WalkTypes, Indexing
<1> DEFINE path == Path(stack')
           types == SharedTypedefs(program)
<1>4. path \in Paths(program, tu) /\ NodeAt(program, tu, path) = node
  <2>1. Descends(stack')
    BY <1>1, <1>2, DescendsFurther
  <2>2. stack'[Len(stack')].node = node
    <3>1. Visit(node, i)
      BY <1>2 DEF Entering
    <3> QED
      BY <1>1, <3>1, Grows
  <2> QED
    BY <1>3, <2>1, <2>2, StackIsPath
<1> HIDE DEF path
<1>5. typedefs' = types
  <2>1. typedefs = types
    BY <1>3 DEF TypesInv
  <2>2. node \in NodesIn(program, tu)
    BY <1>4 DEF NodesIn
  <2>3. node.kind = "Typedef" /\ node.type # <<>> => node.detail \in DOMAIN typedefs
    BY <1>3, <2>1, <2>2, TypedefIsShared
  <2>4. \/ typedefs' = typedefs
        \/ node.kind = "Typedef" /\ node.type # <<>> /\ node.detail \notin DOMAIN typedefs
    BY <1>1, <1>2, Entered
  <2> QED
    BY <2>1, <2>3, <2>4
<1>6. \A t \in ToSet(takes') : t \in ToSet(takes) \/ TakenAs(t)
  <2>1. CASE takes' = takes
    BY <2>1
  <2>2. CASE takes' # takes
    <3>1. /\ ReferencesFunction(node)
          /\ \E t : /\ takes' = Append(takes, t) /\ t.at = <<tu, path>>
                    /\ t.type \in CanonicalTypes(NormalizeFnPtrType(node.type), typedefs')
      BY <1>1, <1>2, <2>2, Entered DEF path
    <3>2. PICK t : /\ takes' = Append(takes, t) /\ t.at = <<tu, path>>
                   /\ t.type \in CanonicalTypes(NormalizeFnPtrType(node.type), types)
      BY <1>5, <3>1
    <3>3. TakenAs(t)
      BY <1>3, <1>4, <3>1, <3>2 DEF TakenAs
    <3>4. ToSet(takes') = ToSet(takes) \cup {t}
      BY <1>3, <3>2, OneMore
    <3> QED
      BY <3>3, <3>4
  <2> QED
    BY <2>1, <2>2
<1>7. \A s \in ToSet(sites') : s \in ToSet(sites) \/ CalledAs(s)
  <2>1. CASE sites' = sites
    BY <2>1
  <2>2. CASE sites' # sites
    <3>1. /\ node.kind = "Call" /\ node.children # <<>> /\ InspectCallee(node.children[1]) = <<>>
          /\ \E s : /\ sites' = Append(sites, s) /\ s.at = <<tu, path>>
                    /\ s.type \in CanonicalTypes(node.children[1].type, typedefs')
      BY <1>1, <1>2, <2>2, Entered DEF path
    <3>2. PICK s : /\ sites' = Append(sites, s) /\ s.at = <<tu, path>>
                   /\ s.type \in CanonicalTypes(node.children[1].type, types)
      BY <1>5, <3>1
    <3>3. CalledAs(s)
      BY <1>3, <1>4, <3>1, <3>2 DEF CalledAs
    <3>4. ToSet(sites') = ToSet(sites) \cup {s}
      BY <1>3, <3>2, OneMore
    <3> QED
      BY <3>3, <3>4
  <2> QED
    BY <2>1, <2>2
<1>8. (\A t \in AllTakes' : TakenAs(t)) /\ \A s \in AllSites' : CalledAs(s)
  <2>1. (\A t \in AllTakes : TakenAs(t)) /\ \A s \in AllSites : CalledAs(s)
    BY DEF TypesInv
  <2> QED
    BY <1>3, <1>6, <1>7, <2>1 DEF AllTakes, AllSites
<1>9. (\A t \in AllTakes' : TakenAs(t)') /\ \A s \in AllSites' : CalledAs(s)'
  BY <1>3, <1>8, TypedNext
<1>10. typedefs' = SharedTypedefs(program')
  BY <1>3, <1>5
<1> QED
  BY <1>3, <1>9, <1>10 DEF TypesInv

\* Steps that leave what the walker has found alone.
LEMMA QuietTyped ==
    ASSUME TypesInv, UNCHANGED <<program, typedefs, takes, sites, payloads>>, Indexing' => Indexing
    PROVE  TypesInv'
<1>1. AllTakes' = AllTakes /\ AllSites' = AllSites
  BY DEF AllTakes, AllSites
<1>2. (\A t \in AllTakes' : TakenAs(t)') /\ \A s \in AllSites' : CalledAs(s)'
  <2>1. (\A t \in AllTakes : TakenAs(t)) /\ \A s \in AllSites : CalledAs(s)
    BY DEF TypesInv
  <2> QED
    BY <1>1, <2>1, TypedNext
<1>3. Indexing' => typedefs' = SharedTypedefs(program')
  BY DEF TypesInv
<1>4. \A p \in ToSet(payloads') : IsFiniteSet(ToSet(p.takes))
  BY DEF TypesInv
<1> QED
  BY <1>2, <1>3, <1>4 DEF TypesInv

LEMMA TUEndsTyped ==
    ASSUME IInv, TypesInv, TUEnds
    PROVE  TypesInv'
<1> DEFINE p == [symbols |-> symbols, edges |-> edges, takes |-> takes, sites |-> sites]
<1>1. /\ payloads' = Append(payloads, p) /\ program' = program
      /\ takes' = <<>> /\ sites' = <<>> /\ typedefs' = SharedTypedefs(program)
  BY DEF TUEnds, StartWalk
<1>2. p.takes = takes /\ p.sites = sites
  OBVIOUS
<1> HIDE DEF p
<1>3. takes \in Seq(ToSet(takes)) /\ payloads \in Seq(ToSet(payloads))
  BY DEF IInv, WalkTypes
<1>4. ToSet(payloads') = ToSet(payloads) \cup {p} /\ ToSet(<<>>) = {}
  BY <1>1, <1>3, OneMore DEF ToSet
<1>5. AllTakes' = AllTakes /\ AllSites' = AllSites
  BY <1>1, <1>2, <1>4 DEF AllTakes, AllSites
<1>6. \A q \in ToSet(payloads') : IsFiniteSet(ToSet(q.takes))
  BY <1>2, <1>3, <1>4, FinitelyMany DEF TypesInv
<1>7. (\A t \in AllTakes' : TakenAs(t)') /\ \A s \in AllSites' : CalledAs(s)'
  <2>1. (\A t \in AllTakes : TakenAs(t)) /\ \A s \in AllSites : CalledAs(s)
    BY DEF TypesInv
  <2> QED
    BY <1>1, <1>5, <2>1, TypedNext
<1>8. typedefs' = SharedTypedefs(program')
  BY <1>1
<1> QED
  BY <1>6, <1>7, <1>8 DEF TypesInv

\* Cutting off nothing leaves all.
LEMMA CutIsWhole ==
    ASSUME NEW found, IsFiniteSet(found), NEW max \in Nat, NEW r \in Cut(max, found),
           Cardinality(r) # max \/ Cardinality(found) <= max
    PROVE  r = found
<1>1. Cardinality(found) \in Nat
  BY FS_CardinalityType
<1>2. \A m, n \in Nat : Min({m, n}) = IF m <= n THEN m ELSE n
  <2> TAKE m, n \in Nat
  <2>1. \E x \in {m, n} : \A y \in {m, n} : x <= y
    OBVIOUS
  <2>2. Min({m, n}) \in {m, n} /\ \A y \in {m, n} : Min({m, n}) <= y
    BY <2>1 DEF Min
  <2> QED
    BY <2>2
<1>3. r \in SUBSET found /\ Cardinality(r) = Min({max, Cardinality(found)})
  BY DEF Cut
<1>4. Cardinality(r) = Cardinality(found)
  BY <1>1, <1>2, <1>3
<1> QED
  BY <1>3, <1>4, FS_Subset

\* What is stored has come from the walks.
LEMMA RowsAreFacts ==
    ASSUME IInv, TypesInv, Serving
    PROVE  rows.takes \subseteq AllTakes /\ rows.sites \subseteq AllSites /\ IsFiniteSet(rows.takes)
<1>1. /\ agg.takes = UNION {ToSet(payloads[k].takes) : k \in DOMAIN payloads}
      /\ agg.sites = UNION {ToSet(payloads[k].sites) : k \in DOMAIN payloads}
      /\ rows.takes \subseteq agg.takes /\ rows.sites \subseteq agg.sites
  BY DEF IInv, MergeInv, Serving
<1>2. /\ \A k \in DOMAIN payloads : payloads[k] \in ToSet(payloads)
      /\ DOMAIN payloads = 1 .. Len(payloads) /\ Len(payloads) \in Nat /\ payloads \in Seq(ToSet(payloads))
  BY PayloadPlaces DEF IInv, WalkTypes
<1>3. rows.takes \subseteq AllTakes /\ rows.sites \subseteq AllSites
  BY <1>1, <1>2 DEF AllTakes, AllSites
<1>4. IsFiniteSet(agg.takes)
  <2> DEFINE T == {ToSet(payloads[k].takes) : k \in DOMAIN payloads}
             takesOf == [k \in DOMAIN payloads |-> ToSet(payloads[k].takes)]
  <2>1. takesOf \in Surjection(DOMAIN payloads, T)
    BY DEF Surjection
  <2>2. IsFiniteSet(DOMAIN payloads)
    BY <1>2, FS_Interval
  <2>3. IsFiniteSet(T)
    <3> HIDE DEF T, takesOf
    <3> QED
      BY <2>1, <2>2, FS_Surjection
  <2>4. \A S \in T : IsFiniteSet(S)
    BY <1>2 DEF TypesInv
  <2>5. IsFiniteSet(UNION T)
    <3> HIDE DEF T
    <3> QED
      BY <2>3, <2>4, FS_UNION
  <2> QED
    BY <1>1, <2>5
<1> QED
  BY <1>1, <1>3, <1>4, FS_Subset

LEMMA QueryAnswers ==
    ASSUME IInv, TypesInv, NEW limit \in Limits, NEW site \in rows.sites,
           SQLQuery(site, limit) \/ FindAddressTakes(site, limit)
    PROVE  AnswerInv'
<1> DEFINE found == CandidatesOf(site)
<1>1. /\ Serving /\ Serving' /\ rows' = rows
      /\ answer'.site = site
  BY DEF Serving, SQLQuery, FindAddressTakes
<1>2. IsFiniteSet(found)
  BY <1>1, RowsAreFacts, FS_Subset DEF CandidatesOf
<1>3. Effective(limit) \in Nat /\ limit \in Nat /\ ListRows \in Nat
  <2>1. DefaultRows \in Nat /\ MaxRows \in Nat /\ ListRows \in Nat /\ limit \in Nat
    BY RowsAssumption DEF Limits
  <2>2. Min({limit, MaxRows}) \in {limit, MaxRows}
    <3>1. \E x \in {limit, MaxRows} : \A y \in {limit, MaxRows} : x <= y
      BY <2>1
    <3> QED
      BY <3>1 DEF Min
  <2> QED
    BY <2>1, <2>2 DEF Effective
<1> HIDE DEF found
<1>4. TakenForComplete' => answer'.rows = found
  <2>1. CASE SQLQuery(site, limit)
    <3>1. PICK r \in Cut(Effective(limit), found) :
             /\ answer'.rows = r /\ answer'.tool = "sql_query"
             /\ ~answer'.truncated => ~(Cardinality(found) > Effective(limit))
      <4>1. PICK r \in Cut(Effective(limit), found) :
               LET some == [rows |-> r, truncated |-> Cardinality(found) > Effective(limit)]
               IN answer' = [tool |-> "sql_query", site |-> site, rows |-> some.rows, truncated |-> some.truncated]
        BY <2>1 DEF SQLQuery, Limited, found
      <4> DEFINE more == Cardinality(found) > Effective(limit)
      <4>2. answer'.rows = r /\ answer'.truncated = more /\ answer'.tool = "sql_query"
        BY <4>1
      <4>3. ~answer'.truncated => ~more
        <5> HIDE DEF more
        <5> QED
          BY <4>2
      <4> QED
        BY <4>2, <4>3
    <3>2. Cardinality(found) \in Nat
      BY <1>2, FS_CardinalityType
    <3> DEFINE max == Effective(limit)
    <3>3. max \in Nat /\ (~answer'.truncated => Cardinality(found) <= max)
      <4>1. ~(Cardinality(found) > max) => Cardinality(found) <= max
        BY <1>3, <3>2
      <4> QED
        BY <1>3, <3>1, <4>1
    <3>4. r \in Cut(max, found) /\ (TakenForComplete' => ~answer'.truncated)
      BY <3>1 DEF TakenForComplete
    <3> HIDE DEF max
    <3> QED
      BY <1>2, <3>1, <3>3, <3>4, CutIsWhole
  <2>2. CASE FindAddressTakes(site, limit)
    <3> DEFINE max == IF limit = 0 THEN ListRows ELSE limit
    <3>1. PICK r \in Cut(max, found) :
             answer' = [tool |-> "find_address_takes", site |-> site, rows |-> r, limit |-> max]
      BY <2>2 DEF FindAddressTakes, found
    <3>2. max \in Nat
      BY <1>3
    <3> HIDE DEF max
    <3>3. answer'.tool = "find_address_takes" /\ answer'.rows = r /\ answer'.limit = max
      BY <3>1
    <3>4. TakenForComplete' => Cardinality(r) < max
      BY <3>3 DEF TakenForComplete
    <3>5. Cardinality(r) \in Nat
      <4>1. r \in SUBSET found
        BY DEF Cut
      <4> QED
        BY <1>2, <4>1, FS_Subset, FS_CardinalityType
    <3>6. TakenForComplete' => Cardinality(r) # max
      BY <3>2, <3>4, <3>5
    <3> QED
      BY <1>2, <3>2, <3>3, <3>6, CutIsWhole
  <2> QED
    BY <2>1, <2>2
<1>5. CandidatesOf(site)' = CandidatesOf(site)
  BY <1>1 DEF CandidatesOf
<1>6. CandidatesOf(answer.site)' = found
  BY <1>1, <1>5 DEF CandidatesOf, found
<1> QED
  BY <1>1, <1>4, <1>6 DEF AnswerInv

\* The invariant of the join holds throughout: every type recorded is the
\* canonical form of its node's under the typedefs all TUs share, and an answer
\* that a client may take for complete has every candidate.
THEOREM JoinInvariance == Spec => []JoinInv
<1>1. Init => JoinInv
  <2> SUFFICES ASSUME Init PROVE JoinInv
    OBVIOUS
  <2>1. /\ typedefs = SharedTypedefs(program) /\ takes = <<>> /\ sites = <<>> /\ payloads = <<>>
        /\ ~Serving /\ answer = NoAnswer
    BY DEF Init, Serving
  <2>2. ToSet(<<>>) = {}
    BY DEF ToSet
  <2>3. TypesInv
    BY <2>1, <2>2 DEF TypesInv, AllTakes, AllSites
  <2> QED
    BY <2>1, <2>3 DEF JoinInv, AnswerInv, TakenForComplete, NoAnswer
<1>2. IInv /\ JoinInv /\ [Next]_vars => JoinInv'
  <2> SUFFICES ASSUME IInv, JoinInv, [Next]_vars PROVE JoinInv'
    OBVIOUS
  <2>1. TypesInv /\ AnswerInv
    BY DEF JoinInv
  <2>2. ASSUME ~Serving, answer' = answer PROVE AnswerInv'
    BY <2>1, <2>2 DEF AnswerInv, TakenForComplete, NoAnswer
  <2>3. CASE VisitRoot \/ VisitChild
    <3>1. ~Serving /\ answer' = answer
      BY <2>3 DEF VisitRoot, VisitChild, Visit, Walking, Serving
    <3> QED
      BY <2>1, <2>2, <2>3, <3>1, EnterTyped DEF JoinInv
  <2>4. CASE Leave \/ WalkEnds
    <3>1. /\ ~Serving /\ answer' = answer
          /\ UNCHANGED <<program, typedefs, takes, sites, payloads>> /\ (Indexing' => Indexing)
      BY <2>4 DEF Leave, WalkEnds, Walking, walkVars, Serving, Indexing
    <3> QED
      BY <2>1, <2>2, <3>1, QuietTyped DEF JoinInv
  <2>5. CASE DocSymbol \/ DocSymbolUnknown
    <3>1. /\ ~Serving /\ answer' = answer
          /\ UNCHANGED <<program, typedefs, takes, sites, payloads>> /\ (Indexing' => Indexing)
      BY <2>5 DEF DocSymbol, DocSymbolUnknown, walkVars, Serving, Indexing
    <3> QED
      BY <2>1, <2>2, <3>1, QuietTyped DEF JoinInv
  <2>6. CASE TUEnds
    <3>1. ~Serving /\ answer' = answer
      BY <2>6 DEF TUEnds, Serving
    <3> QED
      BY <2>1, <2>2, <2>6, <3>1, TUEndsTyped DEF JoinInv
  <2>7. ASSUME NEW k \in TUs, AddPayload(k) PROVE JoinInv'
    <3>1. /\ ~Serving /\ answer' = answer
          /\ UNCHANGED <<program, typedefs, takes, sites, payloads>> /\ (Indexing' => Indexing)
      BY <2>7 DEF AddPayload, walkVars, Serving, Indexing
    <3> QED
      BY <2>1, <2>2, <3>1, QuietTyped DEF JoinInv
  <2>8. CASE WriteIndexWithFacts
    <3>1. /\ ~Serving /\ answer' = answer
          /\ UNCHANGED <<program, typedefs, takes, sites, payloads>> /\ (Indexing' => Indexing)
      BY <2>8 DEF WriteIndexWithFacts, walkVars, Serving, Indexing
    <3> QED
      BY <2>1, <2>2, <3>1, QuietTyped DEF JoinInv
  <2>9. ASSUME NEW limit \in Limits, NEW site \in rows.sites, SQLQuery(site, limit) \/ FindAddressTakes(site, limit)
        PROVE  JoinInv'
    <3>1. UNCHANGED <<program, typedefs, takes, sites, payloads>> /\ (Indexing' => Indexing)
      BY <2>9 DEF SQLQuery, FindAddressTakes, walkVars, Indexing
    <3>2. AnswerInv'
      BY <2>1, <2>9, QueryAnswers
    <3> QED
      BY <2>1, <3>1, <3>2, QuietTyped DEF JoinInv
  <2>10. CASE UNCHANGED vars
    <3>1. /\ UNCHANGED <<program, typedefs, takes, sites, payloads>> /\ (Indexing' => Indexing)
          /\ stage' = stage /\ answer' = answer /\ rows' = rows
      BY <2>10 DEF vars, walkVars, Indexing
    <3>2. AnswerInv'
      BY <2>1, <3>1 DEF AnswerInv, TakenForComplete, Serving, CandidatesOf
    <3> QED
      BY <2>1, <3>1, <3>2, QuietTyped DEF JoinInv
  <2> QED
    BY <2>3, <2>4, <2>5, <2>6, <2>7, <2>8, <2>9, <2>10 DEF Next
<1> QED
  BY Invariance, <1>1, <1>2, PTL DEF Spec

\* Wherever the canonical form of types brings functions and the calls that mean
\* them together, the join recipe finds every callback, in every program and
\* order of merging.  The hypothesis is what is asked of canonicalizeType; what
\* is shown is that nothing else can lose a callback: the types recorded, the
\* merge, the rows and the cut.  Facts_index evaluates the hypothesis on its
\* programs; that it does not hold for every C program is what Facts_join shows.
THEOREM JoinFindsCallbacksAlways ==
    ASSUME \A p \in Programs : TypesJoin(p)
    PROVE  Spec => []JoinFindsCallbacks
<1>1. ASSUME IInv, JoinInv, TakenForComplete, NEW t \in rows.takes,
             t.context[1] = "arg_to", Meaning(t.at) = SiteMeaning(answer.site.at)
      PROVE  t \in answer.rows
  <2> DEFINE site == answer.site
  <2>1. /\ Serving /\ site \in rows.sites /\ answer.rows = CandidatesOf(site) /\ program \in Programs
    BY <1>1 DEF JoinInv, AnswerInv, IInv, WalkTypes, TakenForComplete, NoAnswer
  <2> HIDE DEF site
  <2>2. t \in AllTakes /\ site \in AllSites
    BY <1>1, <2>1, RowsAreFacts DEF JoinInv
  <2>3. TakenAs(t) /\ CalledAs(site)
    BY <1>1, <2>2 DEF JoinInv, TypesInv
  <2> DEFINE ref  == NodeAt(program, t.at[1], t.at[2])
             call == NodeAt(program, site.at[1], site.at[2])
             nodes == UNION {NodesIn(program, k) : k \in DOMAIN program}
  <2>4. /\ ref \in nodes /\ ReferencesFunction(ref)
        /\ t.type \in CanonicalTypes(NormalizeFnPtrType(ref.type), SharedTypedefs(program))
    BY <2>3 DEF TakenAs, NodesIn, TUs
  <2>5. /\ call \in nodes /\ call.kind = "Call" /\ call.children # <<>> /\ InspectCallee(call.children[1]) = <<>>
        /\ site.type \in CanonicalTypes(call.children[1].type, SharedTypedefs(program))
    BY <2>3 DEF CalledAs, NodesIn, TUs
  <2>6. Means[ref.type] = Means[call.children[1].type]
    <3>1. NodeAt(program, site.at[1], Append(site.at[2], 1)) = call.children[1]
      BY <2>3, FirstChild DEF CalledAs
    <3> QED
      BY <1>1, <3>1 DEF Meaning, SiteMeaning, site
  <2> HIDE DEF ref, call
  <2>7. TypesJoin(program)
    BY <2>1
  <2>8. t.type = site.type
    BY <2>4, <2>5, <2>6, <2>7 DEF TypesJoin
  <2> QED
    BY <1>1, <2>1, <2>8 DEF CandidatesOf
<1>2. IInv /\ JoinInv => JoinFindsCallbacks
  BY <1>1 DEF JoinFindsCallbacks
<1> QED
  BY <1>2, Invariance, JoinInvariance, PTL

-----------------------------------------------------------------------------
(* The canonical form of function types                                    *)

\* A function type as clang prints it, and the type of a pointer to it.
FunctionType(ret, args) == ret \o (<<"(">> \o (args \o <<")">>))
PointerTo(ret, args)    == ret \o (<<"(", "*", ")">> \o (<<"(">> \o (args \o <<")">>)))
Plain(t) == \A i \in 1 .. Len(t) : t[i] \notin Parens

\* The first parenthesis that follows a blank is one of them.
LEMMA FirstSpaced ==
    ASSUME NEW W, NEW t \in Seq(W), Spaced(t) # {}
    PROVE  Min(Spaced(t)) \in Spaced(t)
<1>1. Spaced(t) \in SUBSET Nat
  BY LenProperties DEF Spaced
<1>2. PICK n \in Spaced(t) : \A m \in Spaced(t) : n <= m
  BY <1>1, LeastNatural
<1> QED
  BY <1>2 DEF Min

\* normalizeFnPtrType is idempotent, as canonicalizeType says it relies on
\* (indirect.go:560-562): where it inserts a "(*)" it finds one afterwards.
THEOREM NormalizeIsIdempotent ==
    ASSUME NEW W, NEW t \in Seq(W)
    PROVE  NormalizeFnPtrType(NormalizeFnPtrType(t)) = NormalizeFnPtrType(t)
<1>1. CASE HasFnPtr(t) \/ Spaced(t) = {}
  BY <1>1 DEF NormalizeFnPtrType
<1>2. CASE ~HasFnPtr(t) /\ Spaced(t) # {}
  <2> DEFINE S == W \cup {"(", "*", ")"}
             i == Min(Spaced(t))
             a == SubSeq(t, 1, i - 1)
             p == <<"(", "*", ")">>
             b == SubSeq(t, i, Len(t))
             u == (a \o p) \o b
  <2>1. i \in 2 .. Len(t) /\ Len(t) \in Nat
    <3>1. i \in Spaced(t)
      BY <1>2, FirstSpaced
    <3> QED
      BY <3>1, LenProperties DEF Spaced
  <2> HIDE DEF i
  <2>2. /\ \A j \in 1 .. i - 1 : t[j] \in S
        /\ \A j \in i .. Len(t) : t[j] \in S
    BY <2>1, ElementOfSeq
  <2>3. a \in Seq(S) /\ Len(a) = i - 1
    <3>1. i - 1 \in Int /\ 1 <= i - 1 /\ i - 1 - 1 + 1 = i - 1
      BY <2>1
    <3> HIDE DEF S
    <3> QED
      BY <2>2, <3>1, SubSeqProperties
  <2>4. b \in Seq(S)
    <3>1. i \in Int /\ Len(t) \in Int
      BY <2>1
    <3> HIDE DEF S
    <3> QED
      BY <2>2, <3>1, SubSeqProperties
  <2>5. p \in Seq(S) /\ Len(p) = 3 /\ p[1] = "(" /\ p[2] = "*"
    OBVIOUS
  <2> HIDE DEF S, a, b, p
  <2>6. /\ a \o p \in Seq(S) /\ Len(a \o p) = i + 2
        /\ (a \o p)[i] = "(" /\ (a \o p)[i + 1] = "*"
    <3>1. /\ a \o p \in Seq(S) /\ Len(a \o p) = Len(a) + Len(p)
          /\ \A j \in 1 .. Len(a) + Len(p) : (a \o p)[j] = IF j <= Len(a) THEN a[j] ELSE p[j - Len(a)]
      BY <2>3, <2>5, ConcatProperties
    <3>2. i - Len(a) = 1 /\ i + 1 - Len(a) = 2 /\ i \in 1 .. Len(a) + 3 /\ i + 1 \in 1 .. Len(a) + 3
      BY <2>1, <2>3
    <3> QED
      BY <2>1, <2>3, <2>5, <3>1, <3>2
  <2>7. Len(u) \in Nat /\ i + 1 <= Len(u) /\ u[i] = "(" /\ u[i + 1] = "*"
    <3>1. /\ Len(u) = Len(a \o p) + Len(b)
          /\ \A j \in 1 .. Len(a \o p) + Len(b) :
                u[j] = IF j <= Len(a \o p) THEN (a \o p)[j] ELSE b[j - Len(a \o p)]
      BY <2>4, <2>6, ConcatProperties
    <3>2. Len(b) \in Nat
      BY <2>4, LenProperties
    <3> QED
      BY <2>1, <2>6, <3>1, <3>2
  <2> HIDE DEF u
  <2>8. HasFnPtr(u)
    BY <2>1, <2>7 DEF HasFnPtr
  <2>9. NormalizeFnPtrType(t) = u
    BY <1>2 DEF NormalizeFnPtrType, u, a, b, p, i
  <2> QED
    BY <2>8, <2>9 DEF NormalizeFnPtrType
<1> QED
  BY <1>1, <1>2

\* What stands where in two sequences put together.
LEMMA Joined ==
    ASSUME NEW W, NEW a \in Seq(W), NEW b \in Seq(W), NEW t, t = a \o b,
           NEW n, n = Len(a), NEW m, m = Len(b)
    PROVE  /\ n \in Nat /\ m \in Nat /\ t \in Seq(W) /\ Len(t) = n + m
           /\ \A i \in 1 .. n + m : t[i] = IF i <= n THEN a[i] ELSE b[i - n]
  BY ConcatProperties, LenProperties

\* Cut where they were put together, they are the same again.
LEMMA CutAgain ==
    ASSUME NEW W, NEW a \in Seq(W), NEW b \in Seq(W), NEW t, t = a \o b, NEW n, n = Len(a)
    PROVE  SubSeq(t, 1, n) = a /\ SubSeq(t, n + 1, Len(t)) = b
<1> DEFINE m == Len(b)  c == SubSeq(t, 1, n)  d == SubSeq(t, n + 1, Len(t))
<1>1. /\ n \in Nat /\ m \in Nat /\ t \in Seq(W) /\ Len(t) = n + m
      /\ \A i \in 1 .. n + m : t[i] = IF i <= n THEN a[i] ELSE b[i - n]
  BY Joined
<1>2. \A i \in 1 .. Len(t) : t[i] \in W
  BY <1>1, ElementOfSeq
<1>3. c \in Seq(W) /\ Len(c) = n /\ \A i \in 1 .. n : c[i] = t[i]
  <2>1. (\A i \in 1 .. n : t[i] \in W) /\ n \in Int /\ 1 \in Int
    BY <1>1, <1>2
  <2>2. /\ SubSeq(t, 1, n) \in Seq(W) /\ Len(SubSeq(t, 1, n)) = IF 1 <= n THEN n - 1 + 1 ELSE 0
        /\ \A i \in 1 .. n - 1 + 1 : SubSeq(t, 1, n)[i] = t[1 + i - 1]
    BY <2>1, SubSeqProperties
  <2> QED
    BY <1>1, <2>2
<1>4. d \in Seq(W) /\ Len(d) = m /\ \A i \in 1 .. m : d[i] = t[n + i]
  <2>1. (\A i \in n + 1 .. Len(t) : t[i] \in W) /\ n + 1 \in Int /\ Len(t) \in Int
    BY <1>1, <1>2
  <2>2. /\ SubSeq(t, n + 1, Len(t)) \in Seq(W)
        /\ Len(SubSeq(t, n + 1, Len(t))) = IF n + 1 <= Len(t) THEN Len(t) - (n + 1) + 1 ELSE 0
        /\ \A i \in 1 .. Len(t) - (n + 1) + 1 : SubSeq(t, n + 1, Len(t))[i] = t[(n + 1) + i - 1]
    BY <2>1, SubSeqProperties
  <2>3. /\ Len(t) - (n + 1) + 1 = m /\ (IF n + 1 <= Len(t) THEN Len(t) - (n + 1) + 1 ELSE 0) = m
        /\ \A i \in 1 .. m : (n + 1) + i - 1 = n + i
    BY <1>1
  <2> QED
    BY <2>2, <2>3
<1> HIDE DEF c, d
<1>5. c = a
  <2>1. \A i \in 1 .. n : i \in 1 .. n + m /\ i <= n
    BY <1>1
  <2>2. \A i \in 1 .. Len(c) : c[i] = a[i]
    BY <1>1, <1>3, <2>1
  <2> QED
    BY <1>3, <2>2, SeqEqual
<1>6. d = b
  <2>1. \A i \in 1 .. m : n + i \in 1 .. n + m /\ ~(n + i <= n) /\ n + i - n = i
    BY <1>1
  <2>2. \A i \in 1 .. Len(d) : d[i] = b[i]
    BY <1>1, <1>4, <2>1
  <2> QED
    BY <1>4, <2>2, SeqEqual
<1> QED
  BY <1>5, <1>6 DEF c, d

\* What normalizeFnPtrType does to a type whose first parenthesis after a blank
\* comes behind a.
LEMMA NormalizeJoined ==
    ASSUME NEW W, NEW a \in Seq(W), NEW b \in Seq(W), NEW t, t = a \o b, NEW n, n = Len(a),
           ~HasFnPtr(t), Spaced(t) = {n + 1}
    PROVE  NormalizeFnPtrType(t) = (a \o <<"(", "*", ")">>) \o b
<1>1. n \in Nat /\ t \in Seq(W)
  BY Joined
<1>2. Min(Spaced(t)) = n + 1
  <2>1. Spaced(t) # {}
    OBVIOUS
  <2> QED
    BY <1>1, <2>1, FirstSpaced
<1>3. SubSeq(t, 1, n) = a /\ SubSeq(t, n + 1, Len(t)) = b
  BY CutAgain
<1>4. Min(Spaced(t)) - 1 = n
  BY <1>1, <1>2
<1>5. NormalizeFnPtrType(t)
        = SubSeq(t, 1, Min(Spaced(t)) - 1) \o <<"(", "*", ")">> \o SubSeq(t, Min(Spaced(t)), Len(t))
  BY DEF NormalizeFnPtrType
<1> QED
  BY <1>2, <1>3, <1>4, <1>5

\* What stands where in a function type t.
Layout(W, t, ret, args, n, m) ==
    /\ n \in Nat /\ m \in Nat
    /\ t \in Seq(W) /\ Len(t) = n + (m + 2)
    /\ \A i \in 1 .. n : t[i] = ret[i]
    /\ t[n + 1] = "("
    /\ \A i \in 1 .. m : t[n + 1 + i] = args[i]
    /\ t[n + (m + 2)] = ")"

LEMMA FunctionTypeParts ==
    ASSUME NEW W, {"(", "*", ")"} \subseteq W, NEW ret \in Seq(W), NEW args \in Seq(W)
    PROVE  Layout(W, FunctionType(ret, args), ret, args, Len(ret), Len(args))
<1> PICK t, n, m : t = FunctionType(ret, args) /\ n = Len(ret) /\ m = Len(args)
  OBVIOUS
<1>1. PICK open, close : open = <<"(">> /\ close = <<")">>
  OBVIOUS
<1>2. open \in Seq(W) /\ close \in Seq(W) /\ Len(open) = 1 /\ Len(close) = 1 /\ open[1] = "(" /\ close[1] = ")"
  BY <1>1
<1>3. PICK inner : inner = args \o close
  OBVIOUS
<1>4. PICK rest : rest = open \o inner
  OBVIOUS
<1>5. t = ret \o rest
  BY <1>1, <1>3, <1>4 DEF FunctionType
<1>6. /\ n \in Nat /\ m \in Nat /\ inner \in Seq(W) /\ Len(inner) = m + 1
      /\ \A i \in 1 .. m + 1 : inner[i] = IF i <= m THEN args[i] ELSE close[i - m]
  <2>1. n \in Nat /\ m \in Nat
    BY LenProperties
  <2>2. /\ args \o close \in Seq(W) /\ Len(args \o close) = Len(args) + Len(close)
        /\ \A i \in 1 .. Len(args) + Len(close) :
              (args \o close)[i] = IF i <= Len(args) THEN args[i] ELSE close[i - Len(args)]
    BY <1>2, ConcatProperties
  <2> QED
    BY <1>2, <1>3, <2>1, <2>2
<1>7. /\ rest \in Seq(W) /\ Len(rest) = 1 + (m + 1)
      /\ \A i \in 1 .. 1 + (m + 1) : rest[i] = IF i <= 1 THEN open[i] ELSE inner[i - 1]
  <2> open \in Seq(W) /\ inner \in Seq(W)
    BY <1>2, <1>6
  <2>1. /\ open \o inner \in Seq(W) /\ Len(open \o inner) = Len(open) + Len(inner)
        /\ \A i \in 1 .. Len(open) + Len(inner) :
              (open \o inner)[i] = IF i <= Len(open) THEN open[i] ELSE inner[i - Len(open)]
    BY ConcatProperties
  <2> QED
    BY <1>2, <1>4, <1>6, <2>1
<1>8. /\ t \in Seq(W) /\ Len(t) = n + (m + 2)
      /\ \A i \in 1 .. n + (m + 2) : t[i] = IF i <= n THEN ret[i] ELSE rest[i - n]
  <2>1. 1 + (m + 1) = m + 2
    BY <1>6
  <2>2. /\ ret \o rest \in Seq(W) /\ Len(ret \o rest) = Len(ret) + Len(rest)
        /\ \A i \in 1 .. Len(ret) + Len(rest) :
              (ret \o rest)[i] = IF i <= Len(ret) THEN ret[i] ELSE rest[i - Len(ret)]
    BY <1>7, ConcatProperties
  <2> QED
    BY <1>5, <1>7, <2>1, <2>2
<1>9. \A i \in 1 .. n : i \in 1 .. n + (m + 2) /\ i <= n
  BY <1>6
<1>10. rest[1] = "(" /\ t[n + 1] = rest[1]
  <2>1. n + 1 \in 1 .. n + (m + 2) /\ ~(n + 1 <= n) /\ n + 1 - n = 1 /\ 1 \in 1 .. 1 + (m + 1)
    BY <1>6
  <2>2. rest[1] = open[1]
    BY <1>7, <2>1
  <2>3. t[n + 1] = rest[1]
    BY <1>8, <2>1
  <2> QED
    BY <1>2, <2>2, <2>3
<1>11. \A i \in 1 .. m : t[n + 1 + i] = args[i]
  <2>1. ASSUME NEW i \in 1 .. m PROVE t[n + 1 + i] = args[i]
    <3>1. /\ n + 1 + i \in 1 .. n + (m + 2) /\ ~(n + 1 + i <= n) /\ n + 1 + i - n = i + 1
          /\ i + 1 \in 1 .. 1 + (m + 1) /\ ~(i + 1 <= 1) /\ i + 1 - 1 = i /\ i \in 1 .. m + 1 /\ i <= m
      BY <1>6
    <3>2. t[n + 1 + i] = rest[i + 1]
      BY <1>8, <3>1
    <3>3. rest[i + 1] = inner[i]
      BY <1>7, <3>1
    <3>4. inner[i] = args[i]
      BY <1>6, <3>1
    <3> QED
      BY <3>2, <3>3, <3>4
  <2> QED
    BY <2>1
<1>12. t[n + (m + 2)] = ")"
  <2>1. /\ n + (m + 2) \in 1 .. n + (m + 2) /\ ~(n + (m + 2) <= n) /\ n + (m + 2) - n = m + 2
        /\ m + 2 \in 1 .. 1 + (m + 1) /\ ~(m + 2 <= 1) /\ m + 2 - 1 = m + 1
        /\ m + 1 \in 1 .. m + 1 /\ ~(m + 1 <= m) /\ m + 1 - m = 1
    BY <1>6
  <2>2. t[n + (m + 2)] = rest[m + 2]
    BY <1>8, <2>1
  <2>3. rest[m + 2] = inner[m + 1]
    BY <1>7, <2>1
  <2>4. inner[m + 1] = close[1]
    BY <1>6, <2>1
  <2> QED
    BY <1>2, <2>2, <2>3, <2>4
<1>13. Layout(W, t, ret, args, n, m)
  BY <1>6, <1>8, <1>9, <1>10, <1>11, <1>12 DEF Layout
<1> QED
  BY <1>13

\* Of a function type without further parentheses in it none is a pointer to a
\* function, and the one that opens its parameters follows a blank unless the
\* function returns a pointer.
LEMMA SpacedParameters ==
    ASSUME NEW W, {"(", "*", ")"} \subseteq W, NEW ret \in Seq(W), NEW args \in Seq(W),
           ret # <<>>, Plain(ret), Plain(args), args # <<>> => args[1] # "*",
           NEW t, t = FunctionType(ret, args), NEW n, n = Len(ret)
    PROVE  /\ ~HasFnPtr(t)
           /\ ret[n] # "*" => Spaced(t) = {n + 1}
           /\ ret[n] = "*" => Spaced(t) = {}
<1>1. PICK m : m = Len(args)
  OBVIOUS
<1>2. /\ n \in Nat /\ m \in Nat
      /\ t \in Seq(W) /\ Len(t) = n + (m + 2)
      /\ \A i \in 1 .. n : t[i] = ret[i]
      /\ t[n + 1] = "("
      /\ \A i \in 1 .. m : t[n + 1 + i] = args[i]
      /\ t[n + (m + 2)] = ")"
  <2>1. Layout(W, FunctionType(ret, args), ret, args, Len(ret), Len(args))
    BY FunctionTypeParts
  <2>2. Layout(W, t, ret, args, n, m)
    BY <1>1, <2>1
  <2> QED
    BY <2>2 DEF Layout
<1>3. n # 0
  BY EmptySeq
<1>4. (\A i \in 1 .. n : ret[i] \notin Parens) /\ \A i \in 1 .. m : args[i] \notin Parens
  BY <1>1 DEF Plain
<1>5. ASSUME NEW i \in 1 .. Len(t), t[i] = "(" PROVE i = n + 1
  <2>1. CASE i <= n
    <3>1. i \in 1 .. n
      BY <1>2, <2>1
    <3> QED
      BY <1>2, <1>4, <1>5, <3>1 DEF Parens
  <2>2. CASE i > n + 1 /\ i < n + (m + 2)
    <3>1. i - (n + 1) \in 1 .. m /\ n + 1 + (i - (n + 1)) = i
      BY <1>2, <2>2
    <3>2. t[i] = args[i - (n + 1)]
      BY <1>2, <3>1
    <3>3. args[i - (n + 1)] \notin Parens
      BY <1>4, <3>1
    <3> QED
      BY <1>5, <3>2, <3>3 DEF Parens
  <2>3. CASE i = n + (m + 2)
    BY <1>2, <1>5, <2>3
  <2>4. i <= n \/ i = n + 1 \/ (i > n + 1 /\ i < n + (m + 2)) \/ i = n + (m + 2)
    <3>1. n \in Nat /\ m \in Nat /\ i \in 1 .. n + (m + 2)
      BY <1>2
    <3> QED
      BY <3>1
  <2> QED
    BY <2>1, <2>2, <2>3, <2>4
<1>6. t[n + 2] # "*"
  <2>1. CASE m = 0
    BY <1>2, <2>1
  <2>2. CASE m # 0
    <3>1. args # <<>> /\ 1 \in 1 .. m /\ n + 1 + 1 = n + 2
      BY <1>1, <1>2, <2>2, EmptySeq
    <3> QED
      BY <1>2, <3>1
  <2> QED
    BY <2>1, <2>2
<1>7. ~HasFnPtr(t)
  <2>1. \A i \in 1 .. Len(t) - 1 : i \in 1 .. Len(t) /\ (i = n + 1 => i + 1 = n + 2)
    BY <1>2
  <2> QED
    BY <1>5, <1>6, <2>1 DEF HasFnPtr
<1>8. t[n] = ret[n] /\ ret[n] \notin Parens /\ n + 1 - 1 = n /\ n + 1 \in 2 .. Len(t)
  BY <1>2, <1>3, <1>4
<1>9. \A i \in 2 .. Len(t) : i \in 1 .. Len(t)
  BY <1>2
<1>10. ret[n] # "*" => Spaced(t) = {n + 1}
  BY <1>2, <1>5, <1>8, <1>9 DEF Spaced
<1>11. ret[n] = "*" => Spaced(t) = {}
  BY <1>2, <1>5, <1>8, <1>9 DEF Spaced
<1> QED
  BY <1>7, <1>10, <1>11

\* The type of a function that is passed is brought into the form of the pointer
\* it is called through if, and only if, the function does not return a pointer:
\* what Facts_join finds for one type holds for all whose return type and
\* parameters have no parentheses (normalizeFnPtrType, indirect.go:658-674).
THEOREM FunctionMeetsPointer ==
    ASSUME NEW W, {"(", "*", ")"} \subseteq W, NEW ret \in Seq(W), NEW args \in Seq(W),
           ret # <<>>, Plain(ret), Plain(args), args # <<>> => args[1] # "*"
    PROVE  NormalizeFnPtrType(FunctionType(ret, args)) = PointerTo(ret, args) <=> ret[Len(ret)] # "*"
<1>1. PICK t, n, p, params : /\ t = FunctionType(ret, args) /\ n = Len(ret)
                             /\ p = <<"(", "*", ")">> /\ params = <<"(">> \o (args \o <<")">>)
  OBVIOUS
<1>2. t = ret \o params /\ PointerTo(ret, args) = ret \o (p \o params)
  BY <1>1 DEF FunctionType, PointerTo
<1>3. p \in Seq(W) /\ Len(p) = 3
  BY <1>1
<1>4. params \in Seq(W)
  <2>1. PICK open, close : open = <<"(">> /\ close = <<")">>
    OBVIOUS
  <2>2. open \in Seq(W) /\ close \in Seq(W)
    BY <2>1
  <2>3. args \o close \in Seq(W)
    BY <2>2, ConcatProperties
  <2>4. open \o (args \o close) \in Seq(W)
    BY <2>2, <2>3, ConcatProperties
  <2> QED
    BY <1>1, <2>1, <2>4
<1>5. /\ ~HasFnPtr(t)
      /\ ret[n] # "*" => Spaced(t) = {n + 1}
      /\ ret[n] = "*" => Spaced(t) = {}
  BY <1>1, SpacedParameters
<1>6. CASE ret[n] # "*"
  <2>1. NormalizeFnPtrType(t) = (ret \o p) \o params
    <3>1. ~HasFnPtr(t) /\ Spaced(t) = {n + 1}
      BY <1>5, <1>6
    <3>2. NormalizeFnPtrType(t) = (ret \o <<"(", "*", ")">>) \o params
      BY <1>1, <1>2, <1>4, <3>1, NormalizeJoined
    <3> QED
      BY <1>1, <3>2
  <2>2. (ret \o p) \o params = ret \o (p \o params)
    BY <1>3, <1>4, ConcatAssociative
  <2> QED
    BY <1>1, <1>2, <1>6, <2>1, <2>2
<1>7. CASE ret[n] = "*"
  <2>1. NormalizeFnPtrType(t) = t
    BY <1>5, <1>7 DEF NormalizeFnPtrType
  <2>2. p \o params \in Seq(W) /\ Len(p \o params) = Len(p) + Len(params)
    BY <1>3, <1>4, ConcatProperties
  <2>3. Len(ret \o (p \o params)) = n + (3 + Len(params))
    BY <1>1, <1>3, <2>2, ConcatProperties
  <2>4. Len(ret \o params) = n + Len(params) /\ n \in Nat /\ Len(params) \in Nat
    BY <1>1, <1>4, ConcatProperties, LenProperties
  <2>5. ret \o params # ret \o (p \o params)
    BY <2>3, <2>4
  <2> QED
    BY <1>1, <1>2, <1>7, <2>1, <2>5
<1> QED
  BY <1>1, <1>6, <1>7

\* Without typedefs there is one canonical form.
LEMMA NoTypedefs ==
    ASSUME NEW t, NEW types, DOMAIN types = {}
    PROVE  CanonicalTypes(t, types) = {NormalizeFnPtrType(t)}
<1>1. \A order \in SetToSeqs(DOMAIN types) : order = <<>>
  <2> SUFFICES ASSUME NEW order \in SetToSeqs(DOMAIN types) PROVE order = <<>>
    OBVIOUS
  <2>1. 1 .. Cardinality(DOMAIN types) = {}
    <3>1. Cardinality(DOMAIN types) = 0
      BY FS_EmptySet
    <3> QED
      BY <3>1
  <2>2. order \in [{} -> {}]
    BY <2>1 DEF SetToSeqs
  <2> QED
    BY <2>2
<1>2. <<>> \in SetToSeqs(DOMAIN types)
  <2>1. 1 .. Cardinality(DOMAIN types) = {}
    <3>1. Cardinality(DOMAIN types) = 0
      BY FS_EmptySet
    <3> QED
      BY <3>1
  <2>2. <<>> \in [{} -> {}]
    OBVIOUS
  <2> QED
    BY <2>1, <2>2 DEF SetToSeqs
<1>3. CanonicalizeType(t, types, <<>>) = NormalizeFnPtrType(t)
  BY DEF CanonicalizeType
<1>4. CanonicalTypes(t, types) = {CanonicalizeType(t, types, order) : order \in SetToSeqs(DOMAIN types)}
  BY DEF CanonicalTypes
<1> QED
  BY <1>1, <1>2, <1>3, <1>4

\* Signatures of functions over words W whose return type and parameters have no
\* parentheses, and which do not return a pointer.
Signatures(W) ==
    {sig \in [ret : Seq(W), args : Seq(W)] :
        /\ sig.ret # <<>> /\ Plain(sig.ret) /\ sig.ret[Len(sig.ret)] # "*"
        /\ Plain(sig.args) /\ (sig.args # <<>> => sig.args[1] # "*")}

\* A program whose files have no typedefs, and which passes functions of such
\* signatures and calls pointers to such functions, printed as clang does.
PlainProgram(p, W) ==
    /\ DOMAIN SharedTypedefs(p) = {}
    /\ \A node \in UNION {NodesIn(p, k) : k \in DOMAIN p} :
          /\ ReferencesFunction(node) =>
                \E sig \in Signatures(W) : node.type = FunctionType(sig.ret, sig.args)
          /\ (node.kind = "Call" /\ node.children # <<>> /\ InspectCallee(node.children[1]) = <<>>) =>
                \E sig \in Signatures(W) : node.children[1].type = PointerTo(sig.ret, sig.args)

\* For programs without typedefs, with functions that take and return no
\* pointers to functions and return no pointer at all, nothing has to be assumed
\* of canonicalizeType: if types mean what they say, the join recipe finds every
\* callback.  Facts_join shows that a function that returns a pointer is missed.
THEOREM JoinFindsPlainCallbacks ==
    ASSUME NEW W, {"(", "*", ")"} \subseteq W, \A p \in Programs : PlainProgram(p, W),
           \A f, g \in Signatures(W) :
               Means[FunctionType(f.ret, f.args)] = Means[PointerTo(g.ret, g.args)] => f = g
    PROVE  Spec => []JoinFindsCallbacks
<1>1. ASSUME NEW sig \in Signatures(W)
      PROVE  LET t == FunctionType(sig.ret, sig.args)  u == PointerTo(sig.ret, sig.args)
             IN NormalizeFnPtrType(NormalizeFnPtrType(t)) = u /\ NormalizeFnPtrType(u) = u
  <2> DEFINE t == FunctionType(sig.ret, sig.args)  u == PointerTo(sig.ret, sig.args)
  <2>1. /\ sig.ret \in Seq(W) /\ sig.args \in Seq(W) /\ sig.ret # <<>> /\ Plain(sig.ret) /\ Plain(sig.args)
        /\ (sig.args # <<>> => sig.args[1] # "*") /\ sig.ret[Len(sig.ret)] # "*"
    BY DEF Signatures
  <2>2. NormalizeFnPtrType(t) = u
    <3> DEFINE ret == sig.ret  args == sig.args
    <3>1. /\ ret \in Seq(W) /\ args \in Seq(W) /\ ret # <<>> /\ Plain(ret) /\ Plain(args)
          /\ (args # <<>> => args[1] # "*") /\ ret[Len(ret)] # "*"
      BY <2>1
    <3> HIDE DEF ret, args
    <3>2. NormalizeFnPtrType(FunctionType(ret, args)) = PointerTo(ret, args)
      BY <3>1, FunctionMeetsPointer
    <3> QED
      BY <3>2 DEF ret, args
  <2>3. t \in Seq(W)
    <3>1. Layout(W, t, sig.ret, sig.args, Len(sig.ret), Len(sig.args))
      BY <2>1, FunctionTypeParts
    <3> QED
      BY <3>1 DEF Layout
  <2> HIDE DEF t, u
  <2>4. NormalizeFnPtrType(u) = u
    BY <2>2, <2>3, NormalizeIsIdempotent
  <2> QED
    BY <2>2, <2>4 DEF t, u
<1>2. ASSUME NEW p \in Programs PROVE TypesJoin(p)
  <2> DEFINE nodes == UNION {NodesIn(p, k) : k \in DOMAIN p}
             types == SharedTypedefs(p)
  <2>1. ASSUME NEW ref \in nodes, NEW call \in nodes,
               ReferencesFunction(ref), call.kind = "Call", call.children # <<>>,
               InspectCallee(call.children[1]) = <<>>, Means[ref.type] = Means[call.children[1].type],
               NEW a \in CanonicalTypes(NormalizeFnPtrType(ref.type), types),
               NEW b \in CanonicalTypes(call.children[1].type, types)
        PROVE  a = b
    <3>1. PICK f \in Signatures(W) : ref.type = FunctionType(f.ret, f.args)
      BY <2>1 DEF PlainProgram
    <3>2. PICK g \in Signatures(W) : call.children[1].type = PointerTo(g.ret, g.args)
      BY <2>1 DEF PlainProgram
    <3>3. f = g
      BY <2>1, <3>1, <3>2
    <3>4. DOMAIN types = {}
      BY DEF PlainProgram
    <3> HIDE DEF types
    <3>5. a = NormalizeFnPtrType(NormalizeFnPtrType(ref.type)) /\ b = NormalizeFnPtrType(call.children[1].type)
      BY <3>4, NoTypedefs
    <3> QED
      BY <1>1, <3>1, <3>2, <3>3, <3>5
  <2> QED
    BY <2>1 DEF TypesJoin
<1> QED
  BY <1>2, JoinFindsCallbacksAlways

=============================================================================
