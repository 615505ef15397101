------------------------------ MODULE FnTypes ------------------------------
(***************************************************************************)
(* The canonical form of function types (internal/extract/indirect.go),    *)
(* which lets address takes and indirect calls be joined by type.  A type  *)
(* is what clang prints of it, as a sequence of words, "*", "(" and ")".   *)
(* clang puts a blank between a word and a parenthesis, and none between   *)
(* "*" and a parenthesis.                                                  *)
(***************************************************************************)
EXTENDS Naturals, Sequences, SequencesExt

Parens == {"(", ")"}

\* The parentheses of t that follow a blank.
Spaced(t) == {i \in 2 .. Len(t) : t[i] = "(" /\ t[i - 1] \notin Parens \cup {"*"}}

\* Something in t is a pointer to a function: strings.Contains(t, "(*").
HasFnPtr(t) == \E i \in 1 .. Len(t) - 1 : t[i] = "(" /\ t[i + 1] = "*"

\* normalizeFnPtrType: "int (int)" becomes "int (*)(int)".
NormalizeFnPtrType(t) ==
    IF HasFnPtr(t) \/ Spaced(t) = {} THEN t
    ELSE LET i == Min(Spaced(t))
         IN SubSeq(t, 1, i - 1) \o <<"(", "*", ")">> \o SubSeq(t, i, Len(t))

\* substituteTypedefWord
SubstituteTypedefWord(t, name, body) ==
    FlattenSeq([i \in DOMAIN t |-> IF t[i] = name THEN body ELSE <<t[i]>>])

\* The matches of fnTypeWithTailPtrRE, by their opening parenthesis: a list of
\* parameters without parentheses, after something and before a "*".
Closing(t, i)   == Min({j \in i + 1 .. Len(t) : t[j] \in Parens} \cup {Len(t) + 1})
TailPointers(t) == {i \in Spaced(t) : LET c == Closing(t, i)
                                      IN c < Len(t) /\ t[c] = ")" /\ t[c + 1] = "*"}
\* The places of the "*" that follow the match at i.
Stars(t, i) == {j \in Closing(t, i) + 1 .. Len(t) : \A k \in Closing(t, i) + 1 .. j : t[k] = "*"}

\* reshapeFunctionTypePointer: "int (int) *", a typedef replaced before a "*",
\* becomes "int (*)(int)".
ReshapeFunctionTypePointer(t) ==
    FlattenSeq([j \in DOMAIN t |->
        IF j \in TailPointers(t)
        THEN <<"(">> \o [k \in 1 .. Cardinality(Stars(t, j)) |-> "*"] \o <<")", "(">>
        ELSE IF \E i \in TailPointers(t) : j \in Stars(t, i) THEN <<>> ELSE <<t[j]>>])

\* canonicalizeType: one pass over the typedefs, in an order that Go leaves open.
CanonicalizeType(t, typedefs, order) ==
    IF t = <<>> \/ order = <<>> THEN NormalizeFnPtrType(t)
    ELSE LET substitute(u, name) == SubstituteTypedefWord(u, name, typedefs[name])
         IN NormalizeFnPtrType(ReshapeFunctionTypePointer(FoldLeft(substitute, t, order)))

CanonicalTypes(t, typedefs) ==
    {CanonicalizeType(t, typedefs, order) : order \in SetToSeqs(DOMAIN typedefs)}

=============================================================================
