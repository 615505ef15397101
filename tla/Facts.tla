------------------------------- MODULE Facts -------------------------------
(***************************************************************************)
(* The facts of an index, from clangd's answers to the queries that join   *)
(* them: the walker over the AST of a translation unit (indirect.go), the  *)
(* symbols and edges of extractTU and their merge in Run (extract.go), the *)
(* rows WriteIndexWithFacts stores and the reads of Store (store.go) that  *)
(* the MCP handlers (mcp.go) call.  One program is indexed, by workers     *)
(* that meet only in the merge, so that they are taken in turn until then. *)
(* A USR clangd has no answer for is out of answers; other answers it      *)
(* cannot give are in module Extract.                                      *)
(*                                                                         *)
(* A node of an AST is a record of its kind, what clangd tells of it       *)
(* (detail; the operator of a BinaryOperator; the field of a DesignatedInit *)
(* as the walker reads it from the source, "" if it cannot), its type as   *)
(* printed, whether it is a reference to a function, and its children.     *)
(***************************************************************************)
EXTENDS FnTypes, TLC

CONSTANTS
    Functions,      \* functions, by their USR
    Nodes,          \* nodes of the ASTs
    Programs,       \* sequences of TUs: [ast, docs, calls]; docs: symbols, flattened
    HeaderTypedefs, \* typedefs of the headers: name -> type
    Means,          \* printed type of a function or of a pointer to one -> which function type it is
    MaxDepth,       \* bound on the depth of an AST
    Unknown,        \* sets of functions for which clangd may have no USR
    DefaultRows, MaxRows,   \* sqlDefaultMaxRows, sqlMaxMaxRows
    ListRows                \* the default limit of the list tools

\* enclosingFnUSR outside of functions that clangd knows.
NoFunction == ""

ASSUME FunctionsAssumption == NoFunction \notin Functions
ASSUME NodesAssumption == {node.children : node \in Nodes} \subseteq Seq(Nodes)
ASSUME ProgramsAssumption ==
    /\ Programs # {}
    /\ \A p \in Programs : Len(p) \in Nat \ {0} /\ DOMAIN p = 1 .. Len(p)
    /\ UNION {{p[k].ast : k \in DOMAIN p} : p \in Programs} \subseteq Nodes
ASSUME UnknownAssumption == Unknown \subseteq SUBSET Functions /\ Unknown # {}
ASSUME DepthAssumption == MaxDepth \in Nat
ASSUME RowsAssumption == DefaultRows \in 1 .. MaxRows /\ MaxRows \in Nat /\ ListRows \in Nat

VARIABLES
    program,   \* the TUs of this run
    answers,   \* functions whose USR clangd knows
    stage,     \* "walk", "symbols", "merge", "write", "serve"
    tu,        \* the TU that is walked, or whose symbols are asked for
    stack,     \* frames of the walker, the current node last
    enclosing, \* enclosingFnUSR, NoFunction for none
    typedefs,  \* typedefs the walker knows
    takes,     \* address takes found in this TU
    sites,     \* indirect call sites found in this TU
    doc,       \* index of the document symbol that is next
    symbols,   \* symbols of this TU: function -> where its fields come from
    edges,     \* edges of this TU
    payloads,  \* TU -> payload
    merged,    \* TUs merged
    agg,       \* symbolsByUSR, edges, addressTakes, indirectCallSites
    rows,      \* the database
    answer     \* what the last query returned

walkVars   == <<stack, enclosing, typedefs, takes, sites>>
symbolVars == <<doc, symbols, edges>>
vars == <<program, answers, stage, tu, walkVars, symbolVars, payloads, merged, agg, rows, answer>>

NoFacts == [symbols |-> <<>>, edges |-> {}, takes |-> {}, sites |-> {}]
NoAnswer == [tool |-> "none"]

TUs == DOMAIN program

\* A frame of the walker's stack.
Frame(node, child) == [node |-> node, child |-> child, hint |-> <<>>, outer |-> enclosing, next |-> 1]
Kind(frame) == frame.node.kind
Path(frames) == [i \in 1 .. Len(frames) - 1 |-> frames[i + 1].child]

\* The nodes of a TU along a path, the node the path leads to, and all paths.
NodesOn(p, k, path) ==
    LET node[n \in 0 .. Len(path)] == IF n = 0 THEN p[k].ast ELSE node[n - 1].children[path[n]]
    IN node
NodeAt(p, k, path) == NodesOn(p, k, path)[Len(path)]
Paths(p, k) ==
    LET below(path) == {Append(path, i) : i \in 1 .. Len(NodeAt(p, k, path).children)}
        level[d \in 0 .. MaxDepth] ==
            IF d = 0 THEN {<<>>} ELSE UNION {below(path) : path \in level[d - 1]}
    IN UNION {level[d] : d \in 0 .. MaxDepth}
NodesIn(p, k) == {NodeAt(p, k, path) : path \in Paths(p, k)}

\* MaxDepth cuts off no AST.
ASSUME DeepestAssumption ==
    \A p \in Programs : \A k \in DOMAIN p : \A path \in Paths(p, k) :
        Len(path) = MaxDepth => NodeAt(p, k, path).children = <<>>

\* In a call the callee has a type, and declares no functions.
ASSUME CalleesAssumption ==
    /\ \A node \in Nodes : node.kind = "Call" /\ node.children # <<>> => node.children[1].type # <<>>
    /\ \A p \in Programs : \A k \in DOMAIN p : \A path \in Paths(p, k) : \A i \in 1 .. Len(path) :
          LET nodes == NodesOn(p, k, path)
          IN nodes[i - 1].kind = "Call" /\ path[i] = 1 =>
                \A j \in i .. Len(path) - 1 : nodes[j].kind # "Function"

\* A map, with the entries of another for the keys that it does not have.
WithMore(map, other) ==
    [key \in (DOMAIN map) \cup (DOMAIN other) |-> IF key \in DOMAIN map THEN map[key] ELSE other[key]]

\* sharedTypedefs: of the files that are opened the first to have a name gives
\* it its type, the TUs before the headers.  One file gives a name one type.
TypedefsOf(p, k) == {node \in NodesIn(p, k) : node.kind = "Typedef" /\ node.type # <<>>}
SharedTypedefs(p) ==
    LET found == [k \in DOMAIN p |-> TypedefsOf(p, k)]
        names == [k \in DOMAIN p |-> {node.detail : node \in found[k]}]
        first(name) == Min({k \in DOMAIN p : name \in names[k]})
    IN WithMore([name \in UNION {names[k] : k \in DOMAIN p} |->
                    (CHOOSE node \in found[first(name)] : node.detail = name).type],
                HeaderTypedefs)

\* newWalker: the shared typedefs are known from the start.
StartWalk ==
    /\ stack' = <<>> /\ enclosing' = NoFunction /\ typedefs' = SharedTypedefs(program)
    /\ takes' = <<>> /\ sites' = <<>>

Init ==
    /\ program \in Programs /\ answers \in {Functions \ u : u \in Unknown}
    /\ stage = "walk" /\ tu = 1
    /\ stack = <<>> /\ enclosing = NoFunction /\ typedefs = SharedTypedefs(program)
    /\ takes = <<>> /\ sites = <<>>
    /\ doc = 1 /\ symbols = <<>> /\ edges = {}
    /\ payloads = <<>> /\ merged = {} /\ agg = NoFacts /\ rows = NoFacts /\ answer = NoAnswer

-----------------------------------------------------------------------------
(* What the walker asks of nodes and of its stack                          *)

Wrappers == {"ImplicitCast", "Paren", "CStyleCast"}
Comparisons == {"==", "!=", "<", ">", "<=", ">="}

\* The node under a chain of wrappers.
Peel(node, kinds) ==
    LET step(n, i) == IF n.kind \in kinds /\ n.children # <<>> THEN n.children[1] ELSE n
    IN FoldLeft(step, node, [d \in 1 .. MaxDepth |-> d])
DrillThroughCastWrappers(node) == Peel(node, Wrappers)
ReferencesFunction(node) == node.kind = "DeclRef" /\ node.fn

\* inspectCallee: the function that a call names, if it does.
InspectCallee(node) ==
    LET callee == DrillThroughCastWrappers(node)
    IN IF ReferencesFunction(callee) THEN <<"callee", callee.detail>> ELSE <<>>

\* inspectLHS, inspectArrayName, inspectArrayIndex
DetailOf(node, kinds) ==
    LET n == Peel(node, {"ImplicitCast", "Paren"}) IN IF n.kind \in kinds THEN n.detail ELSE ""
InspectLHS(node) ==
    LET lhs == Peel(node, {"Paren"})
    IN CASE lhs.kind = "Member" -> <<"stored_in", lhs.children[1].type, lhs.detail>>
         [] lhs.kind = "ArraySubscript" ->
                <<"array_init", DetailOf(lhs.children[1], {"DeclRef"}),
                  DetailOf(lhs.children[2], {"IntegerLiteral", "DeclRef"})>>
         [] lhs.kind = "DeclRef" -> <<"assigned_to", lhs.detail>>
         [] OTHER -> <<"assigned_to", "">>

Hint(node, child) == CASE node.kind = "BinaryOperator" -> InspectLHS(child)
                       [] node.kind = "Call" -> InspectCallee(child)
                       [] OTHER -> <<>>

\* Mutant of InCalleeSubtree: any call of which this is the callee side counts.
InAnyCalleeSubtree(frames) ==
    \E i \in 1 .. Len(frames) - 1 : Kind(frames[i]) = "Call" /\ frames[i + 1].child = 1

\* inCalleeSubtree: the nearest call was entered through its callee.
InCalleeSubtree(frames) ==
    LET calls == {i \in 1 .. Len(frames) - 1 : Kind(frames[i]) = "Call"}
    IN calls # {} /\ frames[Max(calls) + 1].child = 1

\* The ancestors that decide the category; all others are passed over.
Decisive(frames) ==
    {i \in 1 .. Len(frames) - 1 :
        \/ Kind(frames[i]) \in {"BinaryOperator", "Return", "Call", "InitList", "Var"}
        \/ Kind(frames[i]) = "DesignatedInit" /\ frames[i].node.detail # ""}

\* The nearest variable declaration above frame i: 0 if there is none.
VarAbove(frames, i) == Max({0} \cup {j \in 1 .. i - 1 : Kind(frames[j]) = "Var"})
FunctionAbove(frames) == Max({0} \cup {j \in DOMAIN frames : Kind(frames[j]) = "Function"})

Unqualified(t) == IF t # <<>> /\ t[1] = "const" THEN Tail(t) ELSE t

\* A designated initialiser: enclosingAggregateType and the field.
Designated(frames, i) ==
    LET v == VarAbove(frames, i)
    IN <<"stored_in", IF v = 0 THEN <<>> ELSE Unqualified(frames[v].node.type), frames[i].node.detail>>

\* classifyInitListContext
InitListContext(frames, i) ==
    LET v == VarAbove(frames, i)
    IN CASE v = 0 -> <<"assigned_to", "">>
         [] v # 0 /\ "[" \in ToSet(frames[v].node.type) ->
                <<"array_init", frames[v].node.detail, ToString(frames[i + 1].child - 1)>>
         [] OTHER -> <<"stored_in", frames[v].node.type, "<init>">>

BinaryContext(frames, i) ==
    LET op == frames[i].node.detail
    IN CASE op \in Comparisons -> <<"compared">>
         [] op = "=" /\ frames[i + 1].child # 1 -> frames[i].hint
         [] OTHER -> <<"other">>

CallContext(frames, i) ==
    <<"arg_to", IF frames[i].hint = <<>> THEN "<call>" ELSE frames[i].hint[2],
      ToString(frames[i + 1].child - 2)>>

\* classifyAddressTake: the category and its details.
ClassifyAddressTake(frames) ==
    LET i == Max({0} \cup Decisive(frames))
    IN IF i = 0 THEN <<"other">>
       ELSE CASE Kind(frames[i]) = "BinaryOperator" -> BinaryContext(frames, i)
              [] Kind(frames[i]) = "Return" ->
                     <<"returned_from", IF FunctionAbove(frames) = 0 THEN ""
                                        ELSE frames[FunctionAbove(frames)].node.detail>>
              [] Kind(frames[i]) = "Call" -> CallContext(frames, i)
              [] Kind(frames[i]) = "InitList" -> InitListContext(frames, i)
              [] Kind(frames[i]) = "DesignatedInit" -> Designated(frames, i)
              [] Kind(frames[i]) = "Var" -> <<"assigned_to", frames[i].node.detail>>

\* The address take at the node on top, as a set of at most one fact per type
\* it may be given; likewise handleCall.
AddressTake(frames, known) ==
    LET node == frames[Len(frames)].node
    IN IF ReferencesFunction(node) /\ ~InCalleeSubtree(frames) /\ node.detail \in answers
       THEN {<<[function |-> node.detail, at |-> <<tu, Path(frames)>>, type |-> type,
                context |-> ClassifyAddressTake(frames)]>>
             : type \in CanonicalTypes(NormalizeFnPtrType(node.type), known)}
       ELSE {<<>>}

HandleCall(frames, known, caller) ==
    LET node   == frames[Len(frames)].node
        callee == node.children[1]
    IN IF /\ node.kind = "Call" /\ node.children # <<>> /\ caller # NoFunction
          /\ ~ReferencesFunction(DrillThroughCastWrappers(callee)) /\ callee.type # <<>>
       THEN {<<[caller |-> caller, at |-> <<tu, Path(frames)>>, type |-> type]>>
             : type \in CanonicalTypes(callee.type, known)}
       ELSE {<<>>}

\* nameToNamePos and resolveUSR: what clangd knows of a name is what it knows of
\* the first callable symbol that has it.
FunctionUSR(k, name) ==
    LET docs  == program[k].docs
        named == {i \in DOMAIN docs : docs[i].callable /\ docs[i].name = name}
    IN IF named = {} THEN {} ELSE {docs[Min(named)].usr} \cap answers

\* The function clangd knows that a node of a TU declares, if it does.
KnownFunction(k, node) == IF node.kind = "Function" THEN FunctionUSR(k, node.detail) ELSE {}

-----------------------------------------------------------------------------
(* The walk                                                                *)

Walking == stage = "walk" /\ tu <= Len(program)
Top == stack[Len(stack)]

\* visit, up to its recursion: node is child i of the node on top.
Visit(node, i) ==
    LET frames == Append(stack, Frame(node, i))
        known  == IF node.kind = "Typedef" /\ node.type # <<>> /\ node.detail \notin DOMAIN typedefs
                  THEN WithMore(typedefs, node.detail :> node.type) ELSE typedefs
        usrs   == KnownFunction(tu, node)
        caller == IF usrs # {} THEN CHOOSE usr \in usrs : TRUE ELSE enclosing
    IN /\ stack' = frames /\ typedefs' = known /\ enclosing' = caller
       /\ \E take \in AddressTake(frames, known) : takes' = takes \o take
       /\ \E site \in HandleCall(frames, known, caller) : sites' = sites \o site
       /\ UNCHANGED <<program, answers, stage, tu, symbolVars, payloads, merged, agg, rows, answer>>

VisitRoot == Walking /\ stack = <<>> /\ Visit(program[tu].ast, 0)

VisitChild ==
    /\ Walking /\ stack # <<>> /\ Top.next <= Len(Top.node.children)
    /\ Visit(Top.node.children[Top.next], Top.next)

\* Mutants of Leave: the enclosing function is kept; every child gives a hint.
LeaveInside ==
    /\ Walking /\ Len(stack) > 1 /\ Top.next > Len(Top.node.children)
    /\ LET parent == stack[Len(stack) - 1]
       IN stack' = Append(SubSeq(stack, 1, Len(stack) - 2),
                     [parent EXCEPT !.next = @ + 1,
                                    !.hint = IF Top.child = 1 THEN Hint(parent.node, Top.node) ELSE @])
    /\ UNCHANGED <<program, answers, stage, tu, enclosing, typedefs, takes, sites, symbolVars, payloads, merged, agg, rows, answer>>
LeaveHinting ==
    /\ Walking /\ Len(stack) > 1 /\ Top.next > Len(Top.node.children)
    /\ enclosing' = Top.outer
    /\ LET parent == stack[Len(stack) - 1]
       IN stack' = Append(SubSeq(stack, 1, Len(stack) - 2),
                     [parent EXCEPT !.next = @ + 1, !.hint = Hint(parent.node, Top.node)])
    /\ UNCHANGED <<program, answers, stage, tu, typedefs, takes, sites, symbolVars, payloads, merged, agg, rows, answer>>

\* The end of visit, and what its caller learns of the first child.
Leave ==
    /\ Walking /\ Len(stack) > 1 /\ Top.next > Len(Top.node.children)
    /\ enclosing' = Top.outer
    /\ LET parent == stack[Len(stack) - 1]
       IN stack' = Append(SubSeq(stack, 1, Len(stack) - 2),
                     [parent EXCEPT !.next = @ + 1,
                                    !.hint = IF Top.child = 1 THEN Hint(parent.node, Top.node) ELSE @])
    /\ UNCHANGED <<program, answers, stage, tu, typedefs, takes, sites, symbolVars, payloads, merged, agg, rows, answer>>

WalkEnds ==
    /\ Walking /\ Len(stack) = 1 /\ Top.next > Len(Top.node.children)
    /\ stage' = "symbols" /\ doc' = 1 /\ symbols' = <<>> /\ edges' = {}
    /\ UNCHANGED <<program, answers, tu, walkVars, payloads, merged, agg, rows, answer>>

-----------------------------------------------------------------------------
(* Symbols and edges of a TU                                               *)

Docs == program[tu].docs
Callees(d) == IF d.callable THEN program[tu].calls[d.usr] \cap answers ELSE {}

\* A symbol that was seen keeps the fields it has.
Seen(known, fs, role) == WithMore(known, [f \in fs |-> <<tu, role>>])

DocSymbolUnknown ==
    /\ stage = "symbols" /\ doc <= Len(Docs) /\ Docs[doc].usr \notin answers
    /\ doc' = doc + 1
    /\ UNCHANGED <<program, answers, stage, tu, walkVars, symbols, edges, payloads, merged, agg, rows, answer>>

\* outgoingCalls may fail; a callee without a USR is left out, and any other
\* becomes a symbol before the edge to it is added.
DocSymbol ==
    /\ stage = "symbols" /\ doc <= Len(Docs) /\ Docs[doc].usr \in answers
    /\ doc' = doc + 1
    /\ \E callees \in {{}, Callees(Docs[doc])} :
           /\ symbols' = Seen(Seen(symbols, {Docs[doc].usr}, "definition"), callees, "callee")
           /\ edges' = edges \cup {<<Docs[doc].usr, f>> : f \in callees}
    /\ UNCHANGED <<program, answers, stage, tu, walkVars, payloads, merged, agg, rows, answer>>

\* The payload of the TU; the next one is walked.
TUEnds ==
    /\ stage = "symbols" /\ doc > Len(Docs)
    /\ payloads' = Append(payloads, [symbols |-> symbols, edges |-> edges,
                                     takes |-> takes, sites |-> sites])
    /\ tu' = tu + 1 /\ stage' = IF tu = Len(program) THEN "merge" ELSE "walk"
    /\ doc' = 1 /\ symbols' = <<>> /\ edges' = {} /\ StartWalk
    /\ UNCHANGED <<program, answers, merged, agg, rows, answer>>

-----------------------------------------------------------------------------
(* Run: addPayload, in whatever order the workers end; the database        *)

\* Mutant of Merged: facts about functions that are not known yet are left out.
MergedEagerly(facts, p) ==
    LET symbolsByUSR == WithMore(p.symbols, facts.symbols)
    IN [symbols |-> symbolsByUSR, edges |-> facts.edges \cup p.edges,
        takes |-> facts.takes \cup {t \in ToSet(p.takes) : t.function \in DOMAIN symbolsByUSR},
        sites |-> facts.sites \cup ToSet(p.sites)]

\* addPayload: the last writer of a symbol wins, an edge is kept once.
Merged(facts, p) ==
    [symbols |-> WithMore(p.symbols, facts.symbols),
     edges |-> facts.edges \cup p.edges,
     takes |-> facts.takes \cup ToSet(p.takes),
     sites |-> facts.sites \cup ToSet(p.sites)]

AddPayload(k) ==
    /\ stage = "merge" /\ k \notin merged
    /\ merged' = merged \cup {k} /\ agg' = Merged(agg, payloads[k])
    /\ stage' = IF merged' = TUs THEN "write" ELSE "merge"
    /\ UNCHANGED <<program, answers, tu, walkVars, symbolVars, payloads, rows, answer>>

\* Rows whose functions are not among the symbols are dropped.
WriteIndexWithFacts ==
    /\ stage = "write" /\ stage' = "serve"
    /\ LET ids == DOMAIN agg.symbols
       IN rows' = [symbols |-> agg.symbols,
                   edges |-> {e \in agg.edges : e[1] \in ids /\ e[2] \in ids},
                   takes |-> {t \in agg.takes : t.function \in ids},
                   sites |-> {s \in agg.sites : s.caller \in ids}]
    /\ UNCHANGED <<program, answers, tu, walkVars, symbolVars, payloads, merged, agg, answer>>

-----------------------------------------------------------------------------
(* Queries                                                                 *)

\* max_rows as the tool is given it: nothing usable, or a number.
Limits == 0 .. MaxRows + 1
Effective(limit) == IF limit = 0 THEN DefaultRows ELSE Min({limit, MaxRows})

\* Some rows of those found, as many as max allows.
Cut(max, found) == {r \in SUBSET found : Cardinality(r) = Min({max, Cardinality(found)})}

\* Mutant of Limited: that rows are missing is noticed one row late.
LimitedLate(limit, found) ==
    {[rows |-> r, truncated |-> Cardinality(found) > Effective(limit) + 1] : r \in Cut(Effective(limit), found)}

\* QueryReadOnly: the rows, and whether there are more.
Limited(limit, found) ==
    {[rows |-> r, truncated |-> Cardinality(found) > Effective(limit)] : r \in Cut(Effective(limit), found)}

\* The join recipe of the schema guide: candidates for an indirect call.
CandidatesOf(site) ==
    {t \in rows.takes : t.type = site.type /\ t.context[1] = "arg_to"}

SQLQuery(site, limit) ==
    /\ stage = "serve" /\ answer = NoAnswer
    /\ \E found \in Limited(limit, CandidatesOf(site)) :
           answer' = [tool |-> "sql_query", site |-> site, rows |-> found.rows, truncated |-> found.truncated]
    /\ UNCHANGED <<program, answers, stage, tu, walkVars, symbolVars, payloads, merged, agg, rows>>

\* find_address_takes returns bare rows, and cuts off without a word what the
\* limit, which has no cap, does not allow.  The limit is the client's own, or
\* the one the tool's description gives.
FindAddressTakes(site, limit) ==
    /\ stage = "serve" /\ answer = NoAnswer
    /\ LET max == IF limit = 0 THEN ListRows ELSE limit
       IN \E r \in Cut(max, CandidatesOf(site)) :
              answer' = [tool |-> "find_address_takes", site |-> site, rows |-> r, limit |-> max]
    /\ UNCHANGED <<program, answers, stage, tu, walkVars, symbolVars, payloads, merged, agg, rows>>

Next == \/ VisitRoot \/ VisitChild \/ Leave \/ WalkEnds
        \/ DocSymbolUnknown \/ DocSymbol \/ TUEnds
        \/ (\E k \in TUs : AddPayload(k)) \/ WriteIndexWithFacts
        \/ (\E limit \in Limits : \E site \in rows.sites :
                SQLQuery(site, limit) \/ FindAddressTakes(site, limit))

Spec == Init /\ [][Next]_vars

-----------------------------------------------------------------------------
(* Properties                                                              *)

AllTakes == ToSet(takes) \cup UNION {ToSet(p.takes) : p \in ToSet(payloads)}
AllSites == ToSet(sites) \cup UNION {ToSet(p.sites) : p \in ToSet(payloads)}

\* The last node above the end of a path that is of one of some kinds, counted
\* from the root, which is 1: 0 if there is none.
Nearest(k, path, kinds) ==
    Max({0} \cup {n \in 1 .. Len(path) : NodesOn(program, k, path)[n - 1].kind \in kinds})

\* What a take says of the call or the assignment it is in.
ContextOf(t) ==
    LET k == t.at[1]  path == t.at[2]
        n == Nearest(k, path, {"Call", "BinaryOperator"})
        node == NodesOn(program, k, path)[n - 1]
        callee == InspectCallee(node.children[1])
    IN /\ t.context[1] = "arg_to" =>
              /\ n # 0 /\ node.kind = "Call" /\ path[n] >= 2
              /\ t.context[2] = IF callee = <<>> THEN "<call>" ELSE callee[2]
       /\ (n # 0 /\ node.kind = "BinaryOperator" /\ node.detail = "=" /\ path[n] = 2
          /\ Nearest(k, path, {"InitList", "DesignatedInit", "Return", "Var"}) < n) =>
              t.context = InspectLHS(node.children[1])

\* Safety: what a take says of the call or assignment it is in is said of the
\* nearest one, whatever calls and assignments are nested in it or around it:
\* the hint a frame was given by its first child is never another frame's
\* (visit, indirect.go:207-218).
ContextIsNearest == \A t \in AllTakes : ContextOf(t)

Recorded(facts, k, path) == \E fact \in facts : fact.at = <<k, path>>

Once(seq) == \A i, j \in DOMAIN seq : i # j => seq[i].at # seq[j].at

\* The facts of a TU say of the node at the end of a path what it uses.
AccountedFor(path) ==
    LET nodes == NodesOn(program, tu, path)
        ref == nodes[Len(path)]
        n   == Nearest(tu, path, {"Call"})
        f   == Nearest(tu, path, {"Function"})
    IN (/\ ReferencesFunction(ref) /\ ref.detail \in answers
        /\ f # 0 /\ FunctionUSR(tu, nodes[f - 1].detail) # {})
       => \/ Recorded(ToSet(takes), tu, path)
          \/ /\ n # 0 /\ path[n] = 1
             /\ \/ InspectCallee(nodes[n]) # <<>>
                \/ Recorded(ToSet(sites), tu, SubSeq(path, 1, n - 1))

\* Safety: no use of a function is lost, and none is recorded twice in one
\* walk of a TU (schema.go:58, 84: one row per location).  Every reference, in a function
\* clangd knows, to a function it knows is an address take, or is what a call
\* names, or sits in the callee expression of a call that is recorded as
\* indirect (classifyAddressTake and handleCall take opposite sides of the
\* same call).
NoReferenceLost ==
    (stage = "symbols" /\ doc = 1) =>
        Once(takes) /\ Once(sites) /\ \A path \in Paths(program, tu) : AccountedFor(path)

\* The caller of a site is the innermost function known above it.
CallerOf(s) ==
    LET k == s.at[1]  path == s.at[2]
        nodes == NodesOn(program, k, path)
    IN \E n \in 1 .. Len(path) : /\ KnownFunction(k, nodes[n - 1]) = {s.caller}
                                /\ \A m \in n + 1 .. Len(path) : KnownFunction(k, nodes[m - 1]) = {}

\* Safety: an indirect call is attributed to the innermost function around it
\* that clangd knows, never to one the walker has left (enclosingFnUSR); of
\* several functions of one name that is the first in the file.
CallerIsInnermost == \A s \in AllSites : CallerOf(s)

Serving == stage = "serve"
\* Safety: no fact is dropped for want of a symbol, whichever payload was merged
\* first: extractTU makes a symbol of every callee, in whichever file it is
\* defined, so that every edge has its endpoints, and a fact of one TU about a
\* function that is a symbol of any TU is in the database (addPayload;
\* WriteIndexWithFacts, store.go:246-251).
FactsMeetSymbols ==
    Serving =>
        /\ rows.edges = UNION {p.edges : p \in ToSet(payloads)}
        /\ \A p \in ToSet(payloads) :
              LET ids == UNION {DOMAIN q.symbols : q \in ToSet(payloads)}
              IN /\ {t \in ToSet(p.takes) : t.function \in ids} \subseteq rows.takes
                 /\ {s \in ToSet(p.sites) : s.caller \in ids} \subseteq rows.sites

Meaning(at) == Means[NodeAt(program, at[1], at[2]).type]
SiteMeaning(at) == Means[NodeAt(program, at[1], Append(at[2], 1)).type]

\* What lets a client take an answer for complete: sql_query says whether rows
\* are missing; of find_address_takes only an answer shorter than its limit is
\* known to be (one as long may be cut, and does not say so).
TakenForComplete ==
    \/ answer.tool = "sql_query" /\ ~answer.truncated
    \/ answer.tool = "find_address_takes" /\ Cardinality(answer.rows) < answer.limit

\* Safety: an answer to the join recipe that sql_query does not call truncated,
\* and one of find_address_takes that is shorter than its limit, has every
\* function that is passed as an argument and can be what the site calls
\* (schema.go:111-112: "sound-but-noisy"; mcp.go:205: "true if max_rows was
\* hit").  Nothing is claimed of a list answer as long as its limit.
JoinFindsCallbacks ==
    TakenForComplete =>
        \A t \in rows.takes :
            (t.context[1] = "arg_to" /\ Meaning(t.at) = SiteMeaning(answer.site.at)) => t \in answer.rows

\* The canonical form of types brings a function and the calls that mean it
\* together, in one program: what the join needs of canonicalizeType.
TypesJoin(p) ==
    LET nodes == UNION {NodesIn(p, k) : k \in DOMAIN p}
        types == SharedTypedefs(p)
    IN \A ref, call \in nodes :
        (/\ ReferencesFunction(ref) /\ call.kind = "Call" /\ call.children # <<>>
         /\ InspectCallee(call.children[1]) = <<>> /\ Means[ref.type] = Means[call.children[1].type])
        => \A a \in CanonicalTypes(NormalizeFnPtrType(ref.type), types) :
           \A b \in CanonicalTypes(call.children[1].type, types) : a = b

-----------------------------------------------------------------------------
(* The inductive invariant                                                 *)

Indexing == stage \in {"walk", "symbols"}
IsFrame(r) == r \in [node : Nodes, child : Nat, hint : {r.hint}, outer : answers \cup {NoFunction}, next : Nat \ {0}]

WalkTypes ==
    /\ program \in Programs /\ answers \subseteq Functions /\ enclosing \in answers \cup {NoFunction}
    /\ stage \in {"walk", "symbols", "merge", "write", "serve"} /\ tu \in Nat \ {0}
    /\ stack \in Seq(ToSet(stack)) /\ \A r \in ToSet(stack) : IsFrame(r)
    /\ takes \in Seq(ToSet(takes)) /\ sites \in Seq(ToSet(sites))
    /\ payloads \in Seq(ToSet(payloads))

\* How far the TUs have come; the walker is new for each.
StageInv ==
    /\ Indexing => tu \in 1 .. Len(program) /\ Len(payloads) = tu - 1
    /\ ~Indexing => Len(payloads) = Len(program) /\ stack = <<>>
    /\ stage = "symbols" => Len(stack) = 1 /\ Top.next > Len(Top.node.children)
    /\ stack = <<>> => enclosing = NoFunction /\ takes = <<>> /\ sites = <<>>

\* The stack is a path from the root, and a frame has its hint once its first
\* child has been left.
StackInv ==
    \A i \in DOMAIN stack :
        /\ i = 1 => stack[i].node = program[tu].ast
        /\ i > 1 => LET parent == stack[i - 1]
                    IN /\ stack[i].child = parent.next /\ parent.next <= Len(parent.node.children)
                       /\ stack[i].node = parent.node.children[parent.next]
        /\ stack[i].next > 1 => stack[i].hint = Hint(stack[i].node, stack[i].node.children[1])

\* f is the innermost function known of the first frames, NoFunction if there is none.
Encloses(frames, n, f) ==
    \/ f = NoFunction /\ \A i \in 1 .. n : KnownFunction(tu, frames[i].node) = {}
    \/ \E i \in 1 .. n : /\ KnownFunction(tu, frames[i].node) = {f}
                        /\ \A j \in i + 1 .. n : KnownFunction(tu, frames[j].node) = {}
EnclosingInv ==
    /\ Encloses(stack, Len(stack), enclosing)
    /\ \A i \in DOMAIN stack : Encloses(stack, i - 1, stack[i].outer)

\* What the walker has entered: the nodes on its stack, and what is left of them.
Visited(path) ==
    \E m \in DOMAIN stack :
        /\ Len(path) >= m - 1 /\ \A j \in 1 .. m - 1 : path[j] = stack[j + 1].child
        /\ Len(path) = m - 1 \/ path[m] < stack[m].next
Placed(facts) ==
    Once(facts) /\ \A fact \in ToSet(facts) :
        /\ fact.at = <<tu, fact.at[2]>> /\ fact.at[2] \in Seq(Nat) /\ Visited(fact.at[2])
VisitedInv ==
    /\ Placed(takes) /\ Placed(sites)
    /\ Indexing => \A path \in Paths(program, tu) : Visited(path) => AccountedFor(path)

\* A call on the stack that names no function is recorded, in a known function.
CallsInv ==
    \A n \in DOMAIN stack :
        LET node == stack[n].node
        IN (/\ node.kind = "Call" /\ node.children # <<>> /\ InspectCallee(node.children[1]) = <<>>
            /\ \E i \in 1 .. n : KnownFunction(tu, stack[i].node) # {})
           => Recorded(ToSet(sites), tu, SubSeq(Path(stack), 1, n - 1))

\* A TU makes symbols of the ends of its edges, and the merge adds up what it
\* has merged.
MergeInv ==
    /\ edges \subseteq (DOMAIN symbols) \X (DOMAIN symbols)
    /\ \A p \in ToSet(payloads) : p.edges \subseteq (DOMAIN p.symbols) \X (DOMAIN p.symbols)
    /\ merged \subseteq DOMAIN payloads /\ (Indexing => merged = {})
    /\ stage \in {"write", "serve"} => merged = DOMAIN payloads
    /\ DOMAIN agg.symbols = UNION {DOMAIN payloads[k].symbols : k \in merged}
    /\ agg.edges = UNION {payloads[k].edges : k \in merged}
    /\ agg.takes = UNION {ToSet(payloads[k].takes) : k \in merged}
    /\ agg.sites = UNION {ToSet(payloads[k].sites) : k \in merged}
    /\ Serving => /\ rows.edges = agg.edges
                  /\ rows.takes = {t \in agg.takes : t.function \in DOMAIN agg.symbols}
                  /\ rows.sites = {s \in agg.sites : s.caller \in DOMAIN agg.symbols}

\* The whole inductive invariant.
IInv == /\ WalkTypes /\ StageInv /\ StackInv /\ EnclosingInv /\ VisitedInv /\ CallsInv
        /\ ContextIsNearest /\ CallerIsInnermost /\ MergeInv

\* The type of a take, of a site, is a canonical form of that of its node.
TakenAs(t) ==
    LET k == t.at[1]  path == t.at[2]  ref == NodeAt(program, k, path)
    IN /\ k \in TUs /\ path \in Paths(program, k) /\ ReferencesFunction(ref)
       /\ t.type \in CanonicalTypes(NormalizeFnPtrType(ref.type), SharedTypedefs(program))
CalledAs(s) ==
    LET k == s.at[1]  path == s.at[2]  call == NodeAt(program, k, path)
    IN /\ k \in TUs /\ path \in Paths(program, k)
       /\ call.kind = "Call" /\ call.children # <<>> /\ InspectCallee(call.children[1]) = <<>>
       /\ s.type \in CanonicalTypes(call.children[1].type, SharedTypedefs(program))

\* The walker learns of no typedef that it does not have, so that all types
\* are made canonical alike; takes are finite in number.
TypesInv ==
    /\ Indexing => typedefs = SharedTypedefs(program)
    /\ \A p \in ToSet(payloads) : IsFiniteSet(ToSet(p.takes))
    /\ (\A t \in AllTakes : TakenAs(t)) /\ \A s \in AllSites : CalledAs(s)

\* Only what is served is asked for, and an answer that can be taken for
\* complete has all candidates.
AnswerInv ==
    /\ ~Serving => answer = NoAnswer
    /\ answer # NoAnswer => answer.site \in rows.sites
    /\ TakenForComplete => answer.rows = CandidatesOf(answer.site)

\* The invariant of the join, which rests on IInv.
JoinInv == TypesInv /\ AnswerInv

=============================================================================
