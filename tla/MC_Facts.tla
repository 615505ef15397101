----------------------------- MODULE MC_Facts -----------------------------
(***************************************************************************)
(* Instances of Facts for TLC: programs of two files.  The first has one   *)
(* expression or initialiser out of a grammar of nested casts,             *)
(* assignments, comparisons, calls and initialisers; the second defines    *)
(* the functions it uses and calls through a pointer.                      *)
(***************************************************************************)
EXTENDS Facts

Node(kind, detail, type, children) ==
    [kind |-> kind, detail |-> detail, type |-> type, fn |-> FALSE, children |-> children]

\* Types as clang prints them.
IntFn    == <<"int", "(", "int", ")">>
IntFnPtr == <<"int", "(", "*", ")", "(", "int", ")">>
FnTPtr   == <<"fn_t", "*">>
RegFn    == <<"void", "(", "fn_t", "*", ")">>
RegFnPtr == <<"void", "(", "*", ")", "(", "fn_t", "*", ")">>
AllocFn    == <<"void", "*", "(", "int", ")">>
AllocFnPtr == <<"void", "*", "(", "*", ")", "(", "int", ")">>

GetFn      == <<"fn_t", "*", "(", "fn_t", "*", ")">>
NumFn      == <<"int", "(", "fn_t", "*", ")">>
TabT       == <<"fn_t", "*", "[", "]">>
Number        == <<"int">>

TypeOf == [f |-> IntFn, g |-> IntFn, reg |-> RegFn, get |-> GetFn, num |-> NumFn, alloc |-> AllocFn]
MeansAll == (IntFn :> "F") @@ (IntFnPtr :> "F") @@ (FnTPtr :> "F") @@ (RegFn :> "R")
            @@ (RegFnPtr :> "R") @@ (AllocFn :> "A") @@ (AllocFnPtr :> "A") @@ (GetFn :> "G") @@ (NumFn :> "N")

Ref(f) == [kind |-> "DeclRef", detail |-> f, type |-> TypeOf[f], fn |-> TRUE, children |-> <<>>]
Variable(p, type) == Node("DeclRef", p, type, <<>>)
Cast(type, e) == Node("ImplicitCast", "", type, <<e>>)
Bin(op, l, r) == Node("BinaryOperator", op, Number, <<l, r>>)
Call(callee, args) == Node("Call", "", FnTPtr, <<callee>> \o args)
Literal(n) == Node("IntegerLiteral", n, Number, <<>>)
Pointer == Cast(FnTPtr, Variable("p", FnTPtr))
Member  == Node("Member", "cb", FnTPtr, <<Variable("s", <<"struct ops", "*">>)>>)
Slot(i) == Node("ArraySubscript", "", FnTPtr, <<Cast(FnTPtr, Variable("t", TabT)), i>>)
Choice(e) == Node("ConditionalOperator", "", FnTPtr, <<Literal("1"), e, Pointer>>)

\* Expressions around e, a pointer to a function: those that are again such a
\* pointer, and others.
PointersOf(e) ==
    {Cast(IntFnPtr, e), Node("CStyleCast", "", FnTPtr, <<e>>), Choice(e),
     Bin("=", Variable("p", FnTPtr), e), Bin("=", Node("Paren", "", FnTPtr, <<Member>>), e),
     Bin("=", Slot(Literal("0")), e), Call(Cast(FnTPtr, Ref("get")), <<e>>)}
NumbersOf(e) ==
    {Bin("==", Pointer, e), Bin("&&", e, Pointer), Call(Ref("num"), <<e>>), Call(Pointer, <<e>>),
     Call(Ref("reg"), <<Ref("g"), e>>), Call(Choice(e), <<>>), Call(Slot(Bin("!=", e, Pointer)), <<>>),
     Bin("=", Slot(Node("CStyleCast", "", Number, <<e>>)), Pointer),
     Call(Call(Ref("get"), <<e>>), <<Literal("0")>>), Bin("<", Call(Ref("num"), <<e>>), Literal("0"))}

Ops == <<"const", "struct ops">>
List(e) == Node("InitList", "", <<>>, e)
Field(f, e) == Node("DesignatedInit", f, <<>>, <<e>>)
\* Statements and initialisers with e.
StatementsOf(e) ==
    {e, Node("Return", "", <<>>, <<e>>), Node("Var", "v", FnTPtr, <<e>>),
     Node("Var", "tab", TabT, <<List(<<Ref("g"), e>>)>>), Node("Var", "ops", Ops, <<List(<<Field("cb", e)>>)>>),
     Node("Var", "ops", Ops, <<List(<<Field("", e)>>)>>), Node("CompoundLiteral", "", <<>>, <<List(<<e>>)>>)}

Doc(f) == [name |-> f, usr |-> f, callable |-> TRUE]
Function(f, body) == Node("Function", f, <<>>, <<Node("Compound", "", <<>>, body)>>)
Root(children) == Node("TranslationUnit", "", <<>>, children)

\* main has the body; hook, which clangd may not know, calls through a
\* pointer; an initialiser may be at file scope.
FirstFile(body, scope) ==
    [ast |-> Root(<<Node("Typedef", "fn_t", IntFn, <<>>), Function("main", <<body>>),
                    Function("hook", <<Call(Pointer, <<>>)>>)>> \o scope),
     docs |-> <<Doc("main"), Doc("hook")>>,
     calls |-> [main |-> {"reg", "f"}, hook |-> {}]]
\* f is a document symbol twice, as a declaration and as a definition; drv is
\* overloaded, and q is a variable.
SecondFile ==
    [ast |-> Root(<<Function("f", <<>>), Function("g", <<>>),
                    Function("drv", <<Call(Ref("reg"), <<Ref("g")>>),
                                      Call(Cast(IntFnPtr, Variable("q", IntFnPtr)), <<>>),
                                      Call(Cast(RegFnPtr, Variable("r", RegFnPtr)), <<Ref("reg")>>)>>),
                    Function("drv", <<Call(Pointer, <<>>)>>)>>),
     docs |-> <<Doc("f"), Doc("g"), [Doc("q") EXCEPT !.callable = FALSE], Doc("drv"), Doc("f"),
                [Doc("drv") EXCEPT !.usr = "drv2"]>>,
     calls |-> [f |-> {}, g |-> {}, drv |-> {"reg", "main"}, drv2 |-> {}]]

Names == {"f", "g", "reg", "get", "num", "alloc", "main", "hook", "drv", "drv2", "q"}
F == Ref("f")
Bodies == StatementsOf(F) \cup NumbersOf(F) \cup UNION {StatementsOf(e) \cup NumbersOf(e) : e \in PointersOf(F)}
          \cup UNION {NumbersOf(d) : d \in UNION {PointersOf(e) : e \in PointersOf(F)}}
NestedPrograms == {<<FirstFile(body, <<>>), SecondFile>> : body \in Bodies}
                  \cup {<<FirstFile(Ref("g"), <<body>>), SecondFile>> : body \in StatementsOf(F) \cup {Field("", F)}}

NodesOf(programs) == UNION {UNION {NodesIn(p, k) : k \in DOMAIN p} : p \in programs}
NestedNodes == NodesOf(NestedPrograms)
\* What the proof of JoinFindsCallbacks takes as its hypothesis.
ASSUME NestedTypesJoin == \A p \in NestedPrograms : TypesJoin(p)

HookOrG == {{"hook"}, {"g"}}
NoneUnknown == {{}}
Header == "fn_t" :> IntFn

\* A function that returns a pointer is passed, and one is called.
AllocFile ==
    [ast |-> Root(<<Function("main", <<Call(Ref("reg"), <<Ref("alloc")>>),
                                       Call(Cast(AllocFnPtr, Variable("p", AllocFnPtr)), <<>>)>>)>>),
     docs |-> <<Doc("main"), Doc("alloc")>>,
     calls |-> [main |-> {"reg"}, alloc |-> {}]]
AllocPrograms == {<<AllocFile>>}
AllocNodes == NodesOf(AllocPrograms)

=============================================================================
