---------------------------- MODULE AtomicIndex ----------------------------
(***************************************************************************)
(* What the index store promises to the tool calls that read it, without   *)
(* files, handles and connections (README.md:67; store.go:151-159): a read *)
(* sees one index, the one that is served when it begins, whatever is      *)
(* published until it is done; in the life of a process the served index   *)
(* never goes back; and a read fails only because of a publication.  The   *)
(* same index may be published again (from another file).                  *)
(***************************************************************************)
EXTENDS Naturals

CONSTANTS Callers,  \* goroutines that serve tool calls
          Reads     \* how many reads a tool call may make

VARIABLES serving,    \* the index that is served: which publication, of which version
          exchanging, \* an index is being published
          calls       \* per caller: reads left, the read in progress, versions it has seen

indexVars == <<serving, exchanging>>

Nothing == [gen |-> 0, ver |-> 0]
Index   == [gen : Nat \ {0}, ver : Nat]
NoCall  == [left |-> 0, got |-> Nothing, seen |-> {}]

Init == serving = Nothing /\ exchanging = FALSE /\ calls = [c \in Callers |-> NoCall]

-----------------------------------------------------------------------------
(* The publisher                                                           *)

\* A process starts to serve some index.
Open == /\ serving = Nothing /\ serving' \in Index
        /\ UNCHANGED <<exchanging, calls>>

\* A newer index is published ...
Publish == /\ serving # Nothing /\ ~exchanging /\ exchanging' = TRUE
           /\ serving' \in Index /\ serving'.gen > serving.gen /\ serving'.ver > serving.ver
           /\ UNCHANGED calls

\* ... and then once more, from its final place.
PublishAgain == /\ exchanging /\ serving' \in Index
                /\ serving'.gen > serving.gen /\ serving'.ver = serving.ver
                /\ UNCHANGED <<exchanging, calls>>

Settle == exchanging /\ exchanging' = FALSE /\ UNCHANGED <<serving, calls>>

\* The process ends, and its calls with it.
Down == serving' = Nothing /\ exchanging' = FALSE /\ calls' = [c \in Callers |-> NoCall]

-----------------------------------------------------------------------------
(* The calls                                                               *)

Begin(c) == /\ serving # Nothing /\ calls[c].left = 0
            /\ \E n \in Reads : calls' = [calls EXCEPT ![c] = [NoCall EXCEPT !.left = n]]
            /\ UNCHANGED indexVars

\* A read sees the index that is served at this point.
Read(c) == /\ calls[c].left > 0 /\ calls[c].got = Nothing
           /\ calls' = [calls EXCEPT ![c].got = serving]
           /\ UNCHANGED indexVars

Finish(c) == /\ calls[c].got # Nothing
             /\ calls' = [calls EXCEPT ![c] = [left |-> calls[c].left - 1, got |-> Nothing,
                                               seen |-> calls[c].seen \cup {calls[c].got.ver}]]
             /\ UNCHANGED indexVars

\* An index that is served and is not being exchanged can always be read.
Fail(c) == /\ calls[c].got # Nothing /\ (exchanging \/ calls[c].got # serving)
           /\ calls' = [calls EXCEPT ![c] = [NoCall EXCEPT !.seen = calls[c].seen]]
           /\ UNCHANGED indexVars

Next == \/ Open \/ Publish \/ PublishAgain \/ Settle \/ Down
        \/ \E c \in Callers : Begin(c) \/ Read(c) \/ Finish(c) \/ Fail(c)

Spec == Init /\ [][Next]_<<serving, exchanging, calls>>

=============================================================================
