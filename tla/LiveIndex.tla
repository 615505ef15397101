----------------------------- MODULE LiveIndex -----------------------------
(***************************************************************************)
(* What clangd-mcp-daemon promises about the index it serves, without any  *)
(* of the machinery (README.md, "clangd-mcp-daemon"): the served index is  *)
(* that of one version of compile_commands.json, the version never goes    *)
(* back, and it never runs ahead of the file.                              *)
(***************************************************************************)
EXTENDS Naturals

VARIABLES latest,   \* newest version of compile_commands.json
          served    \* version whose index is served; 0 is the seeded index

liveVars == <<latest, served>>

TypeOK == latest \in Nat /\ served \in Nat

Init == latest = 1 /\ served = 0

\* The build system regenerates compile_commands.json.
Change == latest' = latest + 1 /\ UNCHANGED served

\* A rebuild publishes the index of some version not older than the served
\* one.  Which one is left open: changes are coalesced.
Publish == /\ served' \in served .. latest
           /\ UNCHANGED latest

Next == Change \/ Publish

Spec == Init /\ [][Next]_liveVars

=============================================================================
