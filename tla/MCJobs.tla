------------------------------ MODULE MCJobs ------------------------------
(***************************************************************************)
(* Instances of Jobs for TLC: a design of a module, a test module and a    *)
(* text, and designs with one data file under tests/.                      *)
(***************************************************************************)
EXTENDS Jobs

CONSTANTS j1, j2, shared

\* src/core.py, core.py, tests/test_core.py, README.md, tests/data.json
src_core == <<<<"src">>, <<"core">>>>
core == <<<<"core">>>>
test_core == <<<<"tests">>, <<"test", "core">>>>
readme == <<<<"README">>>>
fixture == <<<<"tests">>, <<"data">>>>

Files == {src_core, core, test_core, readme, fixture}
TestFiles == [f \in Files |-> f \in {test_core, fixture}]
PythonFiles == [f \in Files |-> f \in {src_core, core, test_core}]
Several == [j \in Job |-> {src_core, test_core, readme}]
OneFile == [j \in Job |-> {fixture}]

Symmetry == Permutations(Job)

OwnDir(j) == j
Dirs == Job \cup {shared}
=============================================================================
