---------------------------- MODULE MCSetupWalk -----------------------------
\* Two processes and two servers: a walk beside the detectors it is made of, or two detectors.
EXTENDS SetupWalk, TLC

\* Processes and servers are interchangeable.
Interchangeable == Permutations(Walks) \cup Permutations(Servers)

\* In its own steps, or between a step of the MCP detector it runs.
WholeWalk(w) == passed[w] \/ step[w] \in {"prerequisites", "ping", "summary"}

\* Bound: nothing runs beside a whole walk but changes of jf config and of the files; what two
\* processes do to one file is explored with two detectors.
WalkAlone == \A v, w \in Walks : WholeWalk(v) /\ v # w => step[w] = "idle"
=============================================================================
