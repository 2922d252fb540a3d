----------------------------- MODULE MCGoLogger -----------------------------
EXTENDS GoLogger

CONSTANTS s1, s2

\* One feature service, with more logs or more faults, and two that share the
\* sink.
MCSetups ==
    {[services |-> {s1}, logs |-> 3, faults |-> 1],
     [services |-> {s1}, logs |-> 2, faults |-> 2],
     [services |-> {s1, s2}, logs |-> 2, faults |-> 0]}

=============================================================================
