--------------------------- MODULE MCRegistryCache ---------------------------
EXTENDS RegistryCache

CONSTANTS r1, r2, w1

\* The threads of a process that can meet in the cache, two or three at a time.
MCCrews ==
    {[mode |-> "sync", threads |-> {r1, r2}, pool |-> FALSE,
      writes |-> 1],
     [mode |-> "sync", threads |-> {r1, w1}, pool |-> FALSE,
      writes |-> 2],
     [mode |-> "sync", threads |-> {r1, Server}, pool |-> FALSE,
      writes |-> 1],
     [mode |-> "sync", threads |-> {w1, Server}, pool |-> TRUE,
      writes |-> 2],
     [mode |-> "thread", threads |-> {r1, w1, Timer}, pool |-> TRUE,
      writes |-> 2]}

=============================================================================
