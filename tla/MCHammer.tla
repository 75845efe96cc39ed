------------------------------ MODULE MCHammer ------------------------------
(***************************************************************************)
(* VIHammer for TLC.                                                       *)
(***************************************************************************)
EXTENDS VIHammer

CONSTANTS Readers, Writers

\* What each CPU does.
ReadersAndWriters ==
  [c \in CPUs |-> (IF c \in Readers THEN {"Load"} ELSE {}) \cup
                  (IF c \in Writers THEN {"Store"} ELSE {})]

\* Every CPU stores and flushes.
StoresAndFlushes == [c \in CPUs |-> {"Store", "Flush_line"}]

=============================================================================
