----------------------------- MODULE Threading -----------------------------
(* The threads of a program (intf/os/threading.h).                           *)

CONSTANTS
  Threads,
  Nobody     \* no thread

ASSUME ThreadingAssumption == Nobody \notin Threads

=============================================================================
