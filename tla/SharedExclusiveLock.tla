------------------------ MODULE SharedExclusiveLock ------------------------
(***************************************************************************)
(* What an S/X latch promises: any number of readers or one writer, and a  *)
(* writer is a reader that was promoted when it was the only one left.     *)
(***************************************************************************)
CONSTANT Threads   \* the threads that use the latch

VARIABLES
  readers,   \* the threads that hold S
  writers    \* the threads that hold X: at most one

vars == <<readers, writers>>

Init == /\ readers = {}
        /\ writers = {}

AcquireS(t) == /\ writers = {}
               /\ t \notin readers
               /\ readers' = readers \cup {t}
               /\ UNCHANGED writers

ReleaseS(t) == /\ t \in readers
               /\ readers' = readers \ {t}
               /\ UNCHANGED writers

Promote(t) == /\ writers = {}
              /\ readers = {t}
              /\ readers' = {}
              /\ writers' = {t}

ReleaseX(t) == /\ writers = {t}
               /\ writers' = {}
               /\ UNCHANGED readers

Next == \E t \in Threads : \/ AcquireS(t)
                           \/ ReleaseS(t)
                           \/ Promote(t)
                           \/ ReleaseX(t)

Spec == Init /\ [][Next]_vars

=============================================================================
