---------------------------- MODULE FileContract ----------------------------
(* What file_system.h promises a caller, whatever the system answers and on  *)
(* either backend: a transfer moves the next bytes of its own region, once;  *)
(* it is successful when all have moved; and a read that returns fewer has   *)
(* met the end of the file.                                                  *)
EXTENDS Integers, Sequences

CONSTANTS Clients, Zero

VARIABLES
  file,   \* the bytes of the file
  job     \* what each client has asked for

NoJob == [kind |-> "none"]

Active(w) == job[w].kind # "none" /\ job[w].ret.tag = "running"

Init ==
  /\ file \in Seq({Zero} \cup (Clients \X Nat))
  /\ job = [w \in Clients |-> NoJob]

\* A new job: nothing has moved.
Ask(w) ==
  /\ job[w] = NoJob
  /\ job'[w].kind \in {"read", "write"}
  /\ job'[w].done = 0 /\ job'[w].ret.tag = "running"
  /\ job' = [job EXCEPT ![w] = job'[w]]
  /\ UNCHANGED file

EndsAt(f, i) == Len(f) <= i

\* The bytes i+1 .. i+k of the file are those of the job's memory.
Moved(f, j, k) ==
  \A i \in 1 .. k : j.at + j.done + i \in DOMAIN f
                    /\ f[j.at + j.done + i] = j.mem[j.done + i]

\* The same file but for those bytes, and zeros before them if it was shorter.
OnlyThere(j, k) ==
  /\ Len(file') >= Len(file)
  /\ \A i \in DOMAIN file' \ (j.at + j.done + 1 .. j.at + j.done + k) :
       file'[i] = IF i <= Len(file) THEN file[i] ELSE Zero

\* The results a job may have once `done` bytes have moved.
Allowed(j, done, r) ==
  \/ r.tag \in {"running", "error"}
  \/ r.tag = "ok" /\ done = j.n
  \/ /\ r.tag = "bytes" /\ r.n = done
     /\ j.kind = "write" => done > 0
     /\ j.kind = "read" /\ j.part /\ done = 0 => EndsAt(file, j.at)
     /\ j.kind = "read" /\ ~j.part /\ done < j.n => EndsAt(file, j.at + done)
  \/ r.tag = "corrupt" /\ j.kind = "read" /\ done < j.n /\ EndsAt(file, j.at + done)

Answer(w) ==
  LET j == job[w] IN
  /\ Active(w)
  /\ \E k \in 0 .. j.n - j.done :
       /\ Moved(file', [job'[w] EXCEPT !.done = j.done], k)
       /\ IF j.kind = "write" THEN OnlyThere(j, k) /\ job'[w].mem = j.mem
          ELSE /\ UNCHANGED file
               /\ \A i \in 1 .. j.n :
                    i \notin j.done + 1 .. j.done + k => job'[w].mem[i] = j.mem[i]
       /\ Allowed(j, j.done + k, job'[w].ret)
       /\ job' = [job EXCEPT ![w] = [j EXCEPT !.done = j.done + k,
                                              !.mem  = job'[w].mem,
                                              !.ret  = job'[w].ret]]

Collect(w) ==
  /\ job[w] # NoJob /\ ~Active(w)
  /\ job' = [job EXCEPT ![w] = NoJob]
  /\ UNCHANGED file

\* With no job about, the file is cut, or extended with zeros.
Resize ==
  /\ \A w \in Clients : job[w] = NoJob
  /\ \A i \in DOMAIN file' : file'[i] = IF i <= Len(file) THEN file[i] ELSE Zero
  /\ UNCHANGED job

Next == Resize \/ \E w \in Clients : Ask(w) \/ Answer(w) \/ Collect(w)

Spec == Init /\ [][Next]_<<file, job>>

=============================================================================
