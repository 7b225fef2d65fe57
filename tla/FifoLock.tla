------------------------------ MODULE FifoLock ------------------------------
(***************************************************************************)
(* What controlQueue promises: callers stand in one line and only its head *)
(* owns the control token.  Nobody is ever put ahead of a caller already   *)
(* in line, and once the lock is shut nobody joins or comes to own it.     *)
(***************************************************************************)
EXTENDS Naturals, Sequences

CONSTANT Clients

VARIABLES line, shut

Without(s, i) == SubSeq(s, 1, i - 1) \o SubSeq(s, i + 1, Len(s))

Init == line = <<>> /\ shut = FALSE

Join(c) ==
    /\ ~shut
    /\ \A i \in 1 .. Len(line) : line[i] # c
    /\ line' = Append(line, c)
    /\ UNCHANGED shut

\* The owner releases the token, or a caller behind it gives up.
Leave(i) ==
    /\ line' = Without(line, i)
    /\ UNCHANGED shut

\* Everyone is sent away, but for an owner that was already told.
Shut ==
    /\ shut' = TRUE
    /\ \/ line' = <<>>
       \/ line # <<>> /\ line' = <<Head(line)>>

Next ==
    \/ \E c \in Clients : Join(c)
    \/ \E i \in 1 .. Len(line) : Leave(i)
    \/ Shut

Spec == Init /\ [][Next]_<<line, shut>>
=============================================================================
