---------------------------- MODULE OrderedStream ----------------------------
(***************************************************************************)
(* What internal/delivery promises its callers, without bounds, waiting or *)
(* wake-ups: values join a log until the stream ends, and the consumer     *)
(* takes them from the log in order, until the rest is dropped.            *)
(***************************************************************************)
EXTENDS Naturals, Sequences

CONSTANT Value

VARIABLES
    log,      \* the values taken, in order
    out,      \* the values handed to the consumer, in order
    ended,    \* no value joins the log any more
    dropped   \* no value leaves it any more

streamVars == <<log, out, ended, dropped>>

Init ==
    /\ log = <<>>
    /\ out = <<>>
    /\ ended = FALSE
    /\ dropped = FALSE

\* A value joins the log, perhaps as its last.
Accept(v, last) ==
    /\ ~ended
    /\ log' = Append(log, v)
    /\ ended' = last
    /\ UNCHANGED <<out, dropped>>

\* The consumer takes the next value.
Deliver ==
    /\ ~dropped
    /\ Len(out) < Len(log)
    /\ out' = Append(out, log[Len(out) + 1])
    /\ UNCHANGED <<log, ended, dropped>>

\* The stream ends, keeping or dropping what was not delivered.
End(drop) ==
    /\ ended' = TRUE
    /\ dropped' = (dropped \/ drop)
    /\ UNCHANGED <<log, out>>

Next ==
    \/ \E v \in Value, last \in BOOLEAN : Accept(v, last)
    \/ Deliver
    \/ \E drop \in BOOLEAN : End(drop)

Spec == Init /\ [][Next]_streamVars
=============================================================================
