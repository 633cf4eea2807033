----------------------------- MODULE FifoChannel -----------------------------
(* What Session::Send promises its callers, with nothing of how it is done:   *)
(* messages are handed to the transport in the order in which Send accepted   *)
(* them, each at most once; a message is dropped only together with           *)
(* everything accepted before it, and the drop is remembered; nothing is      *)
(* handed to a transport that was closed.                                     *)
EXTENDS Sequences, Naturals

CONSTANT Msgs              \* the payloads callers may pass to Send

VARIABLES
    unsent,                \* accepted and not yet given to the transport
    sent,                  \* given to the transport, in order
    faulty,                \* a transmission failed
    open                   \* the transport can still take data

vars == <<unsent, sent, faulty, open>>

Init ==
    /\ unsent = <<>>
    /\ sent = <<>>
    /\ faulty = FALSE
    /\ open \in BOOLEAN

Accept(m) ==
    /\ unsent' = Append(unsent, m)
    /\ UNCHANGED <<sent, faulty, open>>

\* One gathered write takes a non-empty prefix of what is waiting.
Transmit(k) ==
    /\ open
    /\ sent' = sent \o SubSeq(unsent, 1, k)
    /\ unsent' = SubSeq(unsent, k + 1, Len(unsent))
    /\ UNCHANGED <<faulty, open>>

\* A write that fails loses the prefix it had gathered.
Lose(k) ==
    /\ faulty' = TRUE
    /\ unsent' = SubSeq(unsent, k + 1, Len(unsent))
    /\ UNCHANGED <<sent, open>>

Close ==
    /\ open' = FALSE
    /\ UNCHANGED <<unsent, sent, faulty>>

Next ==
    \/ \E m \in Msgs : Accept(m)
    \/ \E k \in 1..Len(unsent) : Transmit(k) \/ Lose(k)
    \/ Close

Spec == Init /\ [][Next]_vars
=============================================================================
