---------------------------- MODULE SmtpRegister ----------------------------
(***************************************************************************)
(* What the SMTP settings promise to whoever sends mail: they behave like  *)
(* one register, although the code keeps them as six rows.  While a        *)
(* request changes them, and after one that failed or met another, nothing *)
(* is promised (Torn).                                                     *)
(***************************************************************************)
CONSTANTS
    Senders,   \* goroutines that send mail
    Settings,  \* complete settings
    Off,       \* mail is not configured
    Torn       \* nothing is promised

VARIABLES
    agreed,    \* what a mail is sent with
    view,      \* per sender: the settings it must use
    sent       \* per sender: the settings of its latest mail

vars == <<agreed, view, sent>>

Init == /\ agreed \in Settings \cup {Off}
        /\ view = [p \in Senders |-> Torn]
        /\ sent = [p \in Senders |-> Off]

\* A change begins: whoever is about to send may use the old settings, the new
\* ones or a mixture.
Disturb == /\ agreed' = Torn
           /\ view' = [p \in Senders |-> Torn]
           /\ UNCHANGED sent

\* It is complete.
Commit == /\ agreed = Torn
          /\ agreed' \in Settings \cup {Off}
          /\ UNCHANGED <<view, sent>>

\* A sender starts to read the settings, or one of its reads fails.
Begin(p) == /\ view' = [view EXCEPT ![p] = agreed]
            /\ UNCHANGED <<agreed, sent>>

Blur(p) == /\ view' = [view EXCEPT ![p] = Torn]
           /\ UNCHANGED <<agreed, sent>>

\* A mail goes out with the settings that were agreed when the sender began.
Deliver(p) == /\ sent'[p] \in Settings /\ view[p] \in {sent'[p], Torn}
              /\ sent' = [sent EXCEPT ![p] = sent'[p]]
              /\ UNCHANGED <<agreed, view>>

Next == \/ Disturb \/ Commit
        \/ \E p \in Senders : Begin(p) \/ Blur(p) \/ Deliver(p)

Spec == Init /\ [][Next]_vars
=============================================================================
