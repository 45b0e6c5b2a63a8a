----------------------------- MODULE Reconciler -----------------------------
(***************************************************************************)
(* What the WireGuard manager promises of its three copies of a tunnel     *)
(* when one request runs at a time.  The database says what is wanted;     *)
(* the conf file and the kernel follow it in steps that each happen at one *)
(* instant, whatever statements and commands the code needs for them, and  *)
(* that may be left out or come late, but never apply anything older than  *)
(* what the database says at that instant.  Only "wg-quick up" trusts the  *)
(* file instead.                                                           *)
(***************************************************************************)
CONSTANTS
    Ifaces,  \* interface names
    None     \* absence

VARIABLES
    want,    \* per interface: None, or the configuration the tables call for
    on,      \* the interfaces that are enabled
    file,    \* per interface: None, or the configuration in the conf file
    kernel   \* per interface: None, or the device

vars == <<want, on, file, kernel>>

Up(c) == [key |-> c.key, port |-> c.port, link |-> c.link, peers |-> c.peers, up |-> TRUE]

Init == /\ want = [i \in Ifaces |-> None] /\ on = {}
        /\ \A i \in Ifaces : kernel[i] # None => file[i] # None /\ kernel[i] = Up(file[i])

Down(i) == kernel[i] = None \/ ~kernel[i].up

\* The user changes what is wanted of one interface, which is switched off only
\* when its device is down.
Edit(i) == /\ want' = [want EXCEPT ![i] = want'[i]]
           /\ on' \in {on \cup {i}, on \ {i}}
           /\ (want'[i] # None /\ i \notin on') => want[i] # None /\ (i \in on => Down(i))
           /\ UNCHANGED <<file, kernel>>

\* The device takes the key, the port and exactly the peers that are wanted.
Apply(i) == /\ i \in on /\ kernel[i] # None
            /\ LET c == want[i]
               IN kernel' = [kernel EXCEPT ![i] =
                    [key |-> c.key, port |-> c.port, link |-> kernel[i].link,
                     peers |-> c.peers, up |-> kernel[i].up]]
            /\ UNCHANGED <<want, on, file>>

\* The file takes what is wanted.
Save(i) == /\ i \in on
           /\ file' = [file EXCEPT ![i] = want[i]]
           /\ UNCHANGED <<want, on, kernel>>

\* wg-quick raises what the file says, and takes a device away.
Raise(i) == /\ kernel[i] = None /\ file[i] # None
            /\ kernel' = [kernel EXCEPT ![i] = Up(file[i])]
            /\ UNCHANGED <<want, on, file>>

Remove(i) == /\ kernel' = [kernel EXCEPT ![i] = None]
             /\ UNCHANGED <<want, on, file>>

Lower(i) == /\ kernel[i] # None
            /\ kernel' = [kernel EXCEPT ![i] = [kernel[i] EXCEPT !.up = FALSE]]
            /\ UNCHANGED <<want, on, file>>

Reboot == /\ kernel' = [i \in Ifaces |-> None]
          /\ UNCHANGED <<want, on, file>>

Next == \/ \E i \in Ifaces : \/ Edit(i) \/ Apply(i) \/ Save(i)
                             \/ Raise(i) \/ Remove(i) \/ Lower(i)
        \/ Reboot

Spec == Init /\ [][Next]_vars
=============================================================================
