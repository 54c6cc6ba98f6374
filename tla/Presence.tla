------------------------------ MODULE Presence ------------------------------
(***************************************************************************)
(* What the connection registry promises about each device, whatever the   *)
(* sockets do underneath: it is online from the moment it signs in, a      *)
(* newer socket of the same device takes over unnoticed, a lost one leaves *)
(* a person reconnecting until they return or the grace ends, a bot, a     *)
(* goodbye or a kick leaves at once, and once the server shuts down        *)
(* devices only ever leave.                                                *)
(***************************************************************************)
CONSTANTS Users, Devices, UserOf, Bots

VARIABLES status,   \* the presence of each device
          leaving,  \* the devices that said goodbye
          gone,     \* the users that were removed
          up        \* the server is not shutting down

pvars == <<status, leaving, gone, up>>

DevicesOf(u) == {d \in Devices : UserOf[d] = u}

Init == /\ status = [d \in Devices |-> "offline"]
        /\ leaving = {} /\ gone = {} /\ up = TRUE

\* A device signs in, for the first time, back from a lost connection, or on a
\* socket that takes over from an older one.
SignIn(d) == /\ up
             /\ status' = [status EXCEPT ![d] = "online"]
             /\ leaving' = leaving \ {d}
             /\ UNCHANGED <<gone, up>>

Goodbye(d) == /\ up /\ status[d] = "online"
              /\ leaving' = leaving \cup {d}
              /\ UNCHANGED <<status, gone, up>>

\* A person's connection is lost without a goodbye.
Drop(d) == /\ up /\ d \notin Bots \cup leaving /\ status[d] = "online"
           /\ status' = [status EXCEPT ![d] = "reconnecting"]
           /\ UNCHANGED <<leaving, gone, up>>

\* A bot, a device that said goodbye, or any device during the shutdown.
Leave(d) == /\ d \in Bots \cup leaving \/ ~up
            /\ status[d] = "online"
            /\ status' = [status EXCEPT ![d] = "offline"]
            /\ leaving' = leaving \ {d}
            /\ UNCHANGED <<gone, up>>

\* The grace ends.
Expire(d) == /\ status[d] = "reconnecting"
             /\ status' = [status EXCEPT ![d] = "offline"]
             /\ UNCHANGED <<leaving, gone, up>>

\* A kick takes every device of the person at once, wherever it is, and once.
Remove(u) == /\ u \notin gone
             /\ gone' = gone \cup {u}
             /\ status' = [d \in Devices |-> IF d \in DevicesOf(u) THEN "offline" ELSE status[d]]
             /\ leaving' = leaving \ DevicesOf(u)
             /\ UNCHANGED up

Stop == up /\ up' = FALSE /\ UNCHANGED <<status, leaving, gone>>

\* The shutdown clears the graces that are still running.
ClearGraces == /\ ~up
               /\ status' = [d \in Devices |->
                               IF status[d] = "reconnecting" THEN "offline" ELSE status[d]]
               /\ UNCHANGED <<leaving, gone, up>>

Next == \/ \E d \in Devices : SignIn(d) \/ Goodbye(d) \/ Drop(d) \/ Leave(d) \/ Expire(d)
        \/ \E u \in Users : Remove(u)
        \/ Stop \/ ClearGraces

Spec == Init /\ [][Next]_pvars
=============================================================================
