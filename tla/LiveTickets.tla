---------------------------- MODULE LiveTickets ----------------------------
(***************************************************************************)
(* What the ticket pool promises its readers: the live ticket set at any   *)
(* height of the chain that is connected, whatever the pool did to find    *)
(* it.  There is no cursor, no diff and no disk here; module TicketPool is *)
(* shown to implement this.                                                *)
(***************************************************************************)
EXTENDS Integers, Sequences

CONSTANT Tickets   \* ticket hashes

VARIABLES live,    \* live[h+1] is the live ticket set at height h
          answer   \* the last answer given to a reader

NoAnswer == [height |-> -1, tickets |-> {}]

Init == live = << {} >> /\ answer = NoAnswer

\* A block is connected: tickets mature, are called to vote, or expire.
Connect == /\ \E p \in SUBSET Tickets : live' = Append(live, p)
           /\ UNCHANGED answer

\* The best block is disconnected.
Disconnect == /\ Len(live) > 1
              /\ live' = SubSeq(live, 1, Len(live) - 1)
              /\ UNCHANGED answer

\* A reader asks for a connected height.
Ask == /\ \E h \in 0 .. Len(live) - 1 :
             answer' = [height |-> h, tickets |-> live[h + 1]]
       /\ UNCHANGED live

\* The process is restarted: nobody remembers the answer, the chain is kept.
Restart == answer' = NoAnswer /\ UNCHANGED live

Next == Connect \/ Disconnect \/ Ask \/ Restart

Spec == Init /\ [][Next]_<<live, answer>>
=============================================================================
