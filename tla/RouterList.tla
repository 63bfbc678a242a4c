----------------------------- MODULE RouterList -----------------------------
(***************************************************************************)
(* Router with the linked list of queue.c beside the sequence q: every     *)
(* queue_enq and queue_deq of main on both.                                *)
(***************************************************************************)
EXTENDS Router, ListQueue

VARIABLE list    \* its elements are the numbers of the packets

listVars == <<vars, list>>

ListInit == Init /\ list = create_queue

ListHold(p) ==
  /\ Hold(p)
  /\ \E c \in Free(list) : list' = queue_enq(list, This, c)

ListDrainForward == DrainForward /\ list' = queue_deq(list)

\* The new cell may be the one just freed.
ListDrainRotate ==
  /\ DrainRotate
  /\ LET rest == queue_deq(list)
     IN  \E c \in Free(rest) : list' = queue_enq(rest, Head(q).id, c)

ListDrainEnd == DrainEnd /\ UNCHANGED list

ListDrain == ListDrainForward \/ ListDrainRotate \/ ListDrainEnd

OffQueue ==
  \/ \E p \in Packets : \/ Drop(p) \/ icmp_send_echo_reply(p) \/ Unreachable(p)
                        \/ TimeExceeded(p) \/ Forward(p)
  \/ \E h \in Askers : ArpRequest(h)
  \/ \E r \in Replies : ArpReply(r)

ListNext ==
  \/ \E p \in Packets : ListHold(p)
  \/ ListDrain
  \/ OffQueue /\ UNCHANGED list

ListSpec == ListInit /\ [][ListNext]_listVars /\ WF_listVars(ListDrain)

\* The list is the queue: whichever blocks malloc reuses, and although tail is left
\* pointing at a freed cell when the queue empties, the cells from head to tail
\* are those of the waiting packets in order, and no other is allocated
\* (queue.c 24-42, list.c 4-17).
QueueIsList == Holds(list, [k \in DOMAIN q |-> q[k].id])
=============================================================================
