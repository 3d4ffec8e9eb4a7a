--------------------------------- MODULE Acker ---------------------------------
(***************************************************************************)
(* The event listener EventPrivateReporter of libbeat/common/acker, for    *)
(* each client of a pipeline.  It turns the counts the queue acknowledges  *)
(* into the private data of the events they cover, those the processors    *)
(* dropped in between included.                                            *)
(*                                                                         *)
(* The data is one sequence, the counts are a list of gaps, and the two    *)
(* have locks of their own; the callback of ACKEvents runs after both are  *)
(* released.  Who publishes, and what the callback does with the data, is  *)
(* up to the module that extends this one.                                 *)
(***************************************************************************)
EXTENDS Integers, Sequences, SequencesExt

CONSTANT Clients

VARIABLES
    data,   \* eventDataACKer.data of each client
    gaps,   \* trackingACKer.lst of each client, from head to tail
    ack     \* the ACKEvents calls of one round of acknowledgements; the
            \* first is under way

ackerVars == <<data, gaps, ack>>

AckerInit ==
    /\ data = [c \in Clients |-> <<>>]
    /\ gaps = [c \in Clients |-> <<[send |-> 0, dropped |-> 0]>>]
    /\ ack = <<>>

(* eventDataACKer.AddEvent, before it calls the tracking listener *)
AddData(c, private) == data' = [data EXCEPT ![c] = Append(@, private)]

(* Mutant of addPublishedEvent: the count of the last gap starts over. *)
addPublishedEventAgain(c) ==
    gaps' = [gaps EXCEPT ![c] = [@ EXCEPT ![Len(@)].send = 1]]

addPublishedEvent(c) ==
    LET tail == Last(gaps[c])
    IN  gaps' = [gaps EXCEPT ![c] =
          IF tail.dropped > 0 THEN Append(@, [send |-> 1, dropped |-> 0])
          ELSE [@ EXCEPT ![Len(@)].send = tail.send + 1]]

(* With nothing sent before it, the dropped event is reported at once. *)
Untracked(c) == Last(gaps[c]).send = 0

addDropEvent(c) ==
    gaps' = IF Untracked(c) THEN gaps
            ELSE [gaps EXCEPT ![c] = [@ EXCEPT ![Len(@)].dropped = @ + 1]]

(* onACK: what is handed to the callback, and what is left. *)
Reported(c, total) == SubSeq(data[c], 1, total)

Report(c, total) == data' = [data EXCEPT ![c] = SubSeq(@, total + 1, Len(@))]

(* The call ACKEvents(n) on client c, as it starts *)
ACKEvents(c, n) == [client |-> c, left |-> n, total |-> 0, empty |-> FALSE]

(* One round of the loop, under the locks of the list and of its head. *)
ACKGap ==
    /\ ack # <<>>
    /\ LET call == Head(ack)
           current == Head(gaps[call.client])
           whole == call.left >= current.send
           last == Len(gaps[call.client]) = 1
       IN  /\ call.left > 0 /\ ~call.empty
           /\ ack' = [ack EXCEPT ![1] = [call EXCEPT
                 !.left = IF whole THEN @ - current.send ELSE 0,
                 !.total = @ + IF whole THEN current.send + current.dropped ELSE call.left,
                 !.empty = whole /\ last]]
           /\ gaps' = [gaps EXCEPT ![call.client] =
                 IF ~whole THEN [@ EXCEPT ![1].send = @ - call.left]
                 ELSE IF last THEN <<[send |-> 0, dropped |-> 0]>>
                 ELSE Tail(@)]
    /\ UNCHANGED data

(* ACKEvents has seen all gaps and is about to call back. *)
ACKCounted == ack # <<>> /\ Head(ack).left = 0

(* The queue never acknowledges more events than were added, for which     *)
(* ACKEvents would panic with "too many events acked".                     *)
NoSurplusACK == ack # <<>> /\ Head(ack).left > 0 => ~Head(ack).empty
================================================================================
