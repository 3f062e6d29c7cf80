------------------------------- MODULE Channel -------------------------------
(***************************************************************************)
(* What the code above NetServer and NetClient takes a connection for: the   *)
(* messages of a dialogue arrive one after the other, each whole and as it   *)
(* was sent, and a send returns once its message has arrived.  As long as    *)
(* nothing happens to the connection the dialogue goes on to its end; after  *)
(* that it may stop anywhere, and a send may return without its message      *)
(* having arrived, but what does arrive is still the next message.           *)
(***************************************************************************)
EXTENDS Naturals, Sequences

CONSTANT Messages       \* of both ends, in the order of the dialogue

VARIABLES
    delivered,          \* the messages that have arrived
    returned,           \* how many sends have returned
    trouble             \* something has happened to the connection

vars == <<delivered, returned, trouble>>

Init == delivered = <<>> /\ returned = 0 /\ trouble = FALSE

Deliver ==
    /\ Len(delivered) < Len(Messages)
    /\ Len(delivered) <= returned
    /\ delivered' = Append(delivered, Messages[Len(delivered) + 1])
    /\ UNCHANGED <<returned, trouble>>

Return ==
    /\ returned < Len(Messages)
    /\ returned < Len(delivered) \/ trouble
    /\ returned' = returned + 1
    /\ UNCHANGED <<delivered, trouble>>

Trouble ==
    /\ trouble' = TRUE
    /\ UNCHANGED <<delivered, returned>>

\* A recv may at once return an acknowledgement and cut it.
ReturnInTrouble ==
    /\ returned < Len(delivered)
    /\ returned' = returned + 1
    /\ trouble' = TRUE
    /\ UNCHANGED delivered

Next == Deliver \/ Return \/ Trouble \/ ReturnInTrouble

Spec ==
    /\ Init /\ [][Next]_vars
    /\ WF_vars(~trouble /\ Deliver)
    /\ WF_vars(~trouble /\ Return)

=============================================================================
