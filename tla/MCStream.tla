------------------------------ MODULE MCStream ------------------------------
(* Messages that follow each other and that turn the dialogue around, from    *)
(* either end; one is empty, and one does not fit into the buffer.           *)
EXTENDS Stream

Sent(from, length) == [from |-> from, length |-> length]
MCDialogue ==
    <<Sent(Client, 2), Sent(Client, 0), Sent(Server, 4), Sent(Server, 1),
      Sent(Client, 3), Sent(Server, 2)>>

\* The server's is the larger.
MCBufferSize == [e \in End |-> IF e = Server THEN 4 ELSE 3]

\* As small as it may be.
MCJunkLength ==
    [letter \in 2 .. AckSize |-> [i \in 0 .. NumMessages |->
        AckSize - letter + 2 + IF i = 0 THEN 4 ELSE Dialogue[i].length]]

=============================================================================
