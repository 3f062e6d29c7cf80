------------------------------- MODULE Stream -------------------------------
(***************************************************************************)
(* one_time_send and one_time_receive of both ends of a connection           *)
(* (src/NetServer.cpp, src/NetClient.cpp) over what a socket really is: a     *)
(* stream of bytes.  A message is its length and its content; the receiver   *)
(* answers "finished".  recv returns any part of what has arrived, send may  *)
(* take any part of what it is given, and either end may stop at any point.  *)
(* The two ends walk through a dialogue they agree on; Connection is about   *)
(* the dialogue.                                                            *)
(***************************************************************************)
EXTENDS Integers, Sequences, SequencesExt, FiniteSets

CONSTANTS
    Client, Server,
    Dialogue,       \* the messages: who sends, and how many bytes
    HeaderSize,     \* sizeof(size)
    AckSize,        \* strlen("finished")
    BufferSize,     \* BUFFER_SIZE of each end: NetServer.h and NetClient.h differ
    Modulus,        \* of uint32_t
    JunkLength      \* what is read as a length that begins inside a "finished":
                    \* at which letter, and in the length of which message it
                    \* ends (0: in the letters)

End == {Client, Server}
Peer(e) == IF e = Client THEN Server ELSE Client
NumMessages == Len(Dialogue)

ASSUME DialogueAssumption ==
    /\ Client # Server
    /\ Dialogue \in Seq([from : End, length : Nat])
ASSUME SizeAssumption ==
    /\ HeaderSize \in Nat \ {0} /\ AckSize \in Nat \ {0}
    /\ BufferSize \in [End -> Nat] /\ \A e \in End : BufferSize[e] > HeaderSize
    /\ Modulus \in Nat \ {0}
    /\ \A m \in Range(Dialogue) : m.length < Modulus
\* Letters make a large number: more than what is left of the "finished" and
\* the whole next message, after it.
ASSUME JunkAssumption ==
    /\ JunkLength \in
            [2 .. AckSize -> [0 .. NumMessages -> 1 .. Modulus - 1]]
    /\ \A letter \in 2 .. AckSize, i \in 1 .. NumMessages :
        AckSize - letter + 1 + Dialogue[i].length
            < JunkLength[letter][IF letter + HeaderSize - 1 <= AckSize THEN 0 ELSE i]

Byte == [part : {"length", "content"}, of : 1 .. NumMessages, at : Nat]
            \cup [part : {"ack"}, of : {0}, at : Nat]
Bytes(part, of, size) == [i \in 1 .. size |-> [part |-> part, of |-> of, at |-> i]]
Length(i) == Bytes("length", i, HeaderSize)
Content(i) == Bytes("content", i, Dialogue[i].length)
Finished == Bytes("ack", 0, AckSize)

VARIABLES
    wire,       \* per end, the bytes that have arrived and were not taken
    pc,         \* per end, where it is
    turn,       \* per end, the message of the dialogue it is at
    size,       \* per end, size: the bytes of it still to send or to come
    message,    \* per end, the content received so far
    send_ready,
    \* History variables.
    received,   \* the messages one_time_receive returned, of both ends
    cut         \* a recv took part of a length or of an acknowledgement

vars == <<wire, pc, turn, size, message, send_ready, received, cut>>

Init ==
    /\ wire = [e \in End |-> <<>>]
    /\ pc = [e \in End |-> "idle"]
    /\ turn = [e \in End |-> 1]
    /\ size = [e \in End |-> 0]
    /\ message = [e \in End |-> <<>>]
    /\ send_ready = [e \in End |-> TRUE]
    /\ received = <<>>
    /\ cut = FALSE

Set(f, e, v) == [f EXCEPT ![e] = v]
Gone(e) == pc[e] \in {"left", "crashed", "closed"}

\* send: what is sent to an end that is gone is lost.
Put(e, bytes) ==
    wire' = IF Gone(Peer(e)) THEN wire
            ELSE [wire EXCEPT ![Peer(e)] = @ \o bytes]

\* recv: at least a byte, at most max.
Chunks(e, max) ==
    {SubSeq(wire[e], 1, k) : k \in 1 .. Min({max, Len(wire[e])})}
Taken(e, chunk) ==
    Set(wire, e, SubSeq(wire[e], Len(chunk) + 1, Len(wire[e])))
NothingComes(e) == wire[e] = <<>> /\ Gone(Peer(e))

\* The chunk ends inside a length or an acknowledgement.
Cuts(chunk) ==
    LET last == Last(chunk) IN
    \/ last.part = "length" /\ last.at < HeaderSize
    \/ last.part = "ack" /\ last.at < AckSize

\* An end that is gone reads nothing any more.
Ends(e, how) ==
    /\ pc' = Set(pc, e, how)
    /\ wire' = Set(wire, e, <<>>)
    /\ size' = Set(size, e, 0)
    /\ message' = Set(message, e, <<>>)
    /\ UNCHANGED <<turn, send_ready, received>>

-----------------------------------------------------------------------------
(***************************************************************************)
(* one_time_send                                                            *)
(***************************************************************************)
ToSend(e) ==
    pc[e] = "idle" /\ turn[e] <= NumMessages /\ Dialogue[turn[e]].from = e

\* The return of a send, whatever became of its message.
Returns(e) ==
    /\ pc' = Set(pc, e, "idle")
    /\ turn' = Set(turn, e, turn[e] + 1)

SendLength(e) ==
    /\ ToSend(e) /\ send_ready[e]
    /\ Put(e, Length(turn[e]))
    /\ size' = Set(size, e, Dialogue[turn[e]].length)
    /\ pc' = Set(pc, e, "sending")
    /\ UNCHANGED <<turn, message, send_ready, received, cut>>

\* Mutant of SendContent: send is given the whole length again.
SendContentAgain(e) ==
    /\ pc[e] = "sending" /\ size[e] > 0
    /\ \E k \in 1 .. Dialogue[turn[e]].length :
        /\ Put(e, SubSeq(Content(turn[e]), 1, k))
        /\ size' = Set(size, e, size[e] - k)
    /\ UNCHANGED <<pc, turn, message, send_ready, received, cut>>

SendContent(e) ==
    /\ pc[e] = "sending" /\ size[e] > 0
    /\ \E k \in 1 .. size[e] :
        LET sended == Dialogue[turn[e]].length - size[e] IN
        /\ Put(e, SubSeq(Content(turn[e]), sended + 1, sended + k))
        /\ size' = Set(size, e, size[e] - k)
    /\ UNCHANGED <<pc, turn, message, send_ready, received, cut>>

\* send fails: one_time_send returns, and send_ready is still true.
SendFails(e) ==
    /\ pc[e] = "sending" /\ size[e] > 0 /\ Gone(Peer(e))
    /\ size' = Set(size, e, 0)
    /\ Returns(e)
    /\ UNCHANGED <<wire, message, send_ready, received, cut>>

\* SIGPIPE
SendKills(e) ==
    /\ pc[e] = "sending" /\ Gone(Peer(e))
    /\ Ends(e, "crashed")
    /\ UNCHANGED cut

SendDone(e) ==
    /\ pc[e] = "sending" /\ size[e] = 0
    /\ send_ready' = Set(send_ready, e, FALSE)
    /\ pc' = Set(pc, e, "ack")
    /\ UNCHANGED <<wire, turn, size, message, received, cut>>

\* One recv for the acknowledgement, which decides about send_ready.
AwaitAck(e) ==
    /\ pc[e] = "ack"
    /\ \E chunk \in Chunks(e, AckSize) :
        /\ wire' = Taken(e, chunk)
        /\ send_ready' = Set(send_ready, e, chunk = Finished)
        /\ cut' = (cut \/ Cuts(chunk))
    /\ Returns(e)
    /\ UNCHANGED <<size, message, received>>

AwaitAckClosed(e) ==
    /\ pc[e] = "ack" /\ NothingComes(e)
    /\ Returns(e)
    /\ UNCHANGED <<wire, size, message, send_ready, received, cut>>

\* Another recv if the last one did not get it.  It does not clear the buffer
\* first, but the rest of an acknowledgement does not begin like one.
SendNotReady(e) ==
    /\ ToSend(e) /\ ~send_ready[e]
    /\ \/ \E chunk \in Chunks(e, AckSize) :
            /\ wire' = Taken(e, chunk)
            /\ send_ready' = Set(send_ready, e, chunk = Finished)
            /\ cut' = (cut \/ Cuts(chunk))
            /\ pc' = IF chunk = Finished THEN pc ELSE Set(pc, e, "spin")
       \/ /\ NothingComes(e)
          /\ pc' = Set(pc, e, "spin")
          /\ UNCHANGED <<wire, send_ready, cut>>
    /\ UNCHANGED <<turn, size, message, received>>

-----------------------------------------------------------------------------
(***************************************************************************)
(* one_time_receive                                                         *)
(***************************************************************************)
ToReceive(e) ==
    pc[e] = "idle" /\ turn[e] <= NumMessages /\ Dialogue[turn[e]].from # e

\* What the first bytes of the buffer are as a length.
LengthIn(chunk) ==
    LET i == chunk[1].of IN
    IF SubSeq(chunk, 1, HeaderSize) = Length(i) THEN Dialogue[i].length
    ELSE JunkLength[chunk[1].at][chunk[HeaderSize].of]

\* The loop is left when size is 0, and only then.
Receiving(e, left, content) ==
    /\ size' = Set(size, e, left % Modulus)
    /\ message' = Set(message, e, content)
    /\ pc' = Set(pc, e, IF left % Modulus = 0 THEN "finish" ELSE "receiving")

\* Mutant of ReceiveFirst: the length counts as content.
ReceiveFirstWithLength(e) ==
    /\ ToReceive(e)
    /\ \E chunk \in Chunks(e, BufferSize[e]) :
        /\ Len(chunk) >= HeaderSize
        /\ wire' = Taken(e, chunk)
        /\ cut' = (cut \/ Cuts(chunk))
        /\ Receiving(e, LengthIn(chunk) - Len(chunk),
                     SubSeq(chunk, HeaderSize + 1, Len(chunk)))
    /\ UNCHANGED <<turn, send_ready, received>>

\* The first recv: the length, and whatever comes with it.
ReceiveFirst(e) ==
    /\ ToReceive(e)
    /\ \E chunk \in Chunks(e, BufferSize[e]) :
        /\ Len(chunk) >= HeaderSize
        /\ wire' = Taken(e, chunk)
        /\ cut' = (cut \/ Cuts(chunk))
        /\ Receiving(e, LengthIn(chunk) - (Len(chunk) - HeaderSize),
                     SubSeq(chunk, HeaderSize + 1, Len(chunk)))
    /\ UNCHANGED <<turn, send_ready, received>>

\* With less than the length, recv_bytes - sizeof(size) is a size_t below
\* zero, and no string is that long.
ReceiveTooShort(e) ==
    /\ ToReceive(e)
    /\ \E chunk \in Chunks(e, HeaderSize - 1) : cut' = (cut \/ Cuts(chunk))
    /\ Ends(e, "crashed")

\* recv returns 0, which only the server looks at, or -1, which is
\* 4294967295 bytes.
ReceiveClosed(e) ==
    /\ ToReceive(e) /\ NothingComes(e)
    /\ \/ e = Server /\ Ends(e, "closed")
       \/ Ends(e, "crashed")
    /\ UNCHANGED cut

ReceiveChunk(e) ==
    /\ pc[e] = "receiving"
    /\ \E chunk \in Chunks(e, BufferSize[e]) :
        /\ wire' = Taken(e, chunk)
        /\ Receiving(e, size[e] - Len(chunk), message[e] \o chunk)
    /\ UNCHANGED <<turn, send_ready, received, cut>>

\* The same inside a message: 0 bytes bring size no nearer to 0, for good.
ReceiveChunkClosed(e) ==
    /\ pc[e] = "receiving" /\ NothingComes(e)
    /\ \/ /\ pc' = Set(pc, e, "loop")
          /\ UNCHANGED <<wire, turn, size, message, send_ready, received>>
       \/ Ends(e, "crashed")
    /\ UNCHANGED cut

SendFinished(e) ==
    /\ pc[e] = "finish"
    /\ Put(e, Finished)
    /\ received' = Append(received, message[e])
    /\ message' = Set(message, e, <<>>)
    /\ Returns(e)
    /\ UNCHANGED <<size, send_ready, cut>>

-----------------------------------------------------------------------------

\* An end is stopped.  What it has sent may still arrive, or be dropped.
Leave(e) ==
    /\ ~Gone(e)
    /\ pc' = Set(pc, e, "left")
    /\ \/ wire' = Set(wire, e, <<>>)
       \/ wire' = [x \in End |-> <<>>]
    /\ size' = Set(size, e, 0)
    /\ message' = Set(message, e, <<>>)
    /\ UNCHANGED <<turn, send_ready, received, cut>>

Step(e) ==
    \/ SendLength(e)
    \/ SendContent(e)
    \/ SendFails(e)
    \/ SendKills(e)
    \/ SendDone(e)
    \/ AwaitAck(e)
    \/ AwaitAckClosed(e)
    \/ SendNotReady(e)
    \/ ReceiveFirst(e)
    \/ ReceiveTooShort(e)
    \/ ReceiveClosed(e)
    \/ ReceiveChunk(e)
    \/ ReceiveChunkClosed(e)
    \/ SendFinished(e)

Next == \E e \in End : Step(e) \/ Leave(e)

Spec == Init /\ [][Next]_vars /\ \A e \in End : WF_vars(Step(e))

-----------------------------------------------------------------------------
(***************************************************************************)
(* Properties                                                               *)
(***************************************************************************)

StreamTypeOK ==
    /\ wire \in [End -> Seq(Byte)]
    /\ pc \in [End -> {"idle", "sending", "ack", "spin", "receiving", "finish",
                       "loop", "left", "crashed", "closed"}]
    /\ turn \in [End -> 1 .. NumMessages + 1]
    /\ size \in [End -> 0 .. Modulus - 1]
    /\ message \in [End -> Seq(Byte)]
    /\ send_ready \in [End -> BOOLEAN]
    /\ received \in Seq(Seq(Byte)) /\ Len(received) <= NumMessages
    /\ cut \in BOOLEAN

\* The two functions make a Channel of the stream, but for two events: a recv
\* that ends inside a length or an acknowledgement, and an end that stops.
\* Without them the dialogue comes to its end; with them it may stop, but no
\* one_time_receive ever returns anything but the next message, whole.
AChannel == INSTANCE Channel WITH
    Messages <- [i \in 1 .. NumMessages |-> Content(i)],
    delivered <- received,
    returned <- Cardinality({i \in 1 .. NumMessages :
                                turn[Dialogue[i].from] > i}),
    trouble <- cut \/ \E e \in End : pc[e] = "left"

ImplementsChannel == AChannel!Spec

=============================================================================
