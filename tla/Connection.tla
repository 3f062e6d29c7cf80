------------------------------ MODULE Connection ------------------------------
(***************************************************************************)
(* The dialogue of a client (src/client.cpp) with its thread in the server  *)
(* (handle_connection in src/server.cpp), over one_time_send and            *)
(* one_time_receive of NetClient and NetServer.                             *)
(*                                                                         *)
(* Both sides run through the same script of messages.  After each message  *)
(* the sender waits for the eight bytes "finished".  Nothing in a message   *)
(* says what it is: a receiver takes whatever comes for what it expects,    *)
(* and a sender takes the next eight bytes for its acknowledgement.         *)
(* Connections are independent but for the global sync_ids of the server,   *)
(* into which every handle_connection copies what its client asked for.     *)
(*                                                                         *)
(* A message arrives whole: one_time_receive loops until it has it all.     *)
(***************************************************************************)
EXTENDS Integers, Sequences, SequencesExt

CONSTANTS
    Client,
    Groups,     \* number_of_groups: one message of ids for each
    EncSk,      \* ciphertexts of enc_sk (14)
    Confs,      \* the settings of sync_ids the clients may be started with
    Partings    \* sets of stages at which clients may be stopped

Stage == {"flag", "counts", "ids", "galois", "enc_sk", "id_mod", "ct", "reply"}
Side == {"client", "server"}

\* With one group the counts are as long as an acknowledgement.
ASSUME ScriptAssumption == Groups \in Nat \ {0, 1} /\ EncSk \in Nat \ {0}
ASSUME ConfAssumption == Confs \subseteq [Client -> BOOLEAN]
ASSUME PartingAssumption == Partings \subseteq SUBSET Stage

VARIABLES
    wants,      \* sync_ids in each client.conf
    leave_at,   \* the stages at which clients are stopped in this behaviour
    sync_ids,   \* the global of the server
    stage,      \* where each side is in the script
    left,       \* messages of the stage still to come, this one included
    io,         \* "off", "run", "ack" (waiting for one), "spin" (in the while)
    send_ready, \* of ConnData and of NetClient
    net,        \* net[e][c]: on its way to side e
    up          \* the server process runs

conf == <<wants, leave_at>>
vars == <<conf, sync_ids, stage, left, io, send_ready, net, up>>

Other(e) == IF e = "server" THEN "client" ELSE "server"

FromServer == {"counts", "ids", "reply"}
Sends(e) == IF e = "server" THEN FromServer ELSE Stage \ FromServer

Times(st) ==
    CASE st = "ids" -> Groups
      [] st = "enc_sk" -> EncSk
      [] st = "ct" -> 2
      [] OTHER -> 1

\* The stage after a stage is over; sync says whether ids are sent at all.
After(st, sync) ==
    CASE st = "flag" -> IF sync THEN "counts" ELSE "galois"
      [] st = "counts" -> "ids"
      [] st = "ids" -> "galois"
      [] st = "galois" -> "enc_sk"
      [] st = "enc_sk" -> "id_mod"
      [] st = "id_mod" -> "ct"
      [] st = "ct" -> "reply"
      [] st = "reply" -> "id_mod"

Init ==
    /\ wants \in Confs
    /\ leave_at \in Partings
    /\ sync_ids = FALSE
    /\ stage = [e \in Side |-> [c \in Client |-> "flag"]]
    /\ left = [e \in Side |-> [c \in Client |-> 1]]
    /\ io = [e \in Side |-> [c \in Client |-> "off"]]
    /\ send_ready = [e \in Side |-> [c \in Client |-> TRUE]]
    /\ net = [e \in Side |-> [c \in Client |-> <<>>]]
    /\ up = TRUE

-----------------------------------------------------------------------------

\* Side e is through with a message and turns to the next one.
GoTo(e, c, st) ==
    /\ stage' = [stage EXCEPT ![e][c] = st]
    /\ left' = [left EXCEPT ![e][c] = Times(st)]

\* Mutant of Advance: one message too many of each stage.
AdvanceLate(e, c) ==
    IF left[e][c] > 0
    THEN left' = [left EXCEPT ![e][c] = @ - 1] /\ UNCHANGED stage
    ELSE GoTo(e, c, After(stage[e][c], wants[c]))

Advance(e, c) ==
    IF left[e][c] > 1
    THEN left' = [left EXCEPT ![e][c] = @ - 1] /\ UNCHANGED stage
    ELSE GoTo(e, c, After(stage[e][c], wants[c]))

Here(c) == io["client"][c] # "off"

\* connect and accept; a new ConnData, a new NetClient.
Connect(c) ==
    /\ up
    /\ io["client"][c] = "off" /\ io["server"][c] = "off"
    /\ stage' = [e \in Side |-> [stage[e] EXCEPT ![c] = "flag"]]
    /\ left' = [e \in Side |-> [left[e] EXCEPT ![c] = 1]]
    /\ io' = [e \in Side |-> [io[e] EXCEPT ![c] = "run"]]
    /\ send_ready' = [e \in Side |-> [send_ready[e] EXCEPT ![c] = TRUE]]
    /\ net' = [e \in Side |-> [net[e] EXCEPT ![c] = <<>>]]
    /\ UNCHANGED <<conf, sync_ids, up>>

\* A client program has no end but being stopped; here between two messages.
Leave(c) ==
    /\ io["client"][c] = "run"
    /\ stage["client"][c] \in leave_at
    /\ io' = [io EXCEPT !["client"][c] = "off"]
    /\ net' = [net EXCEPT !["client"][c] = <<>>]
    /\ UNCHANGED <<conf, sync_ids, stage, left, send_ready, up>>

-----------------------------------------------------------------------------
(***************************************************************************)
(* one_time_send                                                            *)
(***************************************************************************)

Sending(e, c) == io[e][c] = "run" /\ stage[e][c] \in Sends(e)

\* Mutant of SendMessage: the next message does not wait for "finished".
SendAndGoOn(e, c) ==
    /\ up
    /\ Sending(e, c)
    /\ send_ready[e][c]
    /\ e = "server" => Here(c)
    /\ net' = [net EXCEPT ![Other(e)][c] = Append(@, stage[e][c])]
    /\ Advance(e, c)
    /\ UNCHANGED <<conf, sync_ids, io, send_ready, up>>

\* Length and payload go out; then the sender waits.
SendMessage(e, c) ==
    /\ up
    /\ Sending(e, c)
    /\ send_ready[e][c]
    /\ e = "server" => Here(c)
    /\ net' = [net EXCEPT ![Other(e)][c] = Append(@, stage[e][c])]
    /\ send_ready' = [send_ready EXCEPT ![e][c] = FALSE]
    /\ io' = [io EXCEPT ![e][c] = "ack"]
    /\ UNCHANGED <<conf, sync_ids, stage, left, up>>

\* To a client that has gone: the signal SIGPIPE, which nobody handles, ends
\* the server, or the bytes are lost, or send fails; then one_time_send
\* returns false, which nobody looks at, and send_ready stays set.
SendToGone(c) ==
    /\ up
    /\ Sending("server", c)
    /\ send_ready["server"][c]
    /\ ~Here(c)
    /\ \/ /\ up' = FALSE
          /\ UNCHANGED <<io, send_ready, stage, left>>
       \/ /\ send_ready' = [send_ready EXCEPT !["server"][c] = FALSE]
          /\ io' = [io EXCEPT !["server"][c] = "ack"]
          /\ UNCHANGED <<stage, left, up>>
       \/ /\ Advance("server", c)
          /\ UNCHANGED <<io, send_ready, up>>
    /\ UNCHANGED <<conf, sync_ids, net>>

\* Mutant of AwaitAck: the server does not set send_ready again.
AwaitAckUnready(e, c) ==
    /\ up
    /\ io[e][c] = "ack"
    /\ net[e][c] # <<>>
    /\ send_ready' = [send_ready EXCEPT ![e][c] = (e = "client")]
    /\ net' = [net EXCEPT ![e][c] = Tail(@)]
    /\ io' = [io EXCEPT ![e][c] = "run"]
    /\ Advance(e, c)
    /\ UNCHANGED <<conf, sync_ids, up>>

\* Mutant of AwaitAck: whatever comes counts as "finished".
AwaitAckAnything(e, c) ==
    /\ up
    /\ io[e][c] = "ack"
    /\ net[e][c] # <<>>
    /\ send_ready' = [send_ready EXCEPT ![e][c] = TRUE]
    /\ net' = [net EXCEPT ![e][c] = Tail(@)]
    /\ io' = [io EXCEPT ![e][c] = "run"]
    /\ Advance(e, c)
    /\ UNCHANGED <<conf, sync_ids, up>>

\* The next eight bytes.  Those of a message are not "finished", and the rest
\* of that message stays.  one_time_send returns true either way.
AwaitAck(e, c) ==
    /\ up
    /\ io[e][c] = "ack"
    /\ net[e][c] # <<>>
    /\ \/ /\ Head(net[e][c]) = "ack"
          /\ send_ready' = [send_ready EXCEPT ![e][c] = TRUE]
          /\ net' = [net EXCEPT ![e][c] = Tail(@)]
       \/ /\ Head(net[e][c]) # "ack"
          /\ net' = [net EXCEPT ![e][c][1] = "rest"]
          /\ UNCHANGED send_ready
    /\ io' = [io EXCEPT ![e][c] = "run"]
    /\ Advance(e, c)
    /\ UNCHANGED <<conf, sync_ids, up>>

AwaitAckClosed(c) ==
    /\ up
    /\ io["server"][c] = "ack"
    /\ net["server"][c] = <<>>
    /\ ~Here(c)
    /\ io' = [io EXCEPT !["server"][c] = "run"]
    /\ Advance("server", c)
    /\ UNCHANGED <<conf, sync_ids, send_ready, net, up>>

\* A sender that is not ready reads eight bytes once more, then waits in a
\* loop for what only it could change.
SendNotReady(e, c) ==
    LET acked == net[e][c] # <<>> /\ Head(net[e][c]) = "ack" IN
    /\ up
    /\ Sending(e, c)
    /\ ~send_ready[e][c]
    /\ net[e][c] = <<>> => e = "server" /\ ~Here(c)
    /\ send_ready' = [send_ready EXCEPT ![e][c] = acked]
    /\ io' = [io EXCEPT ![e][c] = IF acked THEN "run" ELSE "spin"]
    /\ net' = [net EXCEPT ![e][c] = IF acked THEN Tail(@) ELSE @]
    /\ UNCHANGED <<conf, sync_ids, stage, left, up>>

-----------------------------------------------------------------------------
(***************************************************************************)
(* one_time_receive                                                         *)
(***************************************************************************)

Receiving(e, c) == io[e][c] = "run" /\ stage[e][c] \in Stage \ Sends(e)

\* Mutant of Take: no acknowledgement for the counts.
TakeSilently(e, c) ==
    /\ net[e][c] # <<>>
    /\ Head(net[e][c]) \in Stage
    /\ net' = [net EXCEPT ![e][c] = Tail(@),
                          ![Other(e)][c] = IF Here(c) /\ Head(net[e][c]) # "counts"
                                           THEN Append(@, "ack") ELSE @]

\* Take a message, whatever it is, and acknowledge it.
Take(e, c) ==
    /\ net[e][c] # <<>>
    /\ Head(net[e][c]) \in Stage
    /\ net' = [net EXCEPT ![e][c] = Tail(@),
                          ![Other(e)][c] = IF Here(c) THEN Append(@, "ack")
                                                      ELSE @]

\* The flag goes into the global of all connections.
ReceiveFlag(c) ==
    /\ up
    /\ Receiving("server", c) /\ stage["server"][c] = "flag"
    /\ Take("server", c)
    /\ sync_ids' = wants[c]
    /\ stage' = [stage EXCEPT !["server"][c] = "branch"]
    /\ UNCHANGED <<conf, left, io, send_ready, up>>

\* Mutant of Branch: the ids are sent to everyone.
BranchAlways(c) ==
    /\ up
    /\ stage["server"][c] = "branch"
    /\ GoTo("server", c, "counts")
    /\ UNCHANGED <<conf, sync_ids, io, send_ready, net, up>>

\* if(sync_ids), some time later.
Branch(c) ==
    /\ up
    /\ stage["server"][c] = "branch"
    /\ GoTo("server", c, After("flag", sync_ids))
    /\ UNCHANGED <<conf, sync_ids, io, send_ready, net, up>>

Receive(e, c) ==
    /\ up
    /\ Receiving(e, c) /\ stage[e][c] # "flag"
    /\ Take(e, c)
    /\ Advance(e, c)
    /\ UNCHANGED <<conf, sync_ids, io, send_ready, up>>

\* Mutant of ReceiveClosed: nobody looks at the -1.
ReceiveClosedUnchecked(c) ==
    /\ up
    /\ Receiving("server", c)
    /\ net["server"][c] = <<>> /\ ~Here(c)
    /\ up' = FALSE
    /\ UNCHANGED <<conf, sync_ids, stage, left, io, send_ready, net>>

\* The client has gone: -1 and an empty message.  The flag copied from it is
\* FALSE; loading a ciphertext of enc_sk from it throws, and nobody catches;
\* everywhere else the thread ends.
ReceiveClosed(c) ==
    /\ up
    /\ Receiving("server", c)
    /\ net["server"][c] = <<>> /\ ~Here(c)
    /\ \/ /\ stage["server"][c] = "flag"
          /\ sync_ids' = FALSE
          /\ stage' = [stage EXCEPT !["server"][c] = "branch"]
          /\ UNCHANGED <<io, up>>
       \/ /\ stage["server"][c] = "enc_sk"
          /\ up' = FALSE
          /\ UNCHANGED <<sync_ids, stage, io>>
       \/ /\ stage["server"][c] \in {"galois", "id_mod", "ct"}
          /\ io' = [io EXCEPT !["server"][c] = "off"]
          /\ UNCHANGED <<sync_ids, stage, up>>
    /\ UNCHANGED <<conf, left, send_ready, net>>

-----------------------------------------------------------------------------

ServerStep(c) ==
    \/ SendMessage("server", c)
    \/ SendToGone(c)
    \/ AwaitAck("server", c)
    \/ AwaitAckClosed(c)
    \/ SendNotReady("server", c)
    \/ ReceiveFlag(c)
    \/ Branch(c)
    \/ Receive("server", c)
    \/ ReceiveClosed(c)

ClientStep(c) ==
    \/ SendMessage("client", c)
    \/ AwaitAck("client", c)
    \/ SendNotReady("client", c)
    \/ Receive("client", c)

Next ==
    \E c \in Client : Connect(c) \/ Leave(c) \/ ServerStep(c) \/ ClientStep(c)

Spec == Init /\ [][Next]_vars

\* Both programs run on, except that a client at the prompt waits for its
\* user to name an id.
AtPrompt(c) == stage["client"][c] = "id_mod" /\ io["client"][c] = "run"

FairSpec ==
    /\ Spec
    /\ \A c \in Client : WF_vars(ServerStep(c))
    /\ \A c \in Client : WF_vars(~AtPrompt(c) /\ ClientStep(c))

-----------------------------------------------------------------------------
(***************************************************************************)
(* Properties                                                               *)
(***************************************************************************)

ConnTypeOK ==
    /\ wants \in Confs
    /\ leave_at \in Partings
    /\ sync_ids \in BOOLEAN
    /\ stage \in [Side -> [Client -> Stage \cup {"branch"}]]
    /\ left \in [Side -> [Client -> Nat]]
    /\ \A e \in Side, c \in Client :
        left[e][c] \in 1 .. IF stage[e][c] = "branch" THEN 1
                            ELSE Times(stage[e][c])
    /\ io \in [Side -> [Client -> {"off", "run", "ack", "spin"}]]
    /\ send_ready \in [Side -> [Client -> BOOLEAN]]
    /\ net \in [Side -> [Client -> Seq(Stage \cup {"ack", "rest"})]]
    /\ up \in BOOLEAN

\* One recv of one_time_receive may take all there is, so whatever follows a
\* message would be swallowed with it, and its length would count down past
\* zero: nothing is ever behind a message, and an acknowledgement is only
\* sent to a side that waits for it.
NothingBehindAMessage ==
    \A e \in Side, c \in Client :
        /\ \A i \in DOMAIN net[e][c] : net[e][c][i] \in Stage => i = Len(net[e][c])
        /\ Contains(net[e][c], "ack") => io[e][c] = "ack" /\ net[e][c][1] = "ack"

\* The place in the script, where the thread at its if(sync_ids) is held to be
\* where the client expects it.
Place(e, c) ==
    IF stage[e][c] = "branch"
    THEN LET st == After("flag", wants[c]) IN <<st, Times(st)>>
    ELSE <<stage[e][c], left[e][c]>>

PlaceAfter(e, c) ==
    IF left[e][c] > 1 THEN <<stage[e][c], left[e][c] - 1>>
    ELSE LET st == After(stage[e][c], wants[c]) IN <<st, Times(st)>>

InStepAt(c) ==
    \/ Place("client", c) = Place("server", c)
    \/ \E e \in Side :
        /\ io[e][c] = "ack"
        /\ PlaceAfter(e, c) = Place(Other(e), c)
        /\ net[e][c] # <<>> /\ Head(net[e][c]) = "ack"

\* Clients that agree about sync_ids and are only stopped at the prompt.
Orderly ==
    /\ \A c, d \in Client : wants[c] = wants[d]
    /\ leave_at \subseteq {"id_mod"}

\* With such clients the two sides of every connection are at the same
\* message of the script, or one has sent it, the other has taken it, and the
\* acknowledgement is on its way: no message is ever taken for another.
InStep == Orderly => \A c \in Client : Here(c) => InStepAt(c)

\* With any clients, a connection that has gone out of step never gets as far
\* as a query, on either side: what one client does to another ends with the
\* handshake.
QueriesInStep ==
    \A c \in Client, e \in Side :
        Here(c) /\ stage[e][c] \in {"id_mod", "ct", "reply"} => InStepAt(c)

\* A client stopped at the prompt takes nobody with it: the server goes on
\* for the others.
ServerStaysUp == Orderly => up

\* A client that connects gets through the keys, and the ids if it asked for
\* them, to the prompt.
Completes(c) ==
    Here(c) /\ stage["client"][c] = "flag" ~> ~Here(c) \/ AtPrompt(c)
HandshakeCompletes == Orderly => \A c \in Client : Completes(c)

\* A query that was begun comes back to the prompt with its reply, unless the
\* server was brought down or the client itself was stopped.
QueryReturns ==
    \A c \in Client :
        stage["client"][c] \in {"ct", "reply"} ~> AtPrompt(c) \/ ~Here(c) \/ ~up

\* What client.conf.sample says of sync_ids, "whether to synchronise the ids
\* from the server", as a choice of each client, and README.md:23 of what
\* follows: "Input the query id and the server will return its data".
EveryHandshakeCompletes == \A c \in Client : Completes(c)

\* The service of README.md:2 is there for the other clients when one of them
\* is stopped.
OneClientLeaves == up

=============================================================================
