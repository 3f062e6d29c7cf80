--------------------------- MODULE Connection_proofs ---------------------------
(***************************************************************************)
(* The invariants of Connection for any number of clients, groups and        *)
(* ciphertexts, for any settings of the clients and wherever they are         *)
(* stopped.  The inductive invariant says how the two ends of a connection    *)
(* and what is on its way between them go together: either the dialogue is    *)
(* in step, or the thread has branched off on another client's setting, in    *)
(* one of two ways, or the client has gone.                                  *)
(***************************************************************************)
EXTENDS Connection, SequenceTheorems, TLAPS

\* What is ever on its way to a side.
None == <<>>
One(m) == <<m>>
AckAnd(m) == <<"ack", m>>

\* Both sides are at the same message, and nothing is on its way.
Even(c) ==
    /\ Place("client", c) = Place("server", c)
    /\ \A e \in Side : /\ io[e][c] = "run"
                       /\ send_ready[e][c]
                       /\ net[e][c] = None

\* Side e has sent the message, and the other side has not taken it.
Sent(e, c) ==
    /\ Place("client", c) = Place("server", c)
    /\ stage[e][c] \in Sends(e)
    /\ io[e][c] = "ack" /\ io[Other(e)][c] = "run"
    /\ ~send_ready[e][c] /\ send_ready[Other(e)][c]
    /\ net[e][c] = None
    /\ net[Other(e)][c] = One(stage[e][c])

\* The other side has taken it, and side e has not seen the acknowledgement.
Acked(e, c) ==
    /\ PlaceAfter(e, c) = Place(Other(e), c)
    /\ stage[e][c] \in Sends(e)
    /\ io[e][c] = "ack" /\ io[Other(e)][c] = "run"
    /\ ~send_ready[e][c] /\ send_ready[Other(e)][c]
    /\ net[e][c] = One("ack")
    /\ net[Other(e)][c] = None

\* And has sent the next message behind it.
Replied(e, c) ==
    /\ PlaceAfter(e, c) = Place(Other(e), c)
    /\ \A d \in Side : /\ stage[d][c] \in Sends(d)
                       /\ io[d][c] = "ack"
                       /\ ~send_ready[d][c]
    /\ net[e][c] = AckAnd(stage[Other(e)][c])
    /\ net[Other(e)][c] = None

Together(c) ==
    \/ Even(c)
    \/ \E e \in Side : Sent(e, c) \/ Acked(e, c) \/ Replied(e, c)

\* The client expects ids, and the thread expects keys.
Deaf(c) ==
    /\ wants[c]
    /\ stage["server"][c] = "galois" /\ io["server"][c] = "run"
    /\ net["server"][c] = None
    /\ \/ /\ stage["client"][c] = "flag" /\ io["client"][c] = "ack"
          /\ net["client"][c] = One("ack")
       \/ /\ stage["client"][c] = "counts" /\ io["client"][c] = "run"
          /\ net["client"][c] = None

\* The client sends its keys, and the thread its counts; either takes the
\* other's message for its acknowledgement.
SaidCounts(c) == stage["server"][c] = "ids" \/ io["server"][c] = "ack"
SaidKeys(c) ==
    \/ stage["client"][c] = "enc_sk"
    \/ stage["client"][c] = "galois" /\ io["client"][c] = "ack"

Clash(c) ==
    /\ ~wants[c]
    /\ \/ /\ stage["client"][c] = "flag" /\ io["client"][c] = "ack"
          /\ net["client"][c] = IF SaidCounts(c) THEN AckAnd("counts")
                                                 ELSE One("ack")
       \/ /\ stage["client"][c] = "galois" /\ io["client"][c] \in {"run", "ack"}
          /\ net["client"][c] = IF SaidCounts(c) THEN One("counts") ELSE None
       \/ /\ stage["client"][c] = "enc_sk" /\ io["client"][c] \in {"run", "spin"}
          /\ net["client"][c] = One("rest") /\ SaidCounts(c)
    /\ \/ /\ stage["server"][c] = "counts" /\ io["server"][c] \in {"run", "ack"}
          /\ net["server"][c] = IF SaidKeys(c) THEN One("galois") ELSE None
       \/ /\ stage["server"][c] = "ids" /\ io["server"][c] \in {"run", "spin"}
          /\ net["server"][c] = One("rest") /\ SaidKeys(c)
    /\ send_ready["client"][c] <=>
          (stage["client"][c] = "galois" /\ io["client"][c] = "run")
    /\ send_ready["server"][c] <=>
          (stage["server"][c] = "counts" /\ io["server"][c] = "run")

\* The client has gone, and the thread, if there is one, has before it what
\* the client had sent.
Alone(c) ==
    /\ net["client"][c] = None
    /\ \/ net["server"][c] = None
       \/ io["server"][c] = "ack" /\ net["server"][c] = One("ack")
       \/ \E m \in Stage :
            \/ io["server"][c] # "off" /\ net["server"][c] = One(m)
            \/ io["server"][c] = "ack" /\ net["server"][c] = AckAnd(m)
       \/ io["server"][c] # "off" /\ net["server"][c] = One("rest")

\* Only the thread is ever at the if(sync_ids), and it does not wait there.
BranchInv(c) ==
    /\ stage["client"][c] # "branch"
    /\ stage["server"][c] = "branch" => io["server"][c] = "run"

ConnInv(c) ==
    /\ BranchInv(c)
    /\ \/ Here(c) /\ (Together(c) \/ Deaf(c) \/ Clash(c))
       \/ ~Here(c) /\ Alone(c)

\* What orderly clients leave behind.
Parted(c) ==
    \/ io["server"][c] = "off"
    \/ /\ stage["server"][c] = "id_mod" /\ io["server"][c] = "run"
       /\ net["server"][c] = None
    \/ /\ stage["server"][c] = "reply" /\ io["server"][c] = "ack"
       /\ net["server"][c] = One("ack")

OrderlyAt(c) ==
    /\ Here(c) => Together(c)
    /\ ~Here(c) => Parted(c)
    /\ stage["server"][c] # "flag" => sync_ids = wants[c]

OrderlyInv == Orderly => up /\ \A c \in Client : OrderlyAt(c)

IInv ==
    /\ ConnTypeOK
    /\ \A c \in Client : ConnInv(c)
    /\ OrderlyInv

-----------------------------------------------------------------------------
(***************************************************************************)
(* Lemmas about the operators                                               *)
(***************************************************************************)

\* The two sides.
LEMMA Sides ==
    ASSUME NEW e \in Side
    PROVE  /\ Other(e) \in Side /\ Other(e) # e /\ Other(Other(e)) = e
           /\ \A d \in Side : d = e \/ d = Other(e)
           /\ Sends(e) \subseteq Stage /\ Sends(Other(e)) \subseteq Stage
           /\ Sends(e) \cap Sends(Other(e)) = {}
           /\ "flag" \notin Sends("server") /\ "branch" \notin Stage
BY DEF Side, Other, Sends, Stage, FromServer

\* The few messages that are ever on their way.
LEMMA Packets ==
    /\ \A m : Append(None, m) = One(m)
    /\ \A m : Append(One("ack"), m) = AckAnd(m)
    /\ \A m : One(m) # <<>> /\ Head(One(m)) = m /\ Tail(One(m)) = None
    /\ \A m : AckAnd(m) # <<>> /\ Head(AckAnd(m)) = "ack"
    /\ \A m : Tail(AckAnd(m)) = One(m)
    /\ \A m : [One(m) EXCEPT ![1] = "rest"] = One("rest")
<1> SUFFICES ASSUME NEW m
             PROVE  /\ Append(None, m) = One(m) /\ Append(One("ack"), m) = AckAnd(m)
                    /\ One(m) # <<>> /\ Head(One(m)) = m /\ Tail(One(m)) = None
                    /\ AckAnd(m) # <<>> /\ Head(AckAnd(m)) = "ack"
                    /\ Tail(AckAnd(m)) = One(m)
                    /\ [One(m) EXCEPT ![1] = "rest"] = One("rest")
  OBVIOUS
<1> USE DEF None, One, AckAnd
<1>1. Append(<<"ack">>, m) = <<"ack", m>>
  <2> DEFINE S == {"ack", m}
  <2>1. <<"ack">> \in Seq(S) /\ <<"ack", m>> \in Seq(S) /\ m \in S
    OBVIOUS
  <2>2. /\ Append(<<"ack">>, m) \in Seq(S)
        /\ Len(Append(<<"ack">>, m)) = 2
        /\ Append(<<"ack">>, m)[1] = "ack" /\ Append(<<"ack">>, m)[2] = m
    BY <2>1, AppendProperties
  <2>3. /\ Len(Append(<<"ack">>, m)) = Len(<<"ack", m>>)
        /\ \A i \in 1 .. Len(Append(<<"ack">>, m)) :
                Append(<<"ack">>, m)[i] = <<"ack", m>>[i]
    BY <2>2
  <2>4. QED
    BY <2>1, <2>2, <2>3, SeqEqual
<1>2. Tail(<<m>>) = <<>> /\ Tail(<<"ack", m>>) = <<m>>
  OBVIOUS
<1>3. [<<m>> EXCEPT ![1] = "rest"] = <<"rest">>
  OBVIOUS
<1>4. QED
  BY <1>1, <1>2, <1>3

\* Every message comes at least once.
LEMMA TimesType == \A st \in Stage : Times(st) \in Nat \ {0}
BY ScriptAssumption DEF Stage, Times

\* The script does not leave its stages.
LEMMA AfterType ==
    ASSUME NEW st \in Stage, NEW sync \in BOOLEAN
    PROVE  After(st, sync) \in Stage
BY DEF Stage, After

\* A side that goes on to its next message, and the other side.
LEMMA AdvancePlace ==
    ASSUME ConnTypeOK, NEW e \in Side, NEW c \in Client, stage[e][c] \in Stage,
           Advance(e, c), wants' = wants
    PROVE  /\ Place(e, c)' = PlaceAfter(e, c)
           /\ stage'[e][c] \in Stage
           /\ left[e][c] = 1 =>
                /\ stage'[e][c] = After(stage[e][c], wants[c])
                /\ left'[e][c] = Times(stage'[e][c])
           /\ stage' \in [Side -> [Client -> Stage \cup {"branch"}]]
           /\ left' \in [Side -> [Client -> Nat]]
           /\ \A d \in Side, b \in Client :
                left'[d][b] \in 1 .. IF stage'[d][b] = "branch" THEN 1
                                    ELSE Times(stage'[d][b])
           /\ \A d \in Side, b \in Client : d # e \/ b # c =>
                stage'[d][b] = stage[d][b] /\ left'[d][b] = left[d][b]
<1>1. After(stage[e][c], wants[c]) \in Stage
  BY AfterType, ConfAssumption DEF ConnTypeOK
<1>2. left[e][c] \in Nat /\ left[e][c] \in 1 .. Times(stage[e][c])
  <2>1. stage[e][c] # "branch"
    BY Sides
  <2>2. left[e][c] \in 1 .. IF stage[e][c] = "branch" THEN 1
                           ELSE Times(stage[e][c])
    BY DEF ConnTypeOK
  <2>3. QED
    BY <2>1, <2>2 DEF ConnTypeOK
<1>3. \A st \in Stage : st # "branch" /\ Times(st) \in Nat \ {0}
  BY TimesType, Sides
<1>4. ASSUME left[e][c] > 1
      PROVE  /\ Place(e, c)' = PlaceAfter(e, c)
             /\ stage'[e][c] \in Stage
             /\ left[e][c] = 1 =>
                  /\ stage'[e][c] = After(stage[e][c], wants[c])
                  /\ left'[e][c] = Times(stage'[e][c])
             /\ stage' \in [Side -> [Client -> Stage \cup {"branch"}]]
             /\ left' \in [Side -> [Client -> Nat]]
             /\ left'[e][c] \in 1 .. Times(stage'[e][c])
             /\ \A d \in Side, b \in Client : d # e \/ b # c =>
                  stage'[d][b] = stage[d][b] /\ left'[d][b] = left[d][b]
  <2>1. stage' = stage /\ left' = [left EXCEPT ![e][c] = left[e][c] - 1]
    BY <1>4 DEF Advance
  <2>2. /\ stage'[e][c] = stage[e][c] /\ stage[e][c] # "branch"
        /\ left'[e][c] = left[e][c] - 1
    BY <1>3, <2>1 DEF ConnTypeOK
  <2>3. Place(e, c)' = PlaceAfter(e, c)
    BY <1>4, <2>2 DEF Place, PlaceAfter
  <2>4. left' \in [Side -> [Client -> Nat]]
    BY <1>2, <1>4, <2>1 DEF ConnTypeOK
  <2>5. Times(stage[e][c]) \in Nat
    BY <1>3
  <2>6. left'[e][c] \in 1 .. Times(stage'[e][c])
    BY <1>2, <1>4, <2>2, <2>5
  <2>7. stage' \in [Side -> [Client -> Stage \cup {"branch"}]]
    BY <2>1 DEF ConnTypeOK
  <2>8. \A d \in Side, b \in Client : d # e \/ b # c =>
            stage'[d][b] = stage[d][b] /\ left'[d][b] = left[d][b]
    BY <2>1 DEF ConnTypeOK
  <2>9. QED
    BY <1>4, <2>2, <2>3, <2>4, <2>6, <2>7, <2>8
<1>5. ASSUME ~(left[e][c] > 1)
      PROVE  /\ Place(e, c)' = PlaceAfter(e, c)
             /\ stage'[e][c] \in Stage
             /\ left[e][c] = 1 =>
                  /\ stage'[e][c] = After(stage[e][c], wants[c])
                  /\ left'[e][c] = Times(stage'[e][c])
             /\ stage' \in [Side -> [Client -> Stage \cup {"branch"}]]
             /\ left' \in [Side -> [Client -> Nat]]
             /\ left'[e][c] \in 1 .. Times(stage'[e][c])
             /\ \A d \in Side, b \in Client : d # e \/ b # c =>
                  stage'[d][b] = stage[d][b] /\ left'[d][b] = left[d][b]
  <2> DEFINE st == After(stage[e][c], wants[c])
  <2>1. stage' = [stage EXCEPT ![e][c] = st] /\ left' = [left EXCEPT ![e][c] = Times(st)]
    BY <1>5 DEF Advance, GoTo
  <2>2. st \in Stage /\ st # "branch" /\ Times(st) \in Nat \ {0}
    BY <1>1, <1>3
  <2> HIDE DEF st
  <2>3. stage'[e][c] = st /\ left'[e][c] = Times(st)
    BY <2>1 DEF ConnTypeOK
  <2>4. Place(e, c)' = <<st, Times(st)>>
    BY <2>2, <2>3 DEF Place
  <2>5. PlaceAfter(e, c) = <<st, Times(st)>>
    BY <1>5 DEF PlaceAfter, st
  <2>6. QED
    BY <2>1, <2>2, <2>3, <2>4, <2>5 DEF ConnTypeOK, st
<1>6. /\ left'[e][c] \in 1 .. Times(stage'[e][c]) /\ stage'[e][c] # "branch"
      /\ \A d \in Side, b \in Client : d # e \/ b # c =>
            stage'[d][b] = stage[d][b] /\ left'[d][b] = left[d][b]
  BY <1>3, <1>4, <1>5
<1>7. ASSUME NEW d \in Side, NEW b \in Client
      PROVE  left'[d][b] \in 1 .. IF stage'[d][b] = "branch" THEN 1
                                 ELSE Times(stage'[d][b])
  <2>1. CASE d = e /\ b = c
    BY <1>6, <2>1
  <2>2. CASE d # e \/ b # c
    <3>1. left[d][b] \in 1 .. IF stage[d][b] = "branch" THEN 1
                             ELSE Times(stage[d][b])
      BY DEF ConnTypeOK
    <3>2. QED
      BY <1>6, <2>2, <3>1
  <2>3. QED
    BY <2>1, <2>2
<1>8. QED
  BY <1>4, <1>5, <1>7

\* A step of one connection leaves the others alone.
Unmoved(d) ==
    \A e \in Side :
        /\ stage'[e][d] = stage[e][d] /\ left'[e][d] = left[e][d]
        /\ io'[e][d] = io[e][d] /\ send_ready'[e][d] = send_ready[e][d]
        /\ net'[e][d] = net[e][d]

Elsewhere(c) == \A d \in Client \ {c} : Unmoved(d)

LEMMA UnmovedInv ==
    ASSUME NEW d \in Client, Unmoved(d), wants' = wants
    PROVE  /\ (Here(d)' <=> Here(d)) /\ stage'["server"][d] = stage["server"][d]
           /\ ConnInv(d) => ConnInv(d)'
           /\ Together(d) => Together(d)'
           /\ Parted(d) => Parted(d)'
<1> USE DEF Unmoved
<1>1. /\ (Here(d)' <=> Here(d)) /\ stage'["server"][d] = stage["server"][d]
      /\ Parted(d) => Parted(d)'
  BY DEF Here, Parted, Side
<1>2. \A e \in Side : Place(e, d)' = Place(e, d) /\ PlaceAfter(e, d)' = PlaceAfter(e, d)
  BY DEF Place, PlaceAfter
<1>3. Together(d) => Together(d)'
  <2>1. Even(d) => Even(d)'
    BY <1>2 DEF Even, Side
  <2>2. ASSUME NEW e \in Side
        PROVE  /\ Sent(e, d) => Sent(e, d)'
               /\ Acked(e, d) => Acked(e, d)'
               /\ Replied(e, d) => Replied(e, d)'
    BY <1>2, Sides DEF Sent, Acked, Replied, Side
  <2>3. QED
    BY <2>1, <2>2 DEF Together, Side
<1>4. (Deaf(d) => Deaf(d)') /\ (Alone(d) => Alone(d)')
  BY DEF Deaf, Alone, Side
<1>5. Clash(d) => Clash(d)'
  BY DEF Clash, SaidCounts, SaidKeys, Side
<1>6. BranchInv(d) => BranchInv(d)'
  BY DEF BranchInv, Side
<1>7. QED
  BY <1>1, <1>3, <1>4, <1>5, <1>6 DEF ConnInv

-----------------------------------------------------------------------------
(***************************************************************************)
(* The steps of one connection                                              *)
(***************************************************************************)

\* Sending: out of step only between counts and keys.
LEMMA SendMessageStep ==
    ASSUME ConnTypeOK, NEW e \in Side, NEW c \in Client, ConnInv(c),
           SendMessage(e, c)
    PROVE  /\ ConnTypeOK' /\ Elsewhere(c) /\ (Here(c)' <=> Here(c))
           /\ ConnInv(c)'
           /\ Together(c) => Together(c)'
<1> DEFINE o == Other(e)
<1>0. o \in Side /\ o # e /\ Other(o) = e /\ \A d \in Side : d = e \/ d = o
  BY Sides
<1>1. /\ io[e][c] = "run" /\ stage[e][c] \in Sends(e) /\ send_ready[e][c]
      /\ io' = [io EXCEPT ![e][c] = "ack"]
      /\ send_ready' = [send_ready EXCEPT ![e][c] = FALSE]
      /\ net' = [net EXCEPT ![o][c] = Append(net[o][c], stage[e][c])]
      /\ wants' = wants /\ leave_at' = leave_at /\ sync_ids' = sync_ids
      /\ stage' = stage /\ left' = left /\ up' = up
  BY DEF SendMessage, Sending, conf
<1>2. Here(c)
  BY <1>1 DEF SendMessage, Here, Side
<1>3. /\ io'[e][c] = "ack" /\ io'[o][c] = io[o][c]
      /\ ~send_ready'[e][c] /\ send_ready'[o][c] = send_ready[o][c]
      /\ net'[e][c] = net[e][c]
      /\ net'[o][c] = Append(net[o][c], stage[e][c])
  BY <1>0, <1>1 DEF ConnTypeOK
<1>4. Elsewhere(c)
  BY <1>0, <1>1 DEF ConnTypeOK, Elsewhere, Unmoved
<1>5. ConnTypeOK'
  <2>1. Append(net[o][c], stage[e][c]) \in Seq(Stage \cup {"ack", "rest"})
    BY <1>0, <1>1, Sides, AppendProperties DEF ConnTypeOK
  <2>2. net' \in [Side -> [Client -> Seq(Stage \cup {"ack", "rest"})]]
    BY <1>0, <1>1, <2>1 DEF ConnTypeOK
  <2>3. QED
    BY <1>1, <2>2 DEF ConnTypeOK
<1>6. (Here(c)' <=> Here(c))
  BY <1>2, <1>3, <1>0 DEF Here, Side
<1>7. /\ stage'[e][c] = stage[e][c] /\ stage'[o][c] = stage[o][c]
      /\ Place("client", c)' = Place("client", c)
      /\ Place("server", c)' = Place("server", c)
      /\ Place(o, c)' = Place(o, c) /\ PlaceAfter(o, c)' = PlaceAfter(o, c)
  BY <1>1 DEF Place, PlaceAfter
<1>8. ASSUME Together(c)
      PROVE  Together(c)'
  <2>1. CASE Even(c)
    <3>1. /\ io[o][c] = "run" /\ send_ready[o][c]
          /\ net[e][c] = None /\ net[o][c] = None
          /\ Place("client", c) = Place("server", c)
      BY <1>0, <2>1 DEF Even
    <3>2. net'[o][c] = One(stage'[e][c])
      BY <1>3, <1>7, <3>1, Packets
    <3>4. stage'[e][c] \in Sends(e)
      BY <1>1
    <3>3. Sent(e, c)'
      BY <1>3, <1>7, <3>1, <3>2, <3>4 DEF Sent
    <3>5. QED
      BY <3>3 DEF Together, Side
  <2>2. ~Sent(e, c) /\ ~Sent(o, c)
    BY <1>0, <1>1, Sides DEF Sent, Place, Side
  <2>3. ~Acked(e, c) /\ ~Replied(e, c) /\ ~Replied(o, c)
    BY <1>1 DEF Acked, Replied
  <2>4. CASE Acked(o, c)
    <3>1. /\ PlaceAfter(o, c) = Place(e, c) /\ stage[o][c] \in Sends(o)
          /\ io[o][c] = "ack" /\ ~send_ready[o][c]
          /\ net[o][c] = One("ack") /\ net[e][c] = None
      BY <1>0, <2>4 DEF Acked
    <3>2. net'[o][c] = AckAnd(stage'[e][c])
      BY <1>3, <1>7, <3>1, Packets
    <3>3. PlaceAfter(o, c)' = Place(e, c)'
      BY <1>0, <1>7, <3>1 DEF Side
    <3>4. \A d \in Side : /\ stage'[d][c] \in Sends(d)
                         /\ io'[d][c] = "ack"
                         /\ ~send_ready'[d][c]
      BY <1>0, <1>1, <1>3, <3>1
    <3>5. Replied(o, c)'
      BY <1>0, <1>3, <3>1, <3>2, <3>3, <3>4 DEF Replied
    <3>6. QED
      BY <1>0, <3>5 DEF Together, Side
  <2>5. QED
    BY <1>0, <1>8, <2>1, <2>2, <2>3, <2>4 DEF Together
<1>9. ~Deaf(c)
  BY <1>1 DEF Deaf, Sends, Side, FromServer, Stage
<1>10. ASSUME Clash(c)
       PROVE  Clash(c)'
  <2>1. CASE e = "client"
    <3>1. /\ stage["client"][c] = "galois" /\ ~wants[c]
          /\ ~SaidKeys(c) /\ net["server"][c] = None
          /\ stage["server"][c] = "counts"
          /\ net["client"][c] = IF SaidCounts(c) THEN One("counts") ELSE None
          /\ io["server"][c] \in {"run", "ack"}
          /\ send_ready["server"][c] <=> (io["server"][c] = "run")
      BY <1>1, <1>10, <2>1 DEF Clash, SaidKeys
    <3>2. SaidKeys(c)' /\ SaidCounts(c)' = SaidCounts(c)
      BY <1>0, <1>1, <1>3, <2>1, <3>1 DEF SaidKeys, SaidCounts, Other
    <3>3. net'["server"][c] = One("galois")
      <4>1. net'["server"][c] = Append(net["server"][c], "galois")
        BY <1>3, <2>1, <3>1 DEF Other
      <4>2. QED
        BY <3>1, <4>1, Packets
    <3>4. QED
      BY <1>0, <1>1, <1>3, <2>1, <3>1, <3>2, <3>3 DEF Clash, Other
  <2>2. CASE e = "server"
    <3>1. /\ stage["server"][c] = "counts" /\ ~wants[c]
          /\ ~SaidCounts(c)
          /\ net["server"][c] = IF SaidKeys(c) THEN One("galois") ELSE None
          /\ \/ /\ stage["client"][c] = "flag" /\ io["client"][c] = "ack"
                /\ net["client"][c] = One("ack")
             \/ /\ stage["client"][c] = "galois"
                /\ io["client"][c] \in {"run", "ack"}
                /\ net["client"][c] = None
          /\ send_ready["client"][c] <=>
                (stage["client"][c] = "galois" /\ io["client"][c] = "run")
      BY <1>1, <1>10, <2>2 DEF Clash, SaidCounts
    <3>2. SaidCounts(c)' /\ SaidKeys(c)' = SaidKeys(c)
      BY <1>0, <1>1, <1>3, <2>2, <3>1 DEF SaidKeys, SaidCounts, Other
    <3>3. net'["client"][c] = IF stage["client"][c] = "flag"
                              THEN AckAnd("counts") ELSE One("counts")
      <4>1. net'["client"][c] = Append(net["client"][c], "counts")
        BY <1>3, <2>2, <3>1 DEF Other
      <4>2. QED
        BY <3>1, <4>1, Packets
    <3>4. QED
      BY <1>0, <1>1, <1>3, <2>2, <3>1, <3>2, <3>3 DEF Clash, Other
  <2>3. QED
    BY <2>1, <2>2 DEF Side
<1>11. BranchInv(c)'
  BY <1>1, <1>3, Sides DEF ConnInv, BranchInv, Other
<1>12. QED
  BY <1>2, <1>4, <1>5, <1>6, <1>8, <1>9, <1>10, <1>11 DEF ConnInv

\* The next bytes, taken for the acknowledgement: in step they are, and out
\* of step the side goes on all the same, with no right to send.
LEMMA AwaitAckStep ==
    ASSUME ConnTypeOK, NEW e \in Side, NEW c \in Client, ConnInv(c),
           AwaitAck(e, c)
    PROVE  /\ ConnTypeOK' /\ Elsewhere(c) /\ (Here(c)' <=> Here(c))
           /\ ConnInv(c)'
           /\ Here(c) /\ Together(c) => Together(c)'
<1> DEFINE o == Other(e)
           acked == Head(net[e][c]) = "ack"
<1>0. o \in Side /\ o # e /\ Other(o) = e /\ \A d \in Side : d = e \/ d = o
  BY Sides
<1>1. /\ io[e][c] = "ack" /\ net[e][c] # <<>>
      /\ io' = [io EXCEPT ![e][c] = "run"]
      /\ wants' = wants /\ leave_at' = leave_at /\ sync_ids' = sync_ids
      /\ up' = up /\ Advance(e, c)
  BY DEF AwaitAck, conf
<1>2. /\ send_ready' = IF acked THEN [send_ready EXCEPT ![e][c] = TRUE]
                        ELSE send_ready
      /\ net' = IF acked THEN [net EXCEPT ![e][c] = Tail(net[e][c])]
                 ELSE [net EXCEPT ![e][c] = [net[e][c] EXCEPT ![1] = "rest"]]
  BY DEF AwaitAck
<1>3. stage[e][c] \in Stage
  BY <1>1 DEF ConnInv, BranchInv, ConnTypeOK, Side
<1>4. /\ io'[e][c] = "run" /\ io'[o][c] = io[o][c]
      /\ acked => net'[e][c] = Tail(net[e][c])
      /\ ~acked => net'[e][c] = [net[e][c] EXCEPT ![1] = "rest"]
      /\ net'[o][c] = net[o][c]
      /\ send_ready'[o][c] = send_ready[o][c]
      /\ acked => send_ready'[e][c]
      /\ ~acked => send_ready'[e][c] = send_ready[e][c]
  BY <1>0, <1>1, <1>2 DEF ConnTypeOK
<1>5. /\ stage'[o][c] = stage[o][c] /\ left'[o][c] = left[o][c]
      /\ Place(e, c)' = PlaceAfter(e, c) /\ stage'[e][c] \in Stage
      /\ Place(o, c)' = Place(o, c) /\ PlaceAfter(o, c)' = PlaceAfter(o, c)
  <2>1. /\ stage'[o][c] = stage[o][c] /\ left'[o][c] = left[o][c]
        /\ Place(e, c)' = PlaceAfter(e, c) /\ stage'[e][c] \in Stage
    BY <1>0, <1>1, <1>3, AdvancePlace
  <2>2. Place(o, c)' = Place(o, c) /\ PlaceAfter(o, c)' = PlaceAfter(o, c)
    BY <1>1, <2>1 DEF Place, PlaceAfter
  <2>3. QED
    BY <2>1, <2>2
<1>6. Elsewhere(c)
  <2>1. \A d \in Client \ {c}, f \in Side :
            stage'[f][d] = stage[f][d] /\ left'[f][d] = left[f][d]
    BY <1>1, <1>3, AdvancePlace
  <2>2. \A d \in Client \ {c}, f \in Side :
            /\ io'[f][d] = io[f][d] /\ send_ready'[f][d] = send_ready[f][d]
            /\ net'[f][d] = net[f][d]
    BY <1>1, <1>2 DEF ConnTypeOK
  <2>3. QED
    BY <2>1, <2>2 DEF Elsewhere, Unmoved
<1>7. ConnTypeOK'
  <2>1. /\ Tail(net[e][c]) \in Seq(Stage \cup {"ack", "rest"})
        /\ [net[e][c] EXCEPT ![1] = "rest"] \in Seq(Stage \cup {"ack", "rest"})
    BY <1>1, HeadTailProperties, EmptySeq, ExceptSeq DEF ConnTypeOK
  <2>2. net' \in [Side -> [Client -> Seq(Stage \cup {"ack", "rest"})]]
    BY <1>2, <2>1 DEF ConnTypeOK
  <2>3. /\ stage' \in [Side -> [Client -> Stage \cup {"branch"}]]
        /\ left' \in [Side -> [Client -> Nat]]
    BY <1>1, <1>3, AdvancePlace
  <2>4. \A d \in Side, b \in Client :
            left'[d][b] \in 1 .. IF stage'[d][b] = "branch" THEN 1
                                ELSE Times(stage'[d][b])
    BY <1>1, <1>3, AdvancePlace
  <2>5. /\ io' \in [Side -> [Client -> {"off", "run", "ack", "spin"}]]
        /\ send_ready' \in [Side -> [Client -> BOOLEAN]]
    BY <1>1, <1>2 DEF ConnTypeOK
  <2>6. QED
    BY <1>1, <2>2, <2>3, <2>4, <2>5 DEF ConnTypeOK
<1>8. (Here(c)' <=> Here(c))
  BY <1>0, <1>1, <1>4 DEF Here, Side
<1>9. ASSUME Together(c)
      PROVE  Together(c)'
  <2>1. ~Even(c) /\ ~Sent(e, c) /\ ~Sent(o, c) /\ ~Acked(o, c) /\ ~Replied(o, c)
    BY <1>0, <1>1 DEF Even, Sent, Acked, Replied, None
  <2>2. CASE Acked(e, c)
    <3>1. net'[e][c] = None /\ send_ready'[e][c]
      BY <1>4, <2>2, Packets DEF Acked
    <3>2. Even(c)'
      BY <1>0, <1>4, <1>5, <2>2, <3>1 DEF Acked, Even, Side
    <3>3. QED
      BY <3>2 DEF Together
  <2>3. CASE Replied(e, c)
    <3>1. net'[e][c] = One(stage'[o][c]) /\ send_ready'[e][c]
      <4>1. net[e][c] = AckAnd(stage[o][c])
        BY <2>3 DEF Replied
      <4>2. acked /\ Tail(net[e][c]) = One(stage[o][c])
        BY <4>1, Packets
      <4>3. QED
        BY <1>4, <1>5, <4>2
    <3>2. Place("client", c)' = Place("server", c)'
      BY <1>0, <1>5, <2>3 DEF Replied, Side
    <3>3. Sent(o, c)'
      BY <1>0, <1>4, <1>5, <2>3, <3>1, <3>2 DEF Replied, Sent
    <3>4. QED
      BY <1>0, <3>3 DEF Together, Side
  <2>4. QED
    BY <1>0, <1>9, <2>1, <2>2, <2>3 DEF Together
<1>10. stage[e][c] \in {"flag", "counts", "galois"} =>
            /\ stage'[e][c] = After(stage[e][c], wants[c])
  <2>1. stage[e][c] \in {"flag", "counts", "galois"} => left[e][c] = 1
    <3>1. left[e][c] \in 1 .. IF stage[e][c] = "branch" THEN 1
                             ELSE Times(stage[e][c])
      BY DEF ConnTypeOK
    <3>2. QED
      BY <3>1 DEF Times
  <2>2. QED
    BY <1>1, <1>3, <2>1, AdvancePlace
<1>11. ASSUME Deaf(c)
       PROVE  Deaf(c)'
  <2>1. e = "client" /\ stage[e][c] = "flag" /\ net[e][c] = One("ack") /\ wants[c]
    BY <1>1, <1>11 DEF Deaf, Side, None
  <2>2. stage'[e][c] = "counts" /\ net'[e][c] = None
    BY <1>4, <1>10, <2>1, Packets DEF After
  <2>3. QED
    BY <1>1, <1>4, <1>5, <1>11, <2>1, <2>2 DEF Deaf, Other
<1>12. ASSUME Clash(c)
       PROVE  Clash(c)'
  <2>1. CASE e = "client" /\ stage["client"][c] = "flag"
    <3>1. /\ stage'["client"][c] = "galois" /\ io'["client"][c] = "run"
          /\ net'["client"][c] = IF SaidCounts(c) THEN One("counts") ELSE None
          /\ send_ready'["client"][c]
      <4>1. ~wants[c] /\ net["client"][c] = IF SaidCounts(c) THEN AckAnd("counts")
                                                            ELSE One("ack")
        BY <1>12, <2>1 DEF Clash
      <4>2. stage'["client"][c] = "galois"
        BY <1>10, <2>1, <4>1 DEF After
      <4>3. net'["client"][c] = (IF SaidCounts(c) THEN One("counts") ELSE None)
            /\ acked
        <5>1. CASE SaidCounts(c)
          <6>1. net[e][c] = AckAnd("counts")
            BY <2>1, <4>1, <5>1
          <6>2. acked /\ Tail(net[e][c]) = One("counts")
            BY <6>1, Packets
          <6>3. QED
            BY <1>4, <2>1, <5>1, <6>2
        <5>2. CASE ~SaidCounts(c)
          BY <1>4, <2>1, <4>1, <5>2, Packets
        <5>3. QED
          BY <5>1, <5>2
      <4>4. QED
        BY <1>4, <2>1, <4>2, <4>3
    <3>2. /\ stage'["server"][c] = stage["server"][c]
          /\ io'["server"][c] = io["server"][c]
          /\ net'["server"][c] = net["server"][c]
          /\ send_ready'["server"][c] = send_ready["server"][c]
      BY <1>4, <1>5, <2>1 DEF Other
    <3>3. ~SaidKeys(c) /\ ~SaidKeys(c)' /\ SaidCounts(c)' = SaidCounts(c)
      BY <2>1, <3>1, <3>2 DEF SaidKeys, SaidCounts
    <3>4. QED
      BY <1>1, <1>12, <2>1, <3>1, <3>2, <3>3 DEF Clash
  <2>2. CASE e = "client" /\ stage["client"][c] # "flag"
    <3>1. /\ stage["client"][c] = "galois" /\ SaidCounts(c) /\ SaidKeys(c)
          /\ net["client"][c] = One("counts") /\ ~send_ready["client"][c]
      BY <1>1, <1>12, <2>2 DEF Clash, SaidKeys, None
    <3>2. /\ stage'["client"][c] = "enc_sk" /\ io'["client"][c] = "run"
          /\ net'["client"][c] = One("rest")
          /\ ~send_ready'["client"][c]
      BY <1>4, <1>10, <2>2, <3>1, Packets DEF After
    <3>3. /\ stage'["server"][c] = stage["server"][c]
          /\ io'["server"][c] = io["server"][c]
          /\ net'["server"][c] = net["server"][c]
          /\ send_ready'["server"][c] = send_ready["server"][c]
      BY <1>4, <1>5, <2>2 DEF Other
    <3>4. SaidKeys(c)' /\ SaidCounts(c)'
      BY <3>1, <3>2, <3>3 DEF SaidKeys, SaidCounts
    <3>5. QED
      BY <1>1, <1>12, <3>1, <3>2, <3>3, <3>4 DEF Clash
  <2>3. CASE e = "server"
    <3>1. /\ stage["server"][c] = "counts" /\ SaidCounts(c) /\ SaidKeys(c)
          /\ net["server"][c] = One("galois") /\ ~send_ready["server"][c]
      BY <1>1, <1>12, <2>3 DEF Clash, SaidCounts, None
    <3>2. /\ stage'["server"][c] = "ids" /\ io'["server"][c] = "run"
          /\ net'["server"][c] = One("rest")
          /\ ~send_ready'["server"][c]
      BY <1>4, <1>10, <2>3, <3>1, Packets DEF After
    <3>3. /\ stage'["client"][c] = stage["client"][c]
          /\ io'["client"][c] = io["client"][c]
          /\ net'["client"][c] = net["client"][c]
          /\ send_ready'["client"][c] = send_ready["client"][c]
      BY <1>4, <1>5, <2>3 DEF Other
    <3>4. SaidKeys(c)' /\ SaidCounts(c)'
      BY <3>1, <3>2, <3>3 DEF SaidKeys, SaidCounts
    <3>5. QED
      BY <1>1, <1>12, <3>1, <3>2, <3>3, <3>4 DEF Clash
  <2>4. QED
    BY <2>1, <2>2, <2>3 DEF Side
<1>13. ASSUME ~Here(c), Alone(c)
       PROVE  Alone(c)'
  <2>1. e = "server"
    BY <1>1, <1>13 DEF Here, Side
  <2>2. \/ net["server"][c] = One("ack")
        \/ \E m \in Stage : net["server"][c] \in {One(m), AckAnd(m)}
        \/ net["server"][c] = One("rest")
    BY <1>1, <1>13, <2>1 DEF Alone, None
  <2>3. \/ net'["server"][c] = None
        \/ \E m \in Stage : net'["server"][c] = One(m)
        \/ net'["server"][c] = One("rest")
    <3>1. CASE net["server"][c] = One("ack")
      BY <1>4, <2>1, <3>1, Packets
    <3>2. CASE net["server"][c] = One("rest")
      BY <1>4, <2>1, <3>2, Packets
    <3>3. ASSUME NEW m \in Stage, net["server"][c] = One(m)
          PROVE  net'["server"][c] = One("rest")
      <4>1. m # "ack"
        BY DEF Stage
      <4>2. QED
        BY <1>4, <2>1, <3>3, <4>1, Packets
    <3>4. ASSUME NEW m \in Stage, net["server"][c] = AckAnd(m)
          PROVE  net'["server"][c] = One(m)
      <4>1. acked /\ Tail(net[e][c]) = One(m)
        BY <2>1, <3>4, Packets
      <4>2. QED
        BY <1>4, <2>1, <4>1
    <3>5. QED
      BY <2>2, <3>1, <3>2, <3>3, <3>4
  <2>4. QED
    BY <1>4, <1>13, <2>1, <2>3 DEF Alone, Other
<1>14. BranchInv(c)'
  BY <1>0, <1>4, <1>5, Sides DEF ConnInv, BranchInv, Side
<1>15. QED
  BY <1>6, <1>7, <1>8, <1>9, <1>11, <1>12, <1>13, <1>14 DEF ConnInv

\* What taking a message does to what is on its way.
LEMMA TakeEffect ==
    ASSUME ConnTypeOK, NEW e \in Side, NEW c \in Client, Take(e, c)
    PROVE  /\ net[e][c] # <<>> /\ Head(net[e][c]) \in Stage
           /\ net'[e][c] = Tail(net[e][c])
           /\ Here(c) => net'[Other(e)][c] = Append(net[Other(e)][c], "ack")
           /\ ~Here(c) => net'[Other(e)][c] = net[Other(e)][c]
           /\ \A d \in Client \ {c}, f \in Side : net'[f][d] = net[f][d]
           /\ net' \in [Side -> [Client -> Seq(Stage \cup {"ack", "rest"})]]
<1> DEFINE o == Other(e)
           queue == IF Here(c) THEN Append(net[o][c], "ack") ELSE net[o][c]
           first == [net EXCEPT ![e][c] = Tail(net[e][c])]
           T == Seq(Stage \cup {"ack", "rest"})
<1>0. o \in Side /\ o # e
  BY Sides
<1>1. net[e][c] # <<>> /\ Head(net[e][c]) \in Stage
  BY DEF Take
<1>2. Tail(net[e][c]) \in T /\ queue \in T
  BY <1>0, <1>1, HeadTailProperties, AppendProperties DEF ConnTypeOK
<1>3. /\ first \in [Side -> [Client -> T]]
      /\ first[o][c] = net[o][c] /\ first[e][c] = Tail(net[e][c])
      /\ \A d \in Client \ {c}, f \in Side : first[f][d] = net[f][d]
  BY <1>0, <1>2 DEF ConnTypeOK
<1>4. net' = [first EXCEPT ![o][c] = queue]
  BY <1>3 DEF Take
<1> HIDE DEF T, first
<1>5. /\ net'[e][c] = Tail(net[e][c]) /\ net'[o][c] = queue
      /\ \A d \in Client \ {c}, f \in Side : net'[f][d] = net[f][d]
      /\ net' \in [Side -> [Client -> T]]
  BY <1>0, <1>2, <1>3, <1>4
<1>6. QED
  BY <1>1, <1>5 DEF T

\* A message that is taken was sent by a side that is in step.
LEMMA TakenWasSent ==
    ASSUME NEW e \in Side, NEW c \in Client, ConnInv(c), Here(c),
           Receiving(e, c), net[e][c] # <<>>
    PROVE  Sent(Other(e), c)
<1> DEFINE o == Other(e)
<1>0. o \in Side /\ o # e /\ Other(o) = e /\ \A d \in Side : d = e \/ d = o
  BY Sides
<1>1. io[e][c] = "run" /\ stage[e][c] \in Stage \ Sends(e)
  BY DEF Receiving
<1>2. ~Deaf(c) /\ ~Clash(c)
  BY <1>1 DEF Deaf, Clash, Sends, FromServer, Side, None
<1>3. ~Even(c) /\ ~Sent(e, c) /\ ~Acked(e, c) /\ ~Acked(o, c)
      /\ ~Replied(e, c) /\ ~Replied(o, c)
  BY <1>0, <1>1 DEF Even, Sent, Acked, Replied, None
<1>4. QED
  BY <1>0, <1>2, <1>3 DEF ConnInv, Together

\* A message that the client left behind is alone.
LEMMA TakenFromGone ==
    ASSUME NEW e \in Side, NEW c \in Client, ConnInv(c), ~Here(c),
           Receiving(e, c), net[e][c] # <<>>, Head(net[e][c]) \in Stage
    PROVE  e = "server" /\ Tail(net[e][c]) = None /\ net["client"][c] = None
<1>1. e = "server" /\ io["server"][c] = "run"
  BY DEF Receiving, Here, Side
<1>2. Alone(c)
  BY DEF ConnInv
<1>3. net["server"][c] # One("rest")
  BY <1>1, Packets DEF Stage
<1>4. PICK m \in Stage : net["server"][c] = One(m)
  BY <1>1, <1>2, <1>3 DEF Alone, None
<1>5. QED
  BY <1>1, <1>2, <1>4, Packets DEF Alone

\* Taking a message keeps the two sides in step.
LEMMA ReceiveStep ==
    ASSUME ConnTypeOK, NEW e \in Side, NEW c \in Client, ConnInv(c),
           Receive(e, c)
    PROVE  /\ ConnTypeOK' /\ Elsewhere(c) /\ (Here(c)' <=> Here(c))
           /\ ConnInv(c)'
           /\ Here(c) /\ Together(c) => Together(c)'
<1> DEFINE o == Other(e)
<1>0. o \in Side /\ o # e /\ Other(o) = e /\ \A d \in Side : d = e \/ d = o
  BY Sides
<1>1. /\ io[e][c] = "run" /\ stage[e][c] \in Stage \ Sends(e)
      /\ io' = io /\ send_ready' = send_ready
      /\ wants' = wants /\ leave_at' = leave_at /\ sync_ids' = sync_ids
      /\ up' = up /\ Receiving(e, c) /\ Take(e, c) /\ Advance(e, c)
  BY DEF Receive, Receiving, conf
<1>2. /\ stage'[o][c] = stage[o][c] /\ left'[o][c] = left[o][c]
      /\ Place(e, c)' = PlaceAfter(e, c) /\ stage'[e][c] \in Stage
  BY <1>0, <1>1, AdvancePlace
<1>3. Place(o, c)' = Place(o, c) /\ PlaceAfter(o, c)' = PlaceAfter(o, c)
  BY <1>1, <1>2 DEF Place, PlaceAfter
<1>4. (Here(c)' <=> Here(c)) /\ BranchInv(c)'
  BY <1>0, <1>1, <1>2, Sides DEF Here, ConnInv, BranchInv, Side
<1>5. Elsewhere(c)
  <2>1. \A d \in Client \ {c}, f \in Side :
            stage'[f][d] = stage[f][d] /\ left'[f][d] = left[f][d]
    BY <1>1, AdvancePlace
  <2>2. QED
    BY <1>1, <2>1, TakeEffect DEF Elsewhere, Unmoved
<1>6. ConnTypeOK'
  <2>1. /\ stage' \in [Side -> [Client -> Stage \cup {"branch"}]]
        /\ left' \in [Side -> [Client -> Nat]]
        /\ \A d \in Side, b \in Client :
              left'[d][b] \in 1 .. IF stage'[d][b] = "branch" THEN 1
                                  ELSE Times(stage'[d][b])
    BY <1>1, AdvancePlace
  <2>2. net' \in [Side -> [Client -> Seq(Stage \cup {"ack", "rest"})]]
    BY <1>1, TakeEffect
  <2>3. QED
    BY <1>1, <2>1, <2>2 DEF ConnTypeOK
<1>7. CASE Here(c)
  <2>1. Sent(o, c)
    BY <1>1, <1>7, TakeEffect, TakenWasSent
  <2>2. /\ net[e][c] = One(stage[o][c]) /\ net[o][c] = None
        /\ stage[o][c] \in Sends(o) /\ io[o][c] = "ack" /\ ~send_ready[o][c]
        /\ send_ready[e][c] /\ Place(o, c) = Place(e, c)
    BY <1>0, <2>1 DEF Sent, Side
  <2>3. net'[e][c] = None
    <3>1. net'[e][c] = Tail(net[e][c])
      BY <1>1, TakeEffect
    <3>2. Tail(One(stage[o][c])) = None
      BY Packets
    <3>3. QED
      BY <2>2, <3>1, <3>2
  <2>4. net'[o][c] = One("ack")
    <3>1. net'[o][c] = Append(None, "ack")
      BY <1>1, <1>7, <2>2, TakeEffect
    <3>2. Append(None, "ack") = One("ack")
      BY DEF None, One
    <3>3. QED
      BY <3>1, <3>2
  <2>5. PlaceAfter(o, c) = PlaceAfter(e, c)
    <3>1. stage[o][c] # "branch" /\ stage[e][c] # "branch"
      BY <1>0, <1>1, <2>2, Sides
    <3>2. stage[o][c] = stage[e][c] /\ left[o][c] = left[e][c]
      BY <2>2, <3>1 DEF Place
    <3>3. QED
      BY <3>2 DEF PlaceAfter
  <2>6. Acked(o, c)'
    BY <1>0, <1>1, <1>2, <1>3, <2>2, <2>3, <2>4, <2>5 DEF Acked
  <2>7. QED
    BY <1>0, <1>4, <1>5, <1>6, <1>7, <2>6 DEF ConnInv, Together, Side
<1>8. CASE ~Here(c)
  <2>1. e = "server" /\ net'["server"][c] = None /\ net'["client"][c] = None
    <3>1. /\ net[e][c] # <<>> /\ Head(net[e][c]) \in Stage
          /\ net'[e][c] = Tail(net[e][c]) /\ net'[o][c] = net[o][c]
      BY <1>1, <1>8, TakeEffect
    <3>2. e = "server" /\ Tail(net[e][c]) = None /\ net["client"][c] = None
      BY <1>1, <1>8, <3>1, TakenFromGone
    <3>3. o = "client"
      BY <3>2 DEF Other
    <3>4. QED
      BY <3>1, <3>2, <3>3
  <2>2. Alone(c)'
    BY <2>1 DEF Alone
  <2>3. QED
    BY <1>4, <1>5, <1>6, <1>8, <2>2 DEF ConnInv
<1>9. QED
  BY <1>7, <1>8

\* What a step of the connection of c keeps.
Kept(c) ==
    /\ ConnTypeOK' /\ Elsewhere(c) /\ ConnInv(c)'
    /\ wants' = wants /\ leave_at' = leave_at
    /\ up /\ Orderly /\ OrderlyAt(c) =>
          up' /\ OrderlyAt(c)' /\ sync_ids' \in {sync_ids, wants[c]}

LEMMA SendMessageKept ==
    ASSUME ConnTypeOK, NEW e \in Side, NEW c \in Client, ConnInv(c),
           SendMessage(e, c)
    PROVE  Kept(c)
<1>1. /\ ConnTypeOK' /\ Elsewhere(c) /\ (Here(c)' <=> Here(c))
      /\ ConnInv(c)' /\ (Together(c) => Together(c)')
  BY SendMessageStep
<1>2. /\ wants' = wants /\ leave_at' = leave_at /\ sync_ids' = sync_ids
      /\ stage' = stage /\ up' = up /\ Here(c)
  BY DEF SendMessage, Sending, Here, conf, Side
<1>3. ASSUME OrderlyAt(c)
      PROVE  OrderlyAt(c)'
  BY <1>1, <1>2, <1>3 DEF OrderlyAt
<1>4. QED
  BY <1>1, <1>2, <1>3 DEF Kept

LEMMA AwaitAckKept ==
    ASSUME ConnTypeOK, NEW e \in Side, NEW c \in Client, ConnInv(c),
           AwaitAck(e, c)
    PROVE  Kept(c)
<1>1. /\ ConnTypeOK' /\ Elsewhere(c) /\ (Here(c)' <=> Here(c))
      /\ ConnInv(c)' /\ (Here(c) /\ Together(c) => Together(c)')
  BY AwaitAckStep
<1>2. /\ wants' = wants /\ leave_at' = leave_at /\ sync_ids' = sync_ids
      /\ up' = up /\ io[e][c] = "ack" /\ Advance(e, c)
      /\ net[e][c] # <<>> /\ io' = [io EXCEPT ![e][c] = "run"]
  BY DEF AwaitAck, conf
<1>3. stage[e][c] \in Stage
  BY <1>2 DEF ConnInv, BranchInv, ConnTypeOK, Side
<1>4. ASSUME OrderlyAt(c)
      PROVE  stage'["server"][c] # "flag" => sync_ids = wants[c]
  <2>1. CASE e = "client"
    <3>1. stage'["server"][c] = stage["server"][c]
      BY <1>2, <1>3, <2>1, AdvancePlace DEF Side
    <3>2. QED
      BY <1>4, <3>1 DEF OrderlyAt
  <2>2. CASE e = "server"
    <3>1. CASE Here(c)
      <4>1. stage["server"][c] \in Sends("server")
        BY <1>2, <1>4, <2>2, <3>1
           DEF OrderlyAt, Together, Even, Sent, Acked, Replied, Side, Other
      <4>2. QED
        BY <1>4, <4>1 DEF OrderlyAt, Sends, FromServer
    <3>2. CASE ~Here(c)
      BY <1>2, <1>4, <2>2, <3>2 DEF OrderlyAt, Parted
    <3>3. QED
      BY <3>1, <3>2
  <2>3. QED
    BY <2>1, <2>2 DEF Side
<1>5. ASSUME Parted(c), ~Here(c)
      PROVE  Parted(c)'
  <2>1. e = "server"
    BY <1>2, <1>5 DEF Here, Side
  <2>2. stage["server"][c] = "reply" /\ net["server"][c] = One("ack")
    BY <1>2, <1>5, <2>1 DEF Parted
  <2>3. left["server"][c] = 1
    <3>1. left["server"][c] \in 1 .. IF stage["server"][c] = "branch" THEN 1
                                    ELSE Times(stage["server"][c])
      BY DEF ConnTypeOK, Side
    <3>2. QED
      BY <2>2, <3>1 DEF Times
  <2>4. stage'["server"][c] = "id_mod"
    <3>1. stage'["server"][c] = After("reply", wants[c])
      BY <1>2, <1>3, <2>1, <2>2, <2>3, AdvancePlace
    <3>2. QED
      BY <3>1 DEF After
  <2>5. net'["server"][c] = None
    <3>1. Head(One("ack")) = "ack" /\ Tail(One("ack")) = None
      BY Packets
    <3>2. net' = [net EXCEPT !["server"][c] = Tail(net["server"][c])]
      BY <2>1, <2>2, <3>1 DEF AwaitAck
    <3>3. QED
      BY <2>2, <3>1, <3>2 DEF ConnTypeOK, Side
  <2>6. io'["server"][c] = "run"
    BY <1>2, <2>1 DEF ConnTypeOK, Side
  <2>7. QED
    BY <2>4, <2>5, <2>6 DEF Parted
<1>6. ASSUME OrderlyAt(c)
      PROVE  OrderlyAt(c)'
  BY <1>1, <1>2, <1>4, <1>5, <1>6 DEF OrderlyAt
<1>7. QED
  BY <1>1, <1>2, <1>6 DEF Kept

LEMMA ReceiveKept ==
    ASSUME ConnTypeOK, NEW e \in Side, NEW c \in Client, ConnInv(c),
           Receive(e, c)
    PROVE  Kept(c)
<1>1. /\ ConnTypeOK' /\ Elsewhere(c) /\ (Here(c)' <=> Here(c))
      /\ ConnInv(c)' /\ (Here(c) /\ Together(c) => Together(c)')
  BY ReceiveStep
<1>2. /\ wants' = wants /\ leave_at' = leave_at /\ sync_ids' = sync_ids
      /\ up' = up /\ io[e][c] = "run" /\ Advance(e, c)
      /\ stage[e][c] \in Stage /\ stage[e][c] # "flag" /\ net[e][c] # <<>>
  BY DEF Receive, Receiving, Take, conf
<1>3. stage'["server"][c] # "flag" => stage["server"][c] # "flag"
  <2>1. CASE e = "server"
    BY <1>2, <2>1
  <2>2. CASE e = "client"
    BY <1>2, <2>2, AdvancePlace DEF Side
  <2>3. QED
    BY <2>1, <2>2 DEF Side
<1>4. ~Here(c) => ~Parted(c)
  BY <1>2 DEF Parted, Here, Side, None
<1>5. ASSUME OrderlyAt(c)
      PROVE  OrderlyAt(c)'
  BY <1>1, <1>2, <1>3, <1>4, <1>5 DEF OrderlyAt
<1>6. QED
  BY <1>1, <1>2, <1>5 DEF Kept

\* The flag is taken: the thread stands where the client expects it.
LEMMA ReceiveFlagKept ==
    ASSUME ConnTypeOK, NEW c \in Client, ConnInv(c), ReceiveFlag(c)
    PROVE  Kept(c)
<1>0. "server" \in Side /\ "client" \in Side /\ Other("server") = "client"
      /\ Other("client") = "server"
  BY DEF Side, Other
<1>1. /\ io["server"][c] = "run" /\ stage["server"][c] = "flag"
      /\ Receiving("server", c) /\ Take("server", c)
      /\ stage' = [stage EXCEPT !["server"][c] = "branch"]
      /\ sync_ids' = wants[c] /\ wants' = wants /\ leave_at' = leave_at
      /\ left' = left /\ io' = io /\ send_ready' = send_ready /\ up' = up
  BY DEF ReceiveFlag, Receiving, conf
<1>2. /\ stage'["server"][c] = "branch" /\ stage'["client"][c] = stage["client"][c]
      /\ \A d \in Client \ {c}, f \in Side : stage'[f][d] = stage[f][d]
      /\ stage' \in [Side -> [Client -> Stage \cup {"branch"}]]
  BY <1>0, <1>1 DEF ConnTypeOK
<1>3. /\ net["server"][c] # <<>> /\ Head(net["server"][c]) \in Stage
      /\ net'["server"][c] = Tail(net["server"][c])
      /\ Here(c) => net'["client"][c] = Append(net["client"][c], "ack")
      /\ ~Here(c) => net'["client"][c] = net["client"][c]
      /\ \A d \in Client \ {c}, f \in Side : net'[f][d] = net[f][d]
      /\ net' \in [Side -> [Client -> Seq(Stage \cup {"ack", "rest"})]]
  BY <1>0, <1>1, TakeEffect
<1>4. (Here(c)' <=> Here(c)) /\ Elsewhere(c) /\ BranchInv(c)'
  <2>1. (Here(c)' <=> Here(c)) /\ Elsewhere(c)
    BY <1>1, <1>2, <1>3 DEF Here, Elsewhere, Unmoved
  <2>2. BranchInv(c)'
    BY <1>1, <1>2 DEF ConnInv, BranchInv
  <2>3. QED
    BY <2>1, <2>2
<1>5. ConnTypeOK'
  <2>1. left["server"][c] = 1
    <3>1. left["server"][c] \in 1 .. IF stage["server"][c] = "branch" THEN 1
                                    ELSE Times(stage["server"][c])
      BY <1>0 DEF ConnTypeOK
    <3>2. QED
      BY <1>1, <3>1 DEF Times
  <2>2. ASSUME NEW d \in Side, NEW b \in Client
        PROVE  left'[d][b] \in 1 .. IF stage'[d][b] = "branch" THEN 1
                                   ELSE Times(stage'[d][b])
    <3>1. CASE d = "server" /\ b = c
      BY <1>1, <1>2, <2>1, <3>1
    <3>2. CASE d # "server" \/ b # c
      <4>1. stage'[d][b] = stage[d][b]
        BY <1>1, <3>2 DEF ConnTypeOK
      <4>2. left[d][b] \in 1 .. IF stage[d][b] = "branch" THEN 1
                               ELSE Times(stage[d][b])
        BY DEF ConnTypeOK
      <4>3. QED
        BY <1>1, <4>1, <4>2
    <3>3. QED
      BY <3>1, <3>2
  <2>3. sync_ids' \in BOOLEAN
    BY <1>1, ConfAssumption DEF ConnTypeOK
  <2>4. QED
    BY <1>1, <1>2, <1>3, <2>2, <2>3 DEF ConnTypeOK
<1>6. CASE Here(c)
  <2>1. Sent("client", c)
    BY <1>0, <1>1, <1>3, <1>6, TakenWasSent
  <2>2. /\ net["server"][c] = One(stage["client"][c]) /\ net["client"][c] = None
        /\ stage["client"][c] \in Sends("client") /\ io["client"][c] = "ack"
        /\ ~send_ready["client"][c] /\ send_ready["server"][c]
        /\ Place("client", c) = Place("server", c)
    BY <1>0, <2>1 DEF Sent
  <2>3. net'["server"][c] = None
    <3>1. Tail(One(stage["client"][c])) = None
      BY Packets
    <3>2. QED
      BY <1>3, <2>2, <3>1
  <2>4. net'["client"][c] = One("ack")
    <3>1. Append(None, "ack") = One("ack")
      BY DEF None, One
    <3>2. QED
      BY <1>3, <1>6, <2>2, <3>1
  <2>5. stage["client"][c] = "flag" /\ left["client"][c] = left["server"][c]
    <3>1. stage["client"][c] # "branch"
      BY <2>2 DEF Sends, Stage, FromServer
    <3>2. QED
      BY <1>1, <2>2, <3>1 DEF Place
  <2>6. PlaceAfter("client", c)' = Place("server", c)'
    <3>1. left["client"][c] = 1
      <4>1. left["client"][c] \in 1 .. IF stage["client"][c] = "branch" THEN 1
                                      ELSE Times(stage["client"][c])
        BY <1>0 DEF ConnTypeOK
      <4>2. QED
        BY <2>5, <4>1 DEF Times
    <3>2. stage'["client"][c] = "flag" /\ left'["client"][c] = 1
      BY <1>1, <1>2, <2>5, <3>1
    <3>3. QED
      BY <1>1, <1>2, <3>2 DEF Place, PlaceAfter
  <2>7. Acked("client", c)'
    BY <1>0, <1>1, <1>2, <2>2, <2>3, <2>4, <2>6 DEF Acked
  <2>8. Together(c)'
    BY <1>0, <2>7 DEF Together
  <2>9. ConnInv(c)' /\ OrderlyAt(c)'
    BY <1>1, <1>4, <1>6, <2>8 DEF ConnInv, OrderlyAt
  <2>10. QED
    BY <1>1, <1>4, <1>5, <2>9 DEF Kept
<1>7. CASE ~Here(c)
  <2>1. Tail(net["server"][c]) = None /\ net["client"][c] = None
    BY <1>0, <1>1, <1>3, <1>7, TakenFromGone
  <2>2. Alone(c)'
    BY <1>3, <1>7, <2>1 DEF Alone
  <2>3. ~Parted(c)
    BY <1>1 DEF Parted
  <2>4. ConnInv(c)' /\ ~OrderlyAt(c)
    BY <1>4, <1>7, <2>2, <2>3 DEF ConnInv, OrderlyAt
  <2>5. QED
    BY <1>1, <1>4, <1>5, <2>4 DEF Kept
<1>8. QED
  BY <1>6, <1>7

\* The thread goes the way the client expects, or another client has changed
\* the global: then the dialogue is out of step.
LEMMA BranchKept ==
    ASSUME ConnTypeOK, NEW c \in Client, ConnInv(c), Branch(c)
    PROVE  Kept(c)
<1> DEFINE st == After("flag", sync_ids)
<1>0. "server" \in Side /\ "client" \in Side /\ Other("server") = "client"
      /\ Other("client") = "server" /\ \A e \in Side : e = "server" \/ e = "client"
  BY DEF Side, Other
<1>1. /\ stage["server"][c] = "branch"
      /\ stage' = [stage EXCEPT !["server"][c] = st]
      /\ left' = [left EXCEPT !["server"][c] = Times(st)]
      /\ sync_ids' = sync_ids /\ wants' = wants /\ leave_at' = leave_at
      /\ net' = net /\ io' = io /\ send_ready' = send_ready /\ up' = up
  BY DEF Branch, GoTo, conf
<1>2. /\ st \in Stage /\ st # "branch" /\ Times(st) \in Nat \ {0}
      /\ io["server"][c] = "run" /\ stage["client"][c] # "branch"
  <2>1. st \in Stage
    BY AfterType DEF ConnTypeOK, Stage
  <2>2. io["server"][c] = "run" /\ stage["client"][c] # "branch"
    BY <1>1 DEF ConnInv, BranchInv
  <2>3. QED
    BY <2>1, <2>2, TimesType, Sides DEF Side
<1> HIDE DEF st
<1>3. /\ stage'["server"][c] = st /\ left'["server"][c] = Times(st)
      /\ stage'["client"][c] = stage["client"][c]
      /\ left'["client"][c] = left["client"][c]
      /\ \A d \in Client \ {c}, f \in Side :
            stage'[f][d] = stage[f][d] /\ left'[f][d] = left[f][d]
      /\ stage' \in [Side -> [Client -> Stage \cup {"branch"}]]
      /\ left' \in [Side -> [Client -> Nat]]
  BY <1>0, <1>1, <1>2 DEF ConnTypeOK
<1>4. (Here(c)' <=> Here(c)) /\ Elsewhere(c) /\ BranchInv(c)'
  BY <1>1, <1>2, <1>3 DEF Here, Elsewhere, Unmoved, BranchInv
<1>5. ConnTypeOK'
  <2>1. ASSUME NEW d \in Side, NEW b \in Client
        PROVE  left'[d][b] \in 1 .. IF stage'[d][b] = "branch" THEN 1
                                   ELSE Times(stage'[d][b])
    <3>1. CASE d = "server" /\ b = c
      BY <1>2, <1>3, <3>1
    <3>2. CASE d # "server" \/ b # c
      <4>1. stage'[d][b] = stage[d][b] /\ left'[d][b] = left[d][b]
        BY <1>1, <3>2 DEF ConnTypeOK
      <4>2. left[d][b] \in 1 .. IF stage[d][b] = "branch" THEN 1
                               ELSE Times(stage[d][b])
        BY DEF ConnTypeOK
      <4>3. QED
        BY <4>1, <4>2
    <3>3. QED
      BY <3>1, <3>2
  <2>2. QED
    BY <1>1, <1>3, <2>1 DEF ConnTypeOK
<1>6. Place("client", c)' = Place("client", c)
      /\ PlaceAfter("client", c)' = PlaceAfter("client", c)
  BY <1>1, <1>3 DEF Place, PlaceAfter
<1>7. ASSUME Here(c)
      PROVE  /\ Even(c) \/ Sent("client", c) \/ Acked("client", c)
             /\ Together(c)
  <2>1. ~Deaf(c) /\ ~Clash(c)
    BY <1>1 DEF Deaf, Clash
  <2>2. Together(c)
    BY <1>7, <2>1 DEF ConnInv
  <2>3. /\ ~Sent("server", c) /\ ~Acked("server", c)
        /\ ~Replied("server", c) /\ ~Replied("client", c)
    BY <1>1, <1>2 DEF Sent, Acked, Replied, Side, Sends, FromServer
  <2>4. QED
    BY <1>0, <2>2, <2>3 DEF Together
<1>8. ASSUME sync_ids = wants[c], Here(c)
      PROVE  Together(c)'
  <2>1. Place("server", c)' = Place("server", c)
    BY <1>1, <1>2, <1>3, <1>8 DEF Place, st
  <2>2. CASE Even(c)
    <3>1. Even(c)'
      BY <1>0, <1>1, <1>6, <2>1, <2>2 DEF Even
    <3>2. QED
      BY <3>1 DEF Together
  <2>3. CASE Sent("client", c)
    <3>1. Sent("client", c)'
      BY <1>0, <1>1, <1>3, <1>6, <2>1, <2>3 DEF Sent
    <3>2. QED
      BY <1>0, <3>1 DEF Together
  <2>4. CASE Acked("client", c)
    <3>1. Acked("client", c)'
      BY <1>0, <1>1, <1>3, <1>6, <2>1, <2>4 DEF Acked
    <3>2. QED
      BY <1>0, <3>1 DEF Together
  <2>5. QED
    BY <1>7, <1>8, <2>2, <2>3, <2>4
<1>9. ASSUME sync_ids # wants[c], Here(c)
      PROVE  Deaf(c)' \/ Clash(c)'
  <2> DEFINE expected == After("flag", wants[c])
  <2>1. /\ Place("server", c) = <<expected, Times(expected)>>
        /\ wants[c] \in BOOLEAN /\ sync_ids \in BOOLEAN
    BY <1>1, ConfAssumption DEF Place, ConnTypeOK
  <2>2. /\ io'["server"][c] = "run" /\ send_ready["server"][c]
        /\ net["server"][c] = None \/ net["server"][c] = One(stage["client"][c])
    BY <1>0, <1>1, <1>2, <1>7, <1>9 DEF Even, Sent, Acked
  <2>3. stage["client"][c] \in {"flag", "counts", "galois"} => left["client"][c] = 1
    <3>1. left["client"][c] \in 1 .. IF stage["client"][c] = "branch" THEN 1
                                    ELSE Times(stage["client"][c])
      BY <1>0 DEF ConnTypeOK
    <3>2. QED
      BY <3>1 DEF Times
  <2>4. Even(c) \/ Sent("client", c) => stage["client"][c] = expected
    BY <1>0, <1>2, <2>1 DEF Even, Sent, Place
  <2>5. Acked("client", c) => stage["client"][c] = "flag"
    <3>1. SUFFICES ASSUME Acked("client", c)
                   PROVE  stage["client"][c] = "flag"
      OBVIOUS
    <3>2. /\ PlaceAfter("client", c) = <<expected, Times(expected)>>
          /\ stage["client"][c] \in Stage \ FromServer
      BY <1>0, <2>1, <3>1 DEF Acked, Sends
    <3>3. expected \in {"counts", "galois"}
      BY DEF After
    <3>4. ~(left["client"][c] > 1)
      <4>1. SUFFICES ASSUME left["client"][c] > 1
                     PROVE  FALSE
        OBVIOUS
      <4>2. stage["client"][c] = expected
        BY <3>2, <4>1 DEF PlaceAfter
      <4>3. QED
        BY <2>3, <3>3, <4>1, <4>2
    <3>5. After(stage["client"][c], wants[c]) = expected
      BY <3>2, <3>4 DEF PlaceAfter
    <3>6. QED
      BY <3>2, <3>3, <3>5 DEF After, Stage, FromServer
  <2>6. CASE wants[c]
    <3>1. expected = "counts" /\ stage'["server"][c] = "galois"
      BY <1>3, <1>9, <2>1, <2>6 DEF After, st
    <3>2. CASE Even(c)
      BY <1>0, <1>1, <1>3, <2>2, <2>4, <2>6, <3>1, <3>2 DEF Deaf, Even
    <3>3. ~Sent("client", c)
      BY <2>4, <3>1 DEF Sent, Sends, FromServer
    <3>4. CASE Acked("client", c)
      BY <1>0, <1>1, <1>3, <2>2, <2>5, <2>6, <3>1, <3>4 DEF Deaf, Acked
    <3>5. QED
      BY <1>7, <1>9, <3>2, <3>3, <3>4
  <2>7. CASE ~wants[c]
    <3>1. expected = "galois" /\ stage'["server"][c] = "counts"
      BY <1>3, <1>9, <2>1, <2>7 DEF After, st
    <3>2. ~SaidCounts(c)' /\ send_ready'["server"][c] /\ ~wants'[c]
      BY <1>1, <2>2, <2>7, <3>1 DEF SaidCounts
    <3>3. CASE Even(c)
      <4>1. /\ stage'["client"][c] = "galois" /\ io'["client"][c] = "run"
            /\ send_ready'["client"][c]
            /\ net'["client"][c] = None /\ net'["server"][c] = None
        BY <1>0, <1>1, <1>3, <2>4, <3>1, <3>3 DEF Even
      <4>2. ~SaidKeys(c)'
        BY <4>1 DEF SaidKeys
      <4>3. QED
        BY <2>2, <3>1, <3>2, <4>1, <4>2 DEF Clash
    <3>4. CASE Sent("client", c)
      <4>1. /\ stage'["client"][c] = "galois" /\ io'["client"][c] = "ack"
            /\ ~send_ready'["client"][c]
            /\ net'["client"][c] = None /\ net'["server"][c] = One("galois")
        BY <1>0, <1>1, <1>3, <2>4, <3>1, <3>4 DEF Sent
      <4>2. SaidKeys(c)'
        BY <4>1 DEF SaidKeys
      <4>3. QED
        BY <2>2, <3>1, <3>2, <4>1, <4>2 DEF Clash
    <3>5. CASE Acked("client", c)
      <4>1. /\ stage'["client"][c] = "flag" /\ io'["client"][c] = "ack"
            /\ ~send_ready'["client"][c]
            /\ net'["client"][c] = One("ack") /\ net'["server"][c] = None
        BY <1>0, <1>1, <1>3, <2>5, <3>5 DEF Acked
      <4>2. ~SaidKeys(c)'
        BY <4>1 DEF SaidKeys
      <4>3. QED
        BY <2>2, <3>1, <3>2, <4>1, <4>2 DEF Clash
    <3>6. QED
      BY <1>7, <1>9, <3>3, <3>4, <3>5
  <2>8. QED
    BY <2>6, <2>7
<1>10. ~Here(c) => ~Parted(c) /\ (Alone(c) => Alone(c)')
  <2>1. ~Parted(c)
    BY <1>1, <1>2 DEF Parted
  <2>2. Alone(c) => Alone(c)'
    BY <1>1 DEF Alone
  <2>3. QED
    BY <2>1, <2>2
<1>11. ConnInv(c)'
  BY <1>4, <1>8, <1>9, <1>10 DEF ConnInv
<1>12. OrderlyAt(c) => OrderlyAt(c)'
  <2>1. CASE Here(c)
    BY <1>1, <1>4, <1>8, <2>1 DEF OrderlyAt
  <2>2. CASE ~Here(c)
    BY <1>10, <2>2 DEF OrderlyAt
  <2>3. QED
    BY <2>1, <2>2
<1>13. QED
  BY <1>1, <1>4, <1>5, <1>11, <1>12 DEF Kept

\* Only a side that is out of step, or whose client has gone, is ever not
\* ready to send; it waits for ever.
LEMMA SendNotReadyKept ==
    ASSUME ConnTypeOK, NEW e \in Side, NEW c \in Client, ConnInv(c),
           SendNotReady(e, c)
    PROVE  Kept(c)
<1> DEFINE acked == net[e][c] # <<>> /\ Head(net[e][c]) = "ack"
<1>1. /\ io[e][c] = "run" /\ stage[e][c] \in Sends(e) /\ ~send_ready[e][c]
      /\ send_ready' = [send_ready EXCEPT ![e][c] = acked]
      /\ io' = [io EXCEPT ![e][c] = IF acked THEN "run" ELSE "spin"]
      /\ net' = [net EXCEPT ![e][c] = IF acked THEN Tail(net[e][c]) ELSE net[e][c]]
      /\ sync_ids' = sync_ids /\ wants' = wants /\ leave_at' = leave_at
      /\ stage' = stage /\ left' = left /\ up' = up
  BY DEF SendNotReady, Sending, conf
<1>2. ~Together(c)
  BY <1>1 DEF Together, Even, Sent, Acked, Replied, Side, Other
<1>3. Here(c) => Clash(c) /\ net[e][c] = One("rest")
  <2>1. ~Deaf(c)
    BY <1>1 DEF Deaf, Side, Sends, Stage, FromServer
  <2>2. Here(c) => Clash(c)
    BY <1>2, <2>1 DEF ConnInv
  <2>3. Clash(c) => net[e][c] = One("rest")
    BY <1>1 DEF Clash, Side
  <2>4. QED
    BY <2>2, <2>3
<1>4. ~Here(c) => Alone(c) /\ e = "server" /\ ~Parted(c)
  BY <1>1 DEF ConnInv, Here, Parted, Side, Sends, FromServer
<1>5. ~acked
  <2>1. CASE Here(c)
    BY <1>3, <2>1, Packets
  <2>2. CASE ~Here(c)
    <3>1. \/ net[e][c] = <<>>
          \/ \E m \in Stage \cup {"rest"} : net[e][c] = One(m)
      BY <1>1, <1>4, <2>2 DEF Alone, None
    <3>2. \A m \in Stage \cup {"rest"} : Head(One(m)) # "ack"
      BY Packets DEF Stage
    <3>3. QED
      BY <3>1, <3>2
  <2>3. QED
    BY <2>1, <2>2
<1>6. /\ send_ready' = [send_ready EXCEPT ![e][c] = FALSE]
      /\ io' = [io EXCEPT ![e][c] = "spin"] /\ net' = net
  BY <1>1, <1>5 DEF ConnTypeOK
<1>7. /\ ~send_ready'[e][c] /\ send_ready'[Other(e)][c] = send_ready[Other(e)][c]
      /\ io'[e][c] = "spin" /\ io'[Other(e)][c] = io[Other(e)][c]
  <2>1. Other(e) \in Side /\ Other(e) # e
    BY Sides
  <2>2. QED
    BY <1>6, <2>1 DEF ConnTypeOK
<1>8. Elsewhere(c) /\ ConnTypeOK'
  BY <1>1, <1>6 DEF Elsewhere, Unmoved, ConnTypeOK
<1>9. (Here(c)' <=> Here(c)) /\ BranchInv(c)'
  BY <1>1, <1>7, <1>8, Sides DEF Here, ConnInv, BranchInv, Side, Sends, FromServer, Stage
<1>10. ASSUME Clash(c), net[e][c] = One("rest")
       PROVE  Clash(c)'
  <2>1. CASE e = "client"
    <3>1. stage["client"][c] = "enc_sk"
      BY <1>1, <1>10, <2>1 DEF Clash, Sends, FromServer
    <3>2. /\ io'["client"][c] = "spin" /\ io'["server"][c] = io["server"][c]
          /\ ~send_ready'["client"][c]
          /\ send_ready'["server"][c] = send_ready["server"][c]
      BY <1>7, <2>1 DEF Other
    <3>3. SaidKeys(c) /\ SaidKeys(c)' /\ (SaidCounts(c)' <=> SaidCounts(c))
      BY <1>1, <3>1, <3>2 DEF SaidKeys, SaidCounts
    <3>4. QED
      BY <1>1, <1>6, <1>10, <3>1, <3>2, <3>3 DEF Clash
  <2>2. CASE e = "server"
    <3>1. stage["server"][c] = "ids"
      BY <1>1, <1>10, <2>2 DEF Clash, Sends, FromServer
    <3>2. /\ io'["server"][c] = "spin" /\ io'["client"][c] = io["client"][c]
          /\ ~send_ready'["server"][c]
          /\ send_ready'["client"][c] = send_ready["client"][c]
      BY <1>7, <2>2 DEF Other
    <3>3. SaidCounts(c) /\ SaidCounts(c)' /\ (SaidKeys(c)' <=> SaidKeys(c))
      BY <1>1, <3>1, <3>2 DEF SaidKeys, SaidCounts
    <3>4. QED
      BY <1>1, <1>6, <1>10, <3>1, <3>2, <3>3 DEF Clash
  <2>3. QED
    BY <2>1, <2>2 DEF Side
<1>11. ~Here(c) => Alone(c)'
  BY <1>1, <1>4, <1>6, <1>7 DEF Alone
<1>12. ConnInv(c)' /\ ~OrderlyAt(c)
  BY <1>2, <1>3, <1>4, <1>9, <1>10, <1>11 DEF ConnInv, OrderlyAt
<1>13. QED
  BY <1>1, <1>8, <1>12 DEF Kept

\* What the thread does after its client has gone.
LEMMA SendToGoneKept ==
    ASSUME ConnTypeOK, NEW c \in Client, ConnInv(c), SendToGone(c)
    PROVE  Kept(c)
<1>1. /\ io["server"][c] = "run" /\ stage["server"][c] \in FromServer /\ ~Here(c)
      /\ \/ io' = io /\ send_ready' = send_ready
         \/ /\ send_ready' = [send_ready EXCEPT !["server"][c] = FALSE]
            /\ io' = [io EXCEPT !["server"][c] = "ack"]
      /\ (stage' = stage /\ left' = left) \/ Advance("server", c)
      /\ sync_ids' = sync_ids /\ wants' = wants /\ leave_at' = leave_at
      /\ net' = net
  BY DEF SendToGone, Sending, Sends, conf
<1>2. up' \in BOOLEAN
  BY DEF SendToGone, ConnTypeOK
<1>3. /\ stage["server"][c] \in Stage /\ "server" \in Side /\ "client" \in Side
      /\ BranchInv(c)
  BY <1>1 DEF ConnInv, FromServer, Stage, Side
<1>4. /\ stage'["client"][c] = stage["client"][c]
      /\ stage' \in [Side -> [Client -> Stage \cup {"branch"}]]
      /\ left' \in [Side -> [Client -> Nat]]
      /\ \A d \in Side, b \in Client :
            left'[d][b] \in 1 .. IF stage'[d][b] = "branch" THEN 1
                                ELSE Times(stage'[d][b])
      /\ \A d \in Client \ {c}, f \in Side :
            stage'[f][d] = stage[f][d] /\ left'[f][d] = left[f][d]
      /\ BranchInv(c)'
  <2>1. CASE stage' = stage /\ left' = left
    <3>1. BranchInv(c)'
      BY <1>3, <2>1 DEF BranchInv, Stage
    <3>2. QED
      BY <2>1, <3>1 DEF ConnTypeOK
  <2>2. CASE Advance("server", c)
    <3>1. stage'["server"][c] \in Stage /\ stage'["client"][c] = stage["client"][c]
      BY <1>1, <1>3, <2>2, AdvancePlace
    <3>2. BranchInv(c)'
      BY <1>3, <3>1 DEF BranchInv, Stage
    <3>3. QED
      BY <1>1, <1>3, <2>2, <3>1, <3>2, AdvancePlace
  <2>3. QED
    BY <1>1, <2>1, <2>2
<1>5. /\ Elsewhere(c) /\ ConnTypeOK' /\ io'["client"][c] = io["client"][c]
      /\ io'["server"][c] # "off"
  <2>1. /\ io' \in [Side -> [Client -> {"off", "run", "ack", "spin"}]]
        /\ send_ready' \in [Side -> [Client -> BOOLEAN]]
        /\ io'["client"][c] = io["client"][c] /\ io'["server"][c] # "off"
    <3>1. CASE io' = io /\ send_ready' = send_ready
      BY <1>1, <3>1 DEF ConnTypeOK
    <3>2. CASE /\ send_ready' = [send_ready EXCEPT !["server"][c] = FALSE]
               /\ io' = [io EXCEPT !["server"][c] = "ack"]
      BY <3>2 DEF ConnTypeOK, Side
    <3>3. QED
      BY <1>1, <3>1, <3>2
  <2>2. \A d \in Client \ {c}, f \in Side :
            io'[f][d] = io[f][d] /\ send_ready'[f][d] = send_ready[f][d]
    BY <1>1 DEF ConnTypeOK, Side
  <2>3. QED
    BY <1>1, <1>2, <1>4, <2>1, <2>2 DEF Elsewhere, Unmoved, ConnTypeOK
<1>6. ~Parted(c) /\ Alone(c)
  BY <1>1 DEF Parted, ConnInv, FromServer
<1>7. Alone(c)'
  BY <1>1, <1>5, <1>6 DEF Alone
<1>8. ConnInv(c)' /\ ~OrderlyAt(c)
  BY <1>1, <1>4, <1>5, <1>6, <1>7 DEF ConnInv, OrderlyAt, Here
<1>9. QED
  BY <1>1, <1>5, <1>8 DEF Kept

LEMMA AwaitAckClosedKept ==
    ASSUME ConnTypeOK, NEW c \in Client, ConnInv(c), AwaitAckClosed(c)
    PROVE  Kept(c)
<1>1. /\ io["server"][c] = "ack" /\ net["server"][c] = None /\ ~Here(c)
      /\ io' = [io EXCEPT !["server"][c] = "run"] /\ Advance("server", c)
      /\ sync_ids' = sync_ids /\ wants' = wants /\ leave_at' = leave_at
      /\ send_ready' = send_ready /\ net' = net /\ up' = up
  BY DEF AwaitAckClosed, conf, None
<1>2. stage["server"][c] \in Stage /\ "server" \in Side /\ "client" \in Side
  BY <1>1 DEF ConnInv, BranchInv, ConnTypeOK, Side
<1>3. /\ stage'["server"][c] \in Stage /\ stage'["client"][c] = stage["client"][c]
      /\ stage' \in [Side -> [Client -> Stage \cup {"branch"}]]
      /\ left' \in [Side -> [Client -> Nat]]
      /\ \A d \in Side, b \in Client :
            left'[d][b] \in 1 .. IF stage'[d][b] = "branch" THEN 1
                                ELSE Times(stage'[d][b])
  BY <1>1, <1>2, AdvancePlace
<1>4. \A d \in Client \ {c}, f \in Side :
            stage'[f][d] = stage[f][d] /\ left'[f][d] = left[f][d]
  BY <1>1, <1>2, AdvancePlace
<1>5. ConnTypeOK' /\ Elsewhere(c)
  <2>1. io' \in [Side -> [Client -> {"off", "run", "ack", "spin"}]]
    BY <1>1 DEF ConnTypeOK
  <2>2. ConnTypeOK'
    BY <1>1, <1>3, <2>1 DEF ConnTypeOK
  <2>3. QED
    BY <1>1, <1>4, <2>2 DEF Elsewhere, Unmoved, ConnTypeOK
<1>6. io'["client"][c] = io["client"][c]
  BY <1>1 DEF ConnTypeOK, Side
<1>7. ~Parted(c) /\ Alone(c)
  <2>1. None # One("ack")
    BY DEF None, One
  <2>2. QED
    BY <1>1, <2>1 DEF Parted, ConnInv
<1>8. Alone(c)'
  BY <1>1, <1>7 DEF Alone
<1>9. BranchInv(c)'
  BY <1>2, <1>3 DEF ConnInv, BranchInv, Stage
<1>10. ConnInv(c)' /\ ~OrderlyAt(c)
  BY <1>1, <1>6, <1>7, <1>8, <1>9 DEF ConnInv, OrderlyAt, Here
<1>11. QED
  BY <1>1, <1>5, <1>10 DEF Kept

LEMMA ReceiveClosedKept ==
    ASSUME ConnTypeOK, NEW c \in Client, ConnInv(c), ReceiveClosed(c)
    PROVE  Kept(c)
<1>1. /\ io["server"][c] = "run" /\ net["server"][c] = None /\ ~Here(c)
      /\ wants' = wants /\ leave_at' = leave_at
      /\ left' = left /\ send_ready' = send_ready /\ net' = net
  BY DEF ReceiveClosed, Receiving, conf, None
<1>2. Alone(c)' /\ "server" \in Side /\ "client" \in Side
  BY <1>1 DEF Alone, ConnInv, Side
<1>3. CASE /\ stage["server"][c] = "flag" /\ sync_ids' = FALSE
           /\ stage' = [stage EXCEPT !["server"][c] = "branch"]
           /\ io' = io /\ up' = up
  <2>1. left["server"][c] = 1
    <3>1. left["server"][c] \in 1 .. IF stage["server"][c] = "branch" THEN 1
                                    ELSE Times(stage["server"][c])
      BY <1>2 DEF ConnTypeOK
    <3>2. QED
      BY <1>3, <3>1 DEF Times
  <2>2. /\ stage'["server"][c] = "branch" /\ stage'["client"][c] = stage["client"][c]
        /\ \A d \in Client \ {c}, f \in Side : stage'[f][d] = stage[f][d]
        /\ stage' \in [Side -> [Client -> Stage \cup {"branch"}]]
    BY <1>2, <1>3 DEF ConnTypeOK
  <2>3. ASSUME NEW d \in Side, NEW b \in Client
        PROVE  left'[d][b] \in 1 .. IF stage'[d][b] = "branch" THEN 1
                                   ELSE Times(stage'[d][b])
    <3>1. CASE d = "server" /\ b = c
      BY <1>1, <2>1, <2>2, <3>1
    <3>2. CASE d # "server" \/ b # c
      <4>1. stage'[d][b] = stage[d][b]
        BY <1>3, <3>2 DEF ConnTypeOK
      <4>2. left[d][b] \in 1 .. IF stage[d][b] = "branch" THEN 1
                               ELSE Times(stage[d][b])
        BY DEF ConnTypeOK
      <4>3. QED
        BY <1>1, <4>1, <4>2
    <3>3. QED
      BY <3>1, <3>2
  <2>4. ConnTypeOK'
    BY <1>1, <1>3, <2>2, <2>3 DEF ConnTypeOK
  <2>5. Elsewhere(c)
    BY <1>1, <1>3, <2>2 DEF Elsewhere, Unmoved
  <2>6. ConnInv(c)' /\ ~OrderlyAt(c)
    BY <1>1, <1>2, <1>3, <2>2 DEF ConnInv, BranchInv, Here, OrderlyAt, Parted
  <2>7. QED
    BY <1>1, <2>4, <2>5, <2>6 DEF Kept
<1>4. CASE /\ stage["server"][c] = "enc_sk" /\ up' = FALSE
           /\ sync_ids' = sync_ids /\ stage' = stage /\ io' = io
  <2>1. ConnTypeOK' /\ Elsewhere(c)
    BY <1>1, <1>4 DEF ConnTypeOK, Elsewhere, Unmoved
  <2>2. ConnInv(c)' /\ ~OrderlyAt(c)
    BY <1>1, <1>2, <1>4 DEF ConnInv, BranchInv, Here, OrderlyAt, Parted
  <2>3. QED
    BY <1>1, <1>4, <2>1, <2>2 DEF Kept
<1>5. CASE /\ stage["server"][c] \in {"galois", "id_mod", "ct"}
           /\ io' = [io EXCEPT !["server"][c] = "off"]
           /\ sync_ids' = sync_ids /\ stage' = stage /\ up' = up
  <2>1. /\ ConnTypeOK' /\ Elsewhere(c) /\ io'["client"][c] = io["client"][c]
        /\ io'["server"][c] = "off"
    BY <1>1, <1>2, <1>5 DEF ConnTypeOK, Elsewhere, Unmoved
  <2>2. ConnInv(c)'
    BY <1>1, <1>2, <1>5, <2>1 DEF ConnInv, BranchInv, Here
  <2>3. Parted(c)' /\ (Here(c)' <=> Here(c))
    BY <2>1 DEF Parted, Here
  <2>4. OrderlyAt(c) => OrderlyAt(c)'
    BY <1>1, <1>5, <2>3 DEF OrderlyAt
  <2>5. QED
    BY <1>1, <1>5, <2>1, <2>2, <2>4 DEF Kept
<1>6. QED
  BY <1>3, <1>4, <1>5 DEF ReceiveClosed

\* A new connection starts in step.
LEMMA ConnectKept ==
    ASSUME ConnTypeOK, NEW c \in Client, ConnInv(c), Connect(c)
    PROVE  Kept(c)
<1>1. /\ sync_ids' = sync_ids /\ wants' = wants /\ leave_at' = leave_at /\ up' = up
      /\ stage' = [e \in Side |-> [stage[e] EXCEPT ![c] = "flag"]]
      /\ left' = [e \in Side |-> [left[e] EXCEPT ![c] = 1]]
      /\ io' = [e \in Side |-> [io[e] EXCEPT ![c] = "run"]]
      /\ send_ready' = [e \in Side |-> [send_ready[e] EXCEPT ![c] = TRUE]]
      /\ net' = [e \in Side |-> [net[e] EXCEPT ![c] = <<>>]]
  BY DEF Connect, conf
<1>2. \A e \in Side :
        /\ stage'[e][c] = "flag" /\ left'[e][c] = 1 /\ io'[e][c] = "run"
        /\ send_ready'[e][c] /\ net'[e][c] = None
  BY <1>1 DEF ConnTypeOK, None
<1>3. Elsewhere(c)
  BY <1>1 DEF ConnTypeOK, Elsewhere, Unmoved
<1>4. ConnTypeOK'
  <2>1. /\ stage' \in [Side -> [Client -> Stage \cup {"branch"}]]
        /\ left' \in [Side -> [Client -> Nat]]
    BY <1>1 DEF ConnTypeOK, Stage
  <2>2. /\ io' \in [Side -> [Client -> {"off", "run", "ack", "spin"}]]
        /\ send_ready' \in [Side -> [Client -> BOOLEAN]]
    BY <1>1 DEF ConnTypeOK
  <2>3. net' \in [Side -> [Client -> Seq(Stage \cup {"ack", "rest"})]]
    <3>1. <<>> \in Seq(Stage \cup {"ack", "rest"})
      OBVIOUS
    <3>2. QED
      BY <1>1, <3>1 DEF ConnTypeOK
  <2>4. ASSUME NEW d \in Side, NEW b \in Client
        PROVE  left'[d][b] \in 1 .. IF stage'[d][b] = "branch" THEN 1
                                   ELSE Times(stage'[d][b])
    <3>1. CASE b = c
      <4>1. Times("flag") = 1
        BY DEF Times
      <4>2. QED
        BY <1>2, <3>1, <4>1
    <3>2. CASE b # c
      <4>1. left[d][b] \in 1 .. IF stage[d][b] = "branch" THEN 1
                               ELSE Times(stage[d][b])
        BY DEF ConnTypeOK
      <4>2. QED
        BY <1>3, <3>2, <4>1 DEF Elsewhere, Unmoved
    <3>3. QED
      BY <3>1, <3>2
  <2>5. QED
    BY <1>1, <2>1, <2>2, <2>3, <2>4 DEF ConnTypeOK
<1>5. Together(c)' /\ Here(c)'
  <2>1. Place("client", c)' = Place("server", c)'
    BY <1>2 DEF Place, Side
  <2>2. Even(c)'
    BY <1>2, <2>1 DEF Even
  <2>3. QED
    BY <1>2, <2>2 DEF Together, Here, Side
<1>6. BranchInv(c)' /\ stage'["server"][c] = "flag"
  BY <1>2 DEF BranchInv, Side
<1>7. ConnInv(c)' /\ OrderlyAt(c)'
  BY <1>5, <1>6 DEF ConnInv, OrderlyAt
<1>8. QED
  BY <1>1, <1>3, <1>4, <1>7 DEF Kept

\* A client that runs on is not waiting: its thread has at most an
\* acknowledgement before it, or the two are out of step.
LEMMA LeaveKept ==
    ASSUME ConnTypeOK, NEW c \in Client, ConnInv(c), Leave(c)
    PROVE  Kept(c)
<1>0. "server" \in Side /\ "client" \in Side /\ Other("server") = "client"
      /\ Other("client") = "server" /\ \A e \in Side : e = "server" \/ e = "client"
  BY DEF Side, Other
<1>1. /\ sync_ids' = sync_ids /\ wants' = wants /\ leave_at' = leave_at /\ up' = up
      /\ io["client"][c] = "run" /\ stage["client"][c] \in leave_at
      /\ io' = [io EXCEPT !["client"][c] = "off"]
      /\ net' = [net EXCEPT !["client"][c] = <<>>]
      /\ stage' = stage /\ left' = left /\ send_ready' = send_ready
  BY DEF Leave, conf
<1>2. /\ io'["client"][c] = "off" /\ io'["server"][c] = io["server"][c]
      /\ net'["client"][c] = None /\ net'["server"][c] = net["server"][c]
  BY <1>0, <1>1 DEF ConnTypeOK, None
<1>3. Elsewhere(c)
  BY <1>1 DEF ConnTypeOK, Elsewhere, Unmoved
<1>4. ConnTypeOK'
  <2>1. net' \in [Side -> [Client -> Seq(Stage \cup {"ack", "rest"})]]
    <3>1. <<>> \in Seq(Stage \cup {"ack", "rest"})
      OBVIOUS
    <3>2. QED
      BY <1>1, <3>1 DEF ConnTypeOK
  <2>2. io' \in [Side -> [Client -> {"off", "run", "ack", "spin"}]]
    BY <1>1 DEF ConnTypeOK
  <2>3. QED
    BY <1>1, <2>1, <2>2 DEF ConnTypeOK
<1>5. Here(c) /\ ~Here(c)'
  BY <1>1, <1>2 DEF Here
<1>6. ASSUME Together(c)
      PROVE  Even(c) \/ Sent("server", c) \/ Acked("server", c)
  <2>1. /\ ~Sent("client", c) /\ ~Acked("client", c)
        /\ ~Replied("client", c) /\ ~Replied("server", c)
    BY <1>0, <1>1 DEF Sent, Acked, Replied
  <2>2. QED
    BY <1>0, <1>6, <2>1 DEF Together
<1>7. Alone(c)'
  <2>1. CASE Together(c)
    BY <1>0, <1>2, <1>6, <2>1 DEF Alone, Even, Sent, Acked
  <2>2. CASE Deaf(c)
    BY <1>2, <2>2 DEF Alone, Deaf
  <2>3. CASE Clash(c)
    <3>1. /\ io["server"][c] # "off"
          /\ net["server"][c] \in {None, One("galois"), One("rest")}
      BY <2>3 DEF Clash
    <3>2. QED
      BY <1>2, <3>1 DEF Alone, Stage
  <2>4. QED
    BY <1>5, <2>1, <2>2, <2>3 DEF ConnInv
<1>8. ConnInv(c)'
  <2>1. BranchInv(c)'
    BY <1>1, <1>2 DEF ConnInv, BranchInv
  <2>2. QED
    BY <1>5, <1>7, <2>1 DEF ConnInv
<1>9. ASSUME Orderly, OrderlyAt(c)
      PROVE  Parted(c)
  <2>1. stage["client"][c] = "id_mod" /\ Together(c)
    BY <1>1, <1>5, <1>9 DEF Orderly, OrderlyAt
  <2>2. Place("client", c) = <<"id_mod", left["client"][c]>>
    BY <2>1 DEF Place
  <2>3. CASE Even(c) \/ Sent("server", c)
    <3>1. Place("server", c) = <<"id_mod", left["client"][c]>>
      BY <2>2, <2>3 DEF Even, Sent
    <3>2. stage["server"][c] = "id_mod"
      BY <3>1 DEF Place, After
    <3>3. Even(c)
      BY <2>3, <3>2 DEF Sent, Sends, FromServer
    <3>4. QED
      BY <1>0, <3>2, <3>3 DEF Parted, Even
  <2>4. CASE Acked("server", c)
    <3>1. /\ PlaceAfter("server", c) = <<"id_mod", left["client"][c]>>
          /\ stage["server"][c] \in FromServer
          /\ io["server"][c] = "ack" /\ net["server"][c] = One("ack")
      BY <1>0, <2>2, <2>4 DEF Acked, Sends
    <3>2. stage["server"][c] = "reply"
      BY <3>1 DEF PlaceAfter, After, FromServer
    <3>3. QED
      BY <3>1, <3>2 DEF Parted
  <2>5. QED
    BY <1>6, <2>1, <2>3, <2>4
<1>10. Parted(c) => Parted(c)'
  BY <1>1, <1>2 DEF Parted
<1>11. Orderly /\ OrderlyAt(c) => OrderlyAt(c)'
  BY <1>1, <1>5, <1>9, <1>10 DEF OrderlyAt
<1>12. QED
  BY <1>1, <1>3, <1>4, <1>8, <1>11 DEF Kept

-----------------------------------------------------------------------------
(***************************************************************************)
(* The inductive invariant                                                  *)
(***************************************************************************)

LEMMA InitIInv == Init => IInv
<1> SUFFICES ASSUME Init
             PROVE  IInv
  OBVIOUS
<1>1. /\ \A e \in Side, c \in Client :
            /\ stage[e][c] = "flag" /\ left[e][c] = 1 /\ io[e][c] = "off"
            /\ net[e][c] = None
      /\ sync_ids = FALSE /\ up = TRUE
  BY DEF Init, None
<1>2. ConnTypeOK
  <2>1. /\ stage \in [Side -> [Client -> Stage \cup {"branch"}]]
        /\ left \in [Side -> [Client -> Nat]]
        /\ io \in [Side -> [Client -> {"off", "run", "ack", "spin"}]]
        /\ send_ready \in [Side -> [Client -> BOOLEAN]]
    BY DEF Init, Stage
  <2>2. net \in [Side -> [Client -> Seq(Stage \cup {"ack", "rest"})]]
    <3>1. <<>> \in Seq(Stage \cup {"ack", "rest"})
      OBVIOUS
    <3>2. QED
      BY <3>1 DEF Init
  <2>3. \A e \in Side, c \in Client :
            left[e][c] \in 1 .. IF stage[e][c] = "branch" THEN 1
                                ELSE Times(stage[e][c])
    BY <1>1 DEF Times
  <2>4. QED
    BY <1>1, <2>1, <2>2, <2>3 DEF ConnTypeOK, Init
<1>3. ASSUME NEW c \in Client
      PROVE  ConnInv(c) /\ OrderlyAt(c)
  BY <1>1 DEF ConnInv, BranchInv, Alone, OrderlyAt, Parted, Here, Side
<1>4. QED
  BY <1>1, <1>2, <1>3 DEF IInv, OrderlyInv

\* Whatever keeps its own connection keeps them all: another client can only
\* change the global, and orderly clients change it to what they all want.
LEMMA KeptIInv ==
    ASSUME IInv, NEW c \in Client, Kept(c)
    PROVE  IInv'
<1>1. /\ ConnTypeOK' /\ Elsewhere(c) /\ ConnInv(c)'
      /\ wants' = wants /\ leave_at' = leave_at
      /\ up /\ Orderly /\ OrderlyAt(c) =>
            up' /\ OrderlyAt(c)' /\ sync_ids' \in {sync_ids, wants[c]}
  BY DEF Kept
<1>2. ASSUME NEW d \in Client
      PROVE  ConnInv(d)'
  <2>1. CASE d = c
    BY <1>1, <2>1
  <2>2. CASE d # c
    BY <1>1, <2>2, UnmovedInv DEF IInv, Elsewhere
  <2>3. QED
    BY <2>1, <2>2
<1>3. ASSUME Orderly'
      PROVE  up' /\ \A d \in Client : OrderlyAt(d)'
  <2>1. Orderly
    BY <1>1, <1>3 DEF Orderly
  <2>2. up /\ \A d \in Client : OrderlyAt(d)
    BY <2>1 DEF IInv, OrderlyInv
  <2>3. up' /\ OrderlyAt(c)' /\ sync_ids' \in {sync_ids, wants[c]}
    BY <1>1, <2>1, <2>2
  <2>4. ASSUME NEW d \in Client, d # c
        PROVE  OrderlyAt(d)'
    <3>1. /\ (Here(d)' <=> Here(d)) /\ stage'["server"][d] = stage["server"][d]
          /\ Together(d) => Together(d)'
          /\ Parted(d) => Parted(d)'
      BY <1>1, <2>4, UnmovedInv DEF Elsewhere
    <3>2. wants[c] = wants[d]
      BY <2>1 DEF Orderly
    <3>3. QED
      BY <1>1, <2>2, <2>3, <3>1, <3>2 DEF OrderlyAt
  <2>5. QED
    BY <2>3, <2>4
<1>4. QED
  BY <1>1, <1>2, <1>3 DEF IInv, OrderlyInv

LEMMA NextIInv ==
    ASSUME IInv, [Next]_vars
    PROVE  IInv'
<1>1. ASSUME NEW c \in Client, Connect(c)
      PROVE  Kept(c)
  BY <1>1, ConnectKept DEF IInv
<1>2. ASSUME NEW c \in Client, Leave(c)
      PROVE  Kept(c)
  BY <1>2, LeaveKept DEF IInv
<1>3. ASSUME NEW c \in Client, ServerStep(c)
      PROVE  Kept(c)
  BY <1>3, SendMessageKept, SendToGoneKept, AwaitAckKept, AwaitAckClosedKept,
     SendNotReadyKept, ReceiveFlagKept, BranchKept, ReceiveKept, ReceiveClosedKept
     DEF ServerStep, IInv, Side
<1>4. ASSUME NEW c \in Client, ClientStep(c)
      PROVE  Kept(c)
  BY <1>4, SendMessageKept, AwaitAckKept, SendNotReadyKept, ReceiveKept
     DEF ClientStep, IInv, Side
<1>5. CASE UNCHANGED vars
  <2>1. /\ wants' = wants /\ leave_at' = leave_at /\ sync_ids' = sync_ids
        /\ stage' = stage /\ left' = left /\ io' = io
        /\ send_ready' = send_ready /\ net' = net /\ up' = up
    BY <1>5 DEF vars, conf
  <2>2. ConnTypeOK'
    BY <2>1 DEF IInv, ConnTypeOK
  <2>3. ASSUME NEW c \in Client
        PROVE  ConnInv(c)' /\ (OrderlyAt(c) => OrderlyAt(c)')
    <3>1. Unmoved(c) /\ ConnInv(c)
      BY <2>1 DEF Unmoved, IInv
    <3>2. /\ ConnInv(c)' /\ (Here(c)' <=> Here(c))
          /\ (Together(c) => Together(c)') /\ (Parted(c) => Parted(c)')
      BY <2>1, <3>1, UnmovedInv
    <3>3. QED
      BY <2>1, <3>2 DEF OrderlyAt
  <2>4. Orderly' => Orderly
    BY <2>1 DEF Orderly
  <2>5. QED
    BY <2>1, <2>2, <2>3, <2>4 DEF IInv, OrderlyInv
<1>6. QED
  BY <1>1, <1>2, <1>3, <1>4, <1>5, KeptIInv DEF Next

\* The inductive invariant holds in every state.
THEOREM InductiveInvariant == Spec => []IInv
<1>1. Init => IInv
  BY InitIInv
<1>2. IInv /\ [Next]_vars => IInv'
  BY NextIInv
<1>3. QED
  BY <1>1, <1>2, PTL DEF Spec

-----------------------------------------------------------------------------
(***************************************************************************)
(* What it means for the properties                                         *)
(***************************************************************************)

\* A connection in step, in the words of InStepAt.
LEMMA TogetherInStep ==
    ASSUME NEW c \in Client, Together(c)
    PROVE  InStepAt(c)
<1>1. CASE Even(c) \/ \E e \in Side : Sent(e, c)
  BY <1>1 DEF Even, Sent, InStepAt
<1>2. ASSUME NEW e \in Side, Acked(e, c) \/ Replied(e, c)
      PROVE  InStepAt(c)
  <2>1. io[e][c] = "ack" /\ PlaceAfter(e, c) = Place(Other(e), c)
    BY <1>2 DEF Acked, Replied
  <2>2. net[e][c] = One("ack") \/ net[e][c] = AckAnd(stage[Other(e)][c])
    BY <1>2 DEF Acked, Replied
  <2>3. net[e][c] # <<>> /\ Head(net[e][c]) = "ack"
    BY <2>2, Packets
  <2>4. QED
    BY <2>1, <2>3 DEF InStepAt
<1>3. QED
  BY <1>1, <1>2 DEF Together

\* All that is ever on its way to a side.
LEMMA OnItsWay ==
    ASSUME NEW c \in Client, NEW e \in Side, ConnInv(c)
    PROVE  \/ net[e][c] = None
           \/ \E m : m # "ack" /\ net[e][c] = One(m)
           \/ io[e][c] = "ack" /\ net[e][c] = One("ack")
           \/ \E m : io[e][c] = "ack" /\ net[e][c] = AckAnd(m)
<1>0. "server" \in Side /\ "client" \in Side /\ Other("server") = "client"
      /\ Other("client") = "server" /\ \A d \in Side : d = "server" \/ d = "client"
  BY DEF Side, Other
<1>1. CASE Even(c)
  BY <1>1 DEF Even
<1>2. ASSUME NEW d \in Side, Sent(d, c)
      PROVE  net[e][c] = None \/ (\E m : m # "ack" /\ net[e][c] = One(m))
  <2>1. stage[d][c] # "ack"
    BY <1>2 DEF Sent, Sends, Stage, FromServer
  <2>2. QED
    BY <1>0, <1>2, <2>1 DEF Sent
<1>3. ASSUME NEW d \in Side, Acked(d, c) \/ Replied(d, c)
      PROVE  \/ net[e][c] = None
             \/ io[e][c] = "ack" /\ net[e][c] = One("ack")
             \/ \E m : io[e][c] = "ack" /\ net[e][c] = AckAnd(m)
  BY <1>0, <1>3 DEF Acked, Replied
<1>4. CASE Deaf(c)
  BY <1>0, <1>4 DEF Deaf
<1>5. CASE Clash(c)
  BY <1>0, <1>5 DEF Clash
<1>6. CASE ~Here(c) /\ Alone(c)
  <2>1. \A m \in Stage : m # "ack"
    BY DEF Stage
  <2>2. QED
    BY <1>0, <1>6, <2>1 DEF Alone
<1>7. QED
  BY <1>1, <1>2, <1>3, <1>4, <1>5, <1>6 DEF ConnInv, Together

\* Every variable keeps its type, and no side's count of the messages to come
\* reaches zero or passes what the stage has.
THEOREM ConnTypeCorrect == Spec => []ConnTypeOK
<1>1. IInv => ConnTypeOK
  BY DEF IInv
<1>2. QED
  BY <1>1, InductiveInvariant, PTL

\* one_time_receive never finds anything behind the message it reads, and an
\* acknowledgement only ever comes to a side that waits for one.
THEOREM NothingFollows == Spec => []NothingBehindAMessage
<1>1. ASSUME IInv, NEW e \in Side, NEW c \in Client
      PROVE  /\ \A i \in DOMAIN net[e][c] :
                    net[e][c][i] \in Stage => i = Len(net[e][c])
             /\ Contains(net[e][c], "ack") =>
                    io[e][c] = "ack" /\ net[e][c][1] = "ack"
  <2>0. ConnInv(c) /\ "ack" \notin Stage
    BY <1>1 DEF IInv, Stage
  <2>1. CASE net[e][c] = None
    BY <2>1 DEF None, Contains
  <2>2. ASSUME NEW m, m # "ack", net[e][c] = One(m)
        PROVE  /\ \A i \in DOMAIN net[e][c] : i = Len(net[e][c])
               /\ ~Contains(net[e][c], "ack")
    BY <2>2 DEF One, Contains
  <2>3. CASE io[e][c] = "ack" /\ net[e][c] = One("ack")
    BY <2>3 DEF One
  <2>4. ASSUME NEW m, io[e][c] = "ack", net[e][c] = AckAnd(m)
        PROVE  /\ \A i \in DOMAIN net[e][c] :
                      net[e][c][i] \in Stage => i = Len(net[e][c])
               /\ net[e][c][1] = "ack"
    BY <2>0, <2>4 DEF AckAnd
  <2>5. QED
    BY <2>0, <2>1, <2>2, <2>3, <2>4, OnItsWay
<1>2. IInv => NothingBehindAMessage
  BY <1>1 DEF NothingBehindAMessage
<1>3. QED
  BY <1>2, InductiveInvariant, PTL

\* Orderly clients: the two sides of every connection are in step.
THEOREM StaysInStep == Spec => []InStep
<1>1. IInv => InStep
  BY TogetherInStep DEF IInv, OrderlyInv, OrderlyAt, InStep
<1>2. QED
  BY <1>1, InductiveInvariant, PTL

\* Any clients: a connection that has gone out of step ends with the
\* handshake.
THEOREM QueriesStayInStep == Spec => []QueriesInStep
<1>1. ASSUME IInv, NEW c \in Client, NEW e \in Side, Here(c),
             stage[e][c] \in {"id_mod", "ct", "reply"}
      PROVE  InStepAt(c)
  <2>1. ~Deaf(c) /\ ~Clash(c)
    BY <1>1 DEF Deaf, Clash, Side
  <2>2. Together(c)
    BY <1>1, <2>1 DEF IInv, ConnInv
  <2>3. QED
    BY <2>2, TogetherInStep
<1>2. IInv => QueriesInStep
  BY <1>1 DEF QueriesInStep
<1>3. QED
  BY <1>2, InductiveInvariant, PTL

\* A client that is stopped at the prompt does not bring the server down.
THEOREM ServerSurvives == Spec => []ServerStaysUp
<1>1. IInv => ServerStaysUp
  BY DEF IInv, OrderlyInv, ServerStaysUp
<1>2. QED
  BY <1>1, InductiveInvariant, PTL

=============================================================================
