---------------------------- MODULE Stream_proofs ----------------------------
(***************************************************************************)
(* Stream for any dialogue and any sizes: its types, and that it does only   *)
(* what Channel allows.                                                     *)
(*                                                                         *)
(* What an end is sent from one acknowledgement to the next message of its   *)
(* own is a script: the acknowledgement, then the length and the content of  *)
(* the next message, if that is its peer's.  All that is ever on its way is a *)
(* stretch of the script of one message, from where the reader is to where   *)
(* the writer is.  The inductive invariant says where the two may be (Even,  *)
(* Behind), where the reader may be once a recv cut an acknowledgement       *)
(* (CutReceiver, CutSender), and what an end is left with when its peer has  *)
(* gone (Alone).                                                            *)
(***************************************************************************)
EXTENDS Stream, FiniteSetTheorems, SequenceTheorems, TLAPS

\* All that an end is sent from an acknowledgement on, when message i is next
\* and is not its own.
Script(i) ==
    Finished \o (IF i <= NumMessages THEN Length(i) \o Content(i) ELSE <<>>)
Total(i) ==
    AckSize + IF i <= NumMessages THEN HeaderSize + Dialogue[i].length ELSE 0
Stretch(s, a, b) == SubSeq(s, a + 1, b)

\* How far its peer's script f has come with the message it is at.
Progress(f) ==
    CASE pc[f] = "sending" -> Total(turn[f]) - size[f]
      [] pc[f] = "ack" -> Total(turn[f])
      [] OTHER -> AckSize

\* An end is at a message that is there, and on the right side of it.
TurnInv ==
    \A e \in End :
        /\ pc[e] \in {"sending", "ack"} =>
            turn[e] <= NumMessages /\ Dialogue[turn[e]].from = e
        /\ pc[e] \in {"receiving", "finish"} =>
            turn[e] <= NumMessages /\ Dialogue[turn[e]].from # e
        /\ pc[e] = "sending" => size[e] <= Dialogue[turn[e]].length

\* An end is gone only if a recv cut something, or somebody was stopped.
TroubleInv == \A e \in End : Gone(e) => cut \/ \E d \in End : pc[d] = "left"

\* f has read all there is for it.
Sends(f) ==
    /\ pc[f] \in {"idle", "sending", "ack"}
    /\ wire[f] = <<>>
    /\ pc[f] # "ack" => send_ready[f]

\* t has taken what it was sent of its script, up to b, for what it is.
Reads(t, b) ==
    LET i == turn[t] IN
    /\ b \in AckSize .. Total(i)
    /\ ToReceive(t) \/ pc[t] # "idle" \/ b = AckSize
    /\ \/ /\ pc[t] = "idle"
          /\ wire[t] = Stretch(Script(i), AckSize, b)
       \/ LET a == AckSize + HeaderSize + Len(message[t]) IN
          /\ pc[t] = "receiving"
          /\ a <= b
          /\ size[t] = Total(i) - a /\ size[t] > 0
          /\ message[t] = Stretch(Script(i), AckSize + HeaderSize, a)
          /\ wire[t] = Stretch(Script(i), a, b)
       \/ /\ pc[t] = "finish"
          /\ b = Total(i) /\ size[t] = 0
          /\ message[t] = Content(i)
          /\ wire[t] = <<>>

\* t waits for an acknowledgement, which has arrived, and its script up to b.
HasAck(t, b) ==
    LET i == turn[t] + 1 IN
    /\ pc[t] = "ack" \/ (pc[t] = "sending" /\ size[t] = 0)
    /\ b \in AckSize .. Total(i)
    /\ b = AckSize \/ Dialogue[i].from # t
    /\ wire[t] = Stretch(Script(i), 0, b)

\* t takes the rest of an acknowledgement for a length: for more than will come.
Junk(t, b) ==
    LET i == turn[t] IN
    /\ i <= NumMessages /\ Dialogue[i].from # t
    /\ b \in AckSize .. Total(i)
    /\ \/ /\ pc[t] = "idle"
          /\ \E a \in 1 .. AckSize - 1 : wire[t] = Stretch(Script(i), a, b)
       \/ /\ pc[t] = "receiving"
          /\ Len(wire[t]) + (Total(i) - b) < size[t]

\* t has to send and is not ready; the rest of an acknowledgement does not help.
NotReady(t) ==
    /\ ~send_ready[t]
    /\ \/ /\ pc[t] = "idle" /\ ~ToReceive(t)
          /\ \E a \in 1 .. AckSize - 1 :
                wire[t] = Stretch(Script(turn[t]), a, AckSize)
       \/ pc[t] = "spin"

\* Both ends are there: f is ahead or at the same message.
Even(f, t) ==
    /\ ~cut /\ turn[f] = turn[t] /\ ~ToSend(t)
    /\ Sends(f) /\ send_ready[t] /\ Reads(t, Progress(f))
    /\ Len(received) = turn[t] - 1
Behind(f, t) ==
    /\ ~cut /\ turn[f] = turn[t] + 1
    /\ Sends(f) /\ HasAck(t, Progress(f))
    /\ Len(received) = turn[t]
CutReceiver(f, t) ==
    /\ cut /\ turn[f] = turn[t] /\ Sends(f) /\ Junk(t, Progress(f))
CutSender(f, t) ==
    /\ cut /\ turn[f] = turn[t]
    /\ pc[f] = "idle" /\ ~ToSend(f) /\ wire[f] = <<>>
    /\ NotReady(t)

\* The peer has gone, and what has arrived is all there is.
Alone(t) ==
    \/ wire[t] = <<>> /\ pc[t] # "finish"
    \/ NotReady(t)
    \/ \E b \in Nat : Junk(t, b)
    \/ /\ turn[Peer(t)] = turn[t] /\ Len(received) = turn[t] - 1
       /\ \E b \in Nat : Reads(t, b)
    \/ /\ turn[Peer(t)] = turn[t] + 1 /\ Len(received) = turn[t]
       /\ \E b \in Nat : HasAck(t, b)

Pair(f, t) ==
    \/ Even(f, t)
    \/ Behind(f, t)
    \/ CutReceiver(f, t)
    \/ CutSender(f, t)

EndsInv ==
    /\ (\A e \in End : ~Gone(e)) => \E f \in End : Pair(f, Peer(f))
    /\ \A e \in End : ~Gone(e) /\ Gone(Peer(e)) => Alone(e)

\* The inductive invariant.
IInv == StreamTypeOK /\ TurnInv /\ TroubleInv /\ EndsInv

-----------------------------------------------------------------------------
(***************************************************************************)
(* Bytes and scripts.                                                       *)
(***************************************************************************)

\* The two ends and the sizes.
LEMMA Basics ==
    /\ Client # Server /\ End = {Client, Server}
    /\ HeaderSize \in Nat \ {0} /\ AckSize \in Nat \ {0}
    /\ Modulus \in Nat \ {0} /\ 0 \in 0 .. Modulus - 1
    /\ NumMessages \in Nat
    /\ \A e \in End : Peer(e) \in End /\ Peer(e) # e /\ Peer(Peer(e)) = e
    /\ \A e \in End, d \in End : d = e \/ d = Peer(e)
<1>1. NumMessages \in Nat
  BY DialogueAssumption, LenProperties DEF NumMessages
<1>2. 0 \in 0 .. Modulus - 1
  BY SizeAssumption
<1>3. QED
  BY <1>1, <1>2, DialogueAssumption, SizeAssumption DEF End, Peer

LEMMA BufferIs == \A e \in End : BufferSize[e] \in Int
BY SizeAssumption

\* A message of the dialogue.
LEMMA MessageIs ==
    ASSUME NEW i \in 1 .. NumMessages
    PROVE  /\ Dialogue[i].from \in End /\ Dialogue[i].length \in Nat
           /\ Dialogue[i].length < Modulus
<1>1. Dialogue[i] \in [from : End, length : Nat]
  BY DialogueAssumption, ElementOfSeq DEF NumMessages
<1>2. Dialogue[i] \in Range(Dialogue)
  BY DialogueAssumption, LenProperties DEF NumMessages, Range
<1>3. QED
  BY <1>1, <1>2, SizeAssumption

\* The bytes of one kind.
LEMMA BytesIs ==
    ASSUME NEW part, NEW i, NEW n \in Nat,
           \/ part \in {"length", "content"} /\ i \in 1 .. NumMessages
           \/ part = "ack" /\ i = 0
    PROVE  /\ Bytes(part, i, n) \in Seq(Byte) /\ Len(Bytes(part, i, n)) = n
           /\ \A j \in 1 .. n :
                Bytes(part, i, n)[j] = [part |-> part, of |-> i, at |-> j]
<1> DEFINE b == Bytes(part, i, n)
<1>1. b = [j \in 1 .. n |-> [part |-> part, of |-> i, at |-> j]]
  BY DEF Bytes
<1>2. \A j \in 1 .. n : [part |-> part, of |-> i, at |-> j] \in Byte
  BY DEF Byte
<1>3. b \in [1 .. n -> Byte] /\ DOMAIN b = 1 .. n
  BY <1>1, <1>2
<1>4. \A j \in 1 .. n : b[j] = [part |-> part, of |-> i, at |-> j]
  BY <1>1
<1> HIDE DEF b
<1>5. b \in Seq(Byte) /\ Len(b) = n
  BY <1>3
<1>6. QED
  BY <1>4, <1>5 DEF b

\* What a script has at each place.
LEMMA ScriptIs ==
    ASSUME NEW i \in 1 .. NumMessages + 1
    PROVE  /\ Total(i) \in Nat /\ AckSize <= Total(i)
           /\ Script(i) \in Seq(Byte) /\ Len(Script(i)) = Total(i)
           /\ \A j \in 1 .. AckSize :
                Script(i)[j] = [part |-> "ack", of |-> 0, at |-> j]
           /\ i <= NumMessages =>
                /\ Total(i) = AckSize + HeaderSize + Dialogue[i].length
                /\ \A j \in 1 .. HeaderSize : Script(i)[AckSize + j] =
                    [part |-> "length", of |-> i, at |-> j]
                /\ \A j \in 1 .. Dialogue[i].length :
                    Script(i)[AckSize + HeaderSize + j] =
                        [part |-> "content", of |-> i, at |-> j]
           /\ i > NumMessages => Total(i) = AckSize
<1> DEFINE A == AckSize
           H == HeaderSize
           l == Dialogue[i].length
           message_ == Length(i) \o Content(i)
<1>1. A \in Nat \ {0} /\ H \in Nat \ {0} /\ NumMessages \in Nat
  BY Basics
<1>2. /\ Finished \in Seq(Byte) /\ Len(Finished) = A
      /\ \A j \in 1 .. A : Finished[j] = [part |-> "ack", of |-> 0, at |-> j]
  BY <1>1, BytesIs DEF Finished
<1>3. CASE i <= NumMessages
  <2>1. i \in 1 .. NumMessages
    BY <1>1, <1>3
  <2>2. l \in Nat
    BY <2>1, MessageIs
  <2>3. /\ Length(i) \in Seq(Byte) /\ Len(Length(i)) = H
        /\ \A j \in 1 .. H : Length(i)[j] = [part |-> "length", of |-> i, at |-> j]
    BY <1>1, <2>1, BytesIs DEF Length
  <2>4. /\ Content(i) \in Seq(Byte) /\ Len(Content(i)) = l
        /\ \A j \in 1 .. l : Content(i)[j] = [part |-> "content", of |-> i, at |-> j]
    BY <2>1, <2>2, BytesIs DEF Content
  <2>5. /\ message_ \in Seq(Byte) /\ Len(message_) = H + l
        /\ \A j \in 1 .. H + l : message_[j] =
                IF j <= H THEN Length(i)[j] ELSE Content(i)[j - H]
    <3> DEFINE s == Length(i)
               t == Content(i)
    <3>1. /\ H \in Nat /\ l \in Nat /\ s \in Seq(Byte) /\ Len(s) = H
          /\ t \in Seq(Byte) /\ Len(t) = l
      BY <1>1, <2>2, <2>3, <2>4
    <3> HIDE DEF H, l, s, t
    <3>0. /\ s \o t \in Seq(Byte) /\ Len(s \o t) = Len(s) + Len(t)
          /\ \A j \in 1 .. Len(s) + Len(t) :
                (s \o t)[j] = IF j <= Len(s) THEN s[j] ELSE t[j - Len(s)]
      BY <3>1, ConcatProperties
    <3>2. /\ s \o t \in Seq(Byte) /\ Len(s \o t) = H + l
          /\ \A j \in 1 .. H + l :
                (s \o t)[j] = IF j <= H THEN s[j] ELSE t[j - H]
      BY <3>0, <3>1
    <3>3. QED
      BY <3>2 DEF s, t
  <2>6. Script(i) = Finished \o message_ /\ Total(i) = A + (H + l)
    BY <1>3 DEF Script, Total
  <2> HIDE DEF A, H, l, message_
  <2>7. /\ Script(i) \in Seq(Byte) /\ Len(Script(i)) = A + (H + l)
        /\ \A j \in 1 .. A + (H + l) : Script(i)[j] =
                IF j <= A THEN Finished[j] ELSE message_[j - A]
    <3> DEFINE s == Finished
               n == H + l
    <3>1. /\ n \in Nat /\ A \in Nat /\ s \in Seq(Byte) /\ Len(s) = A
          /\ message_ \in Seq(Byte) /\ Len(message_) = n
      BY <1>1, <1>2, <2>2, <2>5
    <3> HIDE DEF s, n
    <3>0. /\ s \o message_ \in Seq(Byte) /\ Len(s \o message_) = Len(s) + Len(message_)
          /\ \A j \in 1 .. Len(s) + Len(message_) :
                (s \o message_)[j] = IF j <= Len(s) THEN s[j] ELSE message_[j - Len(s)]
      BY <3>1, ConcatProperties
    <3>2. /\ s \o message_ \in Seq(Byte) /\ Len(s \o message_) = A + n
          /\ \A j \in 1 .. A + n :
                (s \o message_)[j] = IF j <= A THEN s[j] ELSE message_[j - A]
      BY <3>0, <3>1
    <3>3. QED
      BY <2>6, <3>2 DEF s, n
  <2>8. \A j \in 1 .. A : Script(i)[j] = [part |-> "ack", of |-> 0, at |-> j]
    BY <1>1, <1>2, <2>2, <2>7
  <2>9. ASSUME NEW j \in 1 .. H
        PROVE  Script(i)[A + j] = [part |-> "length", of |-> i, at |-> j]
    <3>1. A + j \in 1 .. A + (H + l) /\ ~(A + j <= A) /\ (A + j) - A = j
          /\ j \in 1 .. H + l /\ j <= H
      BY <1>1, <2>2
    <3>2. Script(i)[A + j] = message_[j]
      BY <2>7, <3>1
    <3>3. QED
      BY <2>3, <2>5, <3>1, <3>2
  <2>10. ASSUME NEW j \in 1 .. l
         PROVE  Script(i)[A + H + j] = [part |-> "content", of |-> i, at |-> j]
    <3>1. /\ A + H + j \in 1 .. A + (H + l) /\ ~(A + H + j <= A)
          /\ (A + H + j) - A = H + j
          /\ H + j \in 1 .. H + l /\ ~(H + j <= H) /\ (H + j) - H = j
      BY <1>1, <2>2
    <3>2. Script(i)[A + H + j] = message_[H + j]
      BY <2>7, <3>1
    <3>3. message_[H + j] = Content(i)[j]
      BY <2>5, <3>1
    <3>4. QED
      BY <2>4, <3>2, <3>3
  <2>11. /\ Total(i) \in Nat /\ A <= Total(i) /\ Total(i) = A + H + l
         /\ Len(Script(i)) = Total(i)
    BY <1>1, <2>2, <2>6, <2>7
  <2>12. ~(i > NumMessages)
    BY <1>1, <1>3
  <2>13. QED
    BY <2>7, <2>8, <2>9, <2>10, <2>11, <2>12 DEF A, H, l
<1>4. CASE ~(i <= NumMessages)
  <2>1. Script(i) = Finished \o <<>> /\ Total(i) = A + 0
    BY <1>4 DEF Script, Total
  <2>2. Script(i) = Finished
    BY <1>2, <2>1, ConcatEmptySeq
  <2>3. QED
    BY <1>1, <1>2, <1>4, <2>1, <2>2
<1>5. QED
  BY <1>3, <1>4

\* A stretch of a sequence.
LEMMA StretchIs ==
    ASSUME NEW S, NEW s \in Seq(S), NEW a \in Nat, NEW b \in Nat,
           a <= b, b <= Len(s)
    PROVE  /\ Stretch(s, a, b) \in Seq(S) /\ Len(Stretch(s, a, b)) = b - a
           /\ \A j \in 1 .. b - a : Stretch(s, a, b)[j] = s[a + j]
<1> DEFINE n == Len(s)
<1>1. n \in Nat /\ s \in [1 .. n -> S]
  BY LenProperties
<1>2. b <= n
  OBVIOUS
<1> HIDE DEF n
<1>3. a + 1 \in Int /\ \A j \in a + 1 .. b : s[j] \in S
  BY <1>1, <1>2
<1>4. /\ Stretch(s, a, b) \in Seq(S)
      /\ Len(Stretch(s, a, b)) = IF a + 1 <= b THEN b - (a + 1) + 1 ELSE 0
      /\ \A j \in 1 .. b - (a + 1) + 1 : Stretch(s, a, b)[j] = s[(a + 1) + j - 1]
  BY <1>3, SubSeqProperties DEF Stretch
<1>5. b - (a + 1) + 1 = b - a /\ (a + 1 <= b \/ b - a = 0)
      /\ \A j \in 1 .. b - a : (a + 1) + j - 1 = a + j
  OBVIOUS
<1> DEFINE t == Stretch(s, a, b)
<1> HIDE DEF t
<1>6. Len(t) = b - a
  BY <1>4, <1>5 DEF t
<1>7. \A j \in 1 .. b - a : t[j] = s[a + j]
  BY <1>4, <1>5 DEF t
<1>8. QED
  BY <1>4, <1>6, <1>7 DEF t

\* Nothing is in an empty stretch, and in no other.
LEMMA StretchEmpty ==
    ASSUME NEW S, NEW s \in Seq(S), NEW a \in Nat, NEW b \in Nat,
           a <= b, b <= Len(s)
    PROVE  Stretch(s, a, b) = <<>> <=> a = b
<1>1. Stretch(s, a, b) \in Seq(S) /\ Len(Stretch(s, a, b)) = b - a
  BY StretchIs
<1>2. Len(<<>>) = 0
  BY EmptySeq
<1>3. ASSUME a = b PROVE Stretch(s, a, b) = <<>>
  <2>1. Len(Stretch(s, a, b)) = 0
    BY <1>1, <1>3
  <2>2. QED
    BY <1>1, <2>1, EmptySeq
<1>4. ASSUME Stretch(s, a, b) = <<>> PROVE a = b
  <2>1. b - a = 0
    BY <1>1, <1>2, <1>4
  <2>2. QED
    BY <2>1
<1>5. QED
  BY <1>3, <1>4

\* Its first elements and the others.
LEMMA StretchParts ==
    ASSUME NEW S, NEW s \in Seq(S), NEW a \in Nat, NEW b \in Nat,
           a <= b, b <= Len(s), NEW n \in 0 .. b - a
    PROVE  /\ SubSeq(Stretch(s, a, b), 1, n) = Stretch(s, a, a + n)
           /\ SubSeq(Stretch(s, a, b), n + 1, Len(Stretch(s, a, b))) =
                Stretch(s, a + n, b)
           /\ Stretch(s, a, a + n) \o Stretch(s, a + n, b) = Stretch(s, a, b)
<1> DEFINE r == Stretch(s, a, b)
           t == Stretch(s, a, a + n)
           u == Stretch(s, a + n, b)
<1>0. n \in Nat /\ n <= b - a
  OBVIOUS
<1>1. /\ r \in Seq(S) /\ Len(r) = b - a /\ n \in Nat
      /\ \A j \in 1 .. b - a : r[j] = s[a + j]
  <2>1. r \in Seq(S) /\ Len(r) = b - a /\ \A j \in 1 .. b - a : r[j] = s[a + j]
    BY StretchIs
  <2>2. QED
    BY <1>0, <2>1
<1>2. /\ a + n \in Nat /\ a <= a + n /\ a + n <= b /\ a + n <= Len(s)
      /\ Len(s) \in Nat
  BY LenProperties
<1>3. /\ t \in Seq(S) /\ Len(t) = a + n - a /\ \A j \in 1 .. a + n - a : t[j] = s[a + j]
  <2> DEFINE c == a + n
  <2>1. c \in Nat /\ a <= c /\ c <= Len(s)
    BY <1>2
  <2> HIDE DEF c
  <2>2. /\ Stretch(s, a, c) \in Seq(S) /\ Len(Stretch(s, a, c)) = c - a
        /\ \A j \in 1 .. c - a : Stretch(s, a, c)[j] = s[a + j]
    BY <2>1, StretchIs
  <2>3. QED
    BY <2>2 DEF c
<1>4. /\ u \in Seq(S) /\ Len(u) = b - (a + n)
      /\ \A j \in 1 .. b - (a + n) : u[j] = s[a + n + j]
  BY <1>2, StretchIs
<1>5. a + n - a = n
  BY <1>1
<1> HIDE DEF r, t, u
<1>6. SubSeq(r, 1, n) = t
  <2> DEFINE v == SubSeq(r, 1, n)
  <2>1. \A j \in 1 .. n : r[j] \in S
    BY <1>1, ElementOfSeq
  <2>2. /\ v \in Seq(S) /\ Len(v) = IF 1 <= n THEN n - 1 + 1 ELSE 0
        /\ \A j \in 1 .. n - 1 + 1 : v[j] = r[1 + j - 1]
    BY <1>1, <2>1, SubSeqProperties
  <2> HIDE DEF v
  <2>3. Len(v) = n /\ \A j \in 1 .. n : v[j] = r[j]
    BY <1>1, <2>2
  <2>4. \A j \in 1 .. n : v[j] = t[j]
    <3>1. \A j \in 1 .. n : t[j] = s[a + j]
      BY <1>3, <1>5
    <3>2. \A j \in 1 .. n : r[j] = s[a + j]
      BY <1>0, <1>1
    <3>3. QED
      BY <2>3, <3>1, <3>2
  <2>5. QED
    BY <1>3, <1>5, <2>2, <2>3, <2>4, SeqEqual DEF v
<1>7. SubSeq(r, n + 1, Len(r)) = u
  <2> DEFINE v == SubSeq(r, n + 1, b - a)
  <2>1. \A j \in n + 1 .. b - a : r[j] \in S
    BY <1>1, ElementOfSeq
  <2>2. n + 1 \in Int /\ b - a \in Int
    BY <1>1
  <2>3. /\ v \in Seq(S)
        /\ Len(v) = IF n + 1 <= b - a THEN (b - a) - (n + 1) + 1 ELSE 0
        /\ \A j \in 1 .. (b - a) - (n + 1) + 1 : v[j] = r[(n + 1) + j - 1]
    BY <2>1, <2>2, SubSeqProperties
  <2> HIDE DEF v
  <2>4. Len(v) = b - (a + n) /\ b - (a + n) = (b - a) - (n + 1) + 1
    BY <1>1, <2>3
  <2>5. ASSUME NEW j \in 1 .. b - (a + n)
        PROVE  v[j] = u[j]
    <3>1. v[j] = r[(n + 1) + j - 1]
      BY <2>3, <2>4
    <3>2. (n + 1) + j - 1 = n + j /\ n + j \in 1 .. b - a /\ a + (n + j) = a + n + j
      BY <1>1
    <3>3. v[j] = s[a + n + j]
      BY <1>1, <3>1, <3>2
    <3>4. QED
      BY <1>4, <3>3
  <2>6. v = u
    BY <1>4, <2>3, <2>4, <2>5, SeqEqual
  <2>7. QED
    BY <1>1, <2>6 DEF v
<1>8. t \o u = r
  <2> DEFINE v == t \o u
  <2>1. /\ v \in Seq(S) /\ Len(v) = Len(t) + Len(u)
        /\ \A j \in 1 .. Len(t) + Len(u) : v[j] =
                IF j <= Len(t) THEN t[j] ELSE u[j - Len(t)]
    BY <1>3, <1>4, ConcatProperties
  <2> HIDE DEF v
  <2>2. Len(t) = n /\ Len(t) + Len(u) = b - a
    BY <1>1, <1>3, <1>4
  <2>3. ASSUME NEW j \in 1 .. b - a
        PROVE  v[j] = r[j]
    <3>1. CASE j <= n
      <4>1. v[j] = t[j] /\ j \in 1 .. n
        BY <1>1, <2>1, <2>2, <3>1
      <4>2. t[j] = s[a + j]
        BY <1>3, <1>5, <4>1
      <4>3. QED
        BY <1>1, <4>1, <4>2
    <3>2. CASE ~(j <= n)
      <4>1. v[j] = u[j - n] /\ j - n \in 1 .. b - (a + n) /\ a + n + (j - n) = a + j
        BY <1>1, <2>1, <2>2, <3>2
      <4>2. QED
        BY <1>1, <1>4, <4>1
    <3>3. QED
      BY <3>1, <3>2
  <2>4. QED
    BY <1>1, <2>1, <2>2, <2>3, SeqEqual DEF v
<1>9. QED
  BY <1>6, <1>7, <1>8 DEF r, t, u

\* Which stretches the parts of a script are.
LEMMA Spans ==
    ASSUME NEW i \in 1 .. NumMessages + 1
    PROVE  /\ Stretch(Script(i), 0, AckSize) = Finished
           /\ i <= NumMessages =>
                /\ Stretch(Script(i), AckSize, AckSize + HeaderSize) = Length(i)
                /\ Stretch(Script(i), AckSize + HeaderSize, Total(i)) = Content(i)
                /\ \A x \in Nat, k \in Nat :
                    x + k <= Dialogue[i].length =>
                        SubSeq(Content(i), x + 1, x + k) =
                            Stretch(Script(i), AckSize + HeaderSize + x,
                                    AckSize + HeaderSize + x + k)
<1> DEFINE A == AckSize
           H == HeaderSize
           s == Script(i)
<1>1. /\ A \in Nat \ {0} /\ H \in Nat \ {0} /\ NumMessages \in Nat
      /\ s \in Seq(Byte) /\ Len(s) = Total(i) /\ A <= Total(i) /\ Total(i) \in Nat
      /\ \A j \in 1 .. A : s[j] = [part |-> "ack", of |-> 0, at |-> j]
  BY Basics, ScriptIs
<1> HIDE DEF A, H, s
<1>0. s \in Seq(Byte) /\ A \in Nat /\ 0 \in Nat /\ 0 <= A /\ A <= Len(s)
  BY <1>1
<1>2. Stretch(s, 0, A) = Finished
  <2>1. /\ Stretch(s, 0, A) \in Seq(Byte) /\ Len(Stretch(s, 0, A)) = A - 0
        /\ \A j \in 1 .. A - 0 : Stretch(s, 0, A)[j] = s[0 + j]
    BY <1>0, StretchIs
  <2>2. /\ Finished \in Seq(Byte) /\ Len(Finished) = A
        /\ \A j \in 1 .. A : Finished[j] = [part |-> "ack", of |-> 0, at |-> j]
    BY <1>1, BytesIs DEF Finished, A
  <2> DEFINE t == Stretch(s, 0, A)
  <2> HIDE DEF t
  <2>3. Len(t) = A /\ \A j \in 1 .. A : t[j] = Finished[j]
    BY <1>1, <2>1, <2>2 DEF t
  <2>4. QED
    BY <2>1, <2>2, <2>3, SeqEqual DEF t
<1>3. ASSUME i <= NumMessages
      PROVE  /\ Stretch(s, A, A + H) = Length(i)
             /\ Stretch(s, A + H, Total(i)) = Content(i)
             /\ \A x \in Nat, k \in Nat :
                  x + k <= Dialogue[i].length =>
                    SubSeq(Content(i), x + 1, x + k) =
                        Stretch(s, A + H + x, A + H + x + k)
  <2> DEFINE l == Dialogue[i].length
             c == Content(i)
  <2>1. i \in 1 .. NumMessages /\ l \in Nat
    BY <1>1, <1>3, MessageIs
  <2>2. /\ Total(i) = A + H + l
        /\ \A j \in 1 .. H : s[A + j] = [part |-> "length", of |-> i, at |-> j]
        /\ \A j \in 1 .. l : s[A + H + j] = [part |-> "content", of |-> i, at |-> j]
    BY <1>3, ScriptIs DEF A, H, s
  <2>3. /\ Length(i) \in Seq(Byte) /\ Len(Length(i)) = H
        /\ \A j \in 1 .. H : Length(i)[j] = [part |-> "length", of |-> i, at |-> j]
    BY <1>1, <2>1, BytesIs DEF Length, H
  <2>4. /\ c \in Seq(Byte) /\ Len(c) = l
        /\ \A j \in 1 .. l : c[j] = [part |-> "content", of |-> i, at |-> j]
    BY <2>1, BytesIs DEF Content
  <2> HIDE DEF l, c
  <2>5. Stretch(s, A, A + H) = Length(i)
    <3> DEFINE e == A + H
               t == Stretch(s, A, e)
    <3>1. e \in Nat /\ A <= e /\ e <= Len(s) /\ e - A = H
      BY <1>1, <2>1, <2>2
    <3> HIDE DEF e
    <3>2. t \in Seq(Byte) /\ Len(t) = e - A /\ \A j \in 1 .. e - A : t[j] = s[A + j]
      <4>1. s \in Seq(Byte) /\ A \in Nat /\ e \in Nat /\ A <= e /\ e <= Len(s)
        BY <1>0, <3>1
      <4>2. QED
        BY <4>1, StretchIs
    <3> HIDE DEF t
    <3>3. Len(t) = H /\ \A j \in 1 .. H : t[j] = Length(i)[j]
      BY <2>2, <2>3, <3>1, <3>2
    <3>4. t = Length(i)
      BY <2>3, <3>2, <3>3, SeqEqual
    <3>5. QED
      BY <3>4 DEF t, e
  <2>6. ASSUME NEW x \in Nat, NEW k \in Nat, x + k <= l
        PROVE  SubSeq(c, x + 1, x + k) = Stretch(s, A + H + x, A + H + x + k)
    <3> DEFINE d == A + H + x
               e == A + H + x + k
               y == x + k
               t == Stretch(s, d, e)
               u == Stretch(c, x, y)
    <3>1. /\ d \in Nat /\ e \in Nat /\ d <= e /\ e <= Len(s) /\ e - d = k
          /\ y \in Nat /\ x <= y /\ y <= Len(c) /\ y - x = k
      <4>1. Len(s) = A + H + l /\ Len(c) = l /\ A \in Nat /\ H \in Nat /\ l \in Nat
        BY <1>1, <2>1, <2>2, <2>4
      <4>2. /\ d \in Nat /\ e \in Nat /\ d <= e /\ e <= Len(s) /\ e - d = k
        BY <2>6, <4>1
      <4>3. y \in Nat /\ x <= y /\ y <= Len(c) /\ y - x = k
        BY <2>6, <4>1
      <4>4. QED
        BY <4>2, <4>3
    <3>2. \A j \in 1 .. k : d + j = A + H + (x + j) /\ x + j \in 1 .. l
      BY <1>1, <2>1, <2>6
    <3> HIDE DEF d, e, y
    <3>3. t \in Seq(Byte) /\ Len(t) = e - d /\ \A j \in 1 .. e - d : t[j] = s[d + j]
      <4>1. s \in Seq(Byte) /\ d \in Nat /\ e \in Nat /\ d <= e /\ e <= Len(s)
        BY <1>0, <3>1
      <4>2. QED
        BY <4>1, StretchIs
    <3>4. u \in Seq(Byte) /\ Len(u) = y - x /\ \A j \in 1 .. y - x : u[j] = c[x + j]
      <4>1. c \in Seq(Byte) /\ x \in Nat /\ y \in Nat /\ x <= y /\ y <= Len(c)
        BY <2>4, <3>1
      <4> HIDE DEF c
      <4>2. QED
        BY <4>1, StretchIs
    <3> HIDE DEF t, u
    <3>5. Len(t) = Len(u) /\ Len(u) = k /\ \A j \in 1 .. k : u[j] = t[j]
      <4>1. ASSUME NEW j \in 1 .. k PROVE u[j] = t[j]
        <5>1. t[j] = s[A + H + (x + j)] /\ u[j] = c[x + j]
          BY <3>1, <3>2, <3>3, <3>4
        <5>2. QED
          BY <2>2, <2>4, <3>2, <5>1
      <4>2. QED
        BY <3>1, <3>3, <3>4, <4>1
    <3>6. t = u
      BY <3>3, <3>4, <3>5, SeqEqual
    <3>7. QED
      BY <3>6 DEF t, u, d, e, y, Stretch
  <2>7. Stretch(s, A + H, Total(i)) = c
    <3> DEFINE d == A + H
               T == Total(i)
               t == Stretch(s, d, T)
    <3>1. d \in Nat /\ T \in Nat /\ d <= T /\ T <= Len(s) /\ T - d = l /\ T = d + l
      BY <1>1, <2>1, <2>2
    <3>2. \A j \in 1 .. l : s[d + j] = c[j]
      BY <2>2, <2>4
    <3> HIDE DEF d, T
    <3>3. t \in Seq(Byte) /\ Len(t) = T - d /\ \A j \in 1 .. T - d : t[j] = s[d + j]
      <4>1. s \in Seq(Byte) /\ d \in Nat /\ T \in Nat /\ d <= T /\ T <= Len(s)
        BY <1>0, <3>1
      <4>2. QED
        BY <4>1, StretchIs
    <3> HIDE DEF t
    <3>4. Len(t) = l /\ \A j \in 1 .. l : t[j] = c[j]
      BY <3>1, <3>2, <3>3
    <3>5. t = c
      BY <2>4, <3>3, <3>4, SeqEqual
    <3>6. QED
      BY <3>5 DEF t, d, T
  <2>8. QED
    BY <2>5, <2>6, <2>7 DEF c, l
<1>4. QED
  BY <1>2, <1>3 DEF A, H, s

\* The smaller of two numbers is not above either.
LEMMA MinOfTwo ==
    ASSUME NEW a \in Int, NEW b \in Int
    PROVE  Min({a, b}) \in Int /\ Min({a, b}) <= a /\ Min({a, b}) <= b
<1>1. ASSUME NEW m \in {a, b}, \A y \in {a, b} : m <= y
      PROVE  Min({a, b}) = m
  <2>1. ASSUME NEW x \in {a, b}, \A y \in {a, b} : x <= y PROVE x = m
    BY <1>1, <2>1
  <2>2. QED
    BY <1>1, <2>1 DEF Min
<1>2. a <= b => \A y \in {a, b} : a <= y
  OBVIOUS
<1>3. b <= a => \A y \in {a, b} : b <= y
  OBVIOUS
<1>4. QED
  BY <1>1, <1>2, <1>3

\* What a recv returns.
LEMMA ChunkIs ==
    ASSUME wire \in [End -> Seq(Byte)], NEW e \in End, NEW max \in Int,
           NEW chunk \in Chunks(e, max)
    PROVE  \E n \in 1 .. Len(wire[e]) :
            /\ n <= max /\ chunk = SubSeq(wire[e], 1, n)
            /\ chunk \in Seq(Byte) /\ Len(chunk) = n
            /\ \A j \in 1 .. n : chunk[j] = wire[e][j]
<1> DEFINE w == wire[e]
<1>1. w \in Seq(Byte) /\ Len(w) \in Nat
  BY LenProperties
<1>2. PICK n \in 1 .. Min({max, Len(w)}) : chunk = SubSeq(w, 1, n)
  BY DEF Chunks
<1> DEFINE m == Len(w)
<1>0. m \in Nat
  BY <1>1
<1> HIDE DEF m
<1>3. m \in Nat /\ Min({max, m}) \in Int /\ Min({max, m}) <= max /\ Min({max, m}) <= m
  <2>1. m \in Int /\ max \in Int
    BY <1>0
  <2>2. Min({max, m}) \in Int /\ Min({max, m}) <= max /\ Min({max, m}) <= m
    BY <2>1, MinOfTwo, Zenon
  <2>3. QED
    BY <1>0, <2>2
<1>4. n \in Nat /\ 1 <= n /\ n <= max /\ n <= m
  BY <1>2, <1>3 DEF m
<1>5. n \in 1 .. m
  BY <1>3, <1>4
<1>6. \A j \in 1 .. n : w[j] \in Byte
  <2>1. \A j \in 1 .. n : j \in 1 .. m
    BY <1>3, <1>5
  <2>2. QED
    BY <1>1, <2>1, ElementOfSeq DEF m
<1> HIDE DEF w
<1>7. /\ chunk \in Seq(Byte) /\ Len(chunk) = IF 1 <= n THEN n - 1 + 1 ELSE 0
      /\ \A j \in 1 .. n - 1 + 1 : chunk[j] = w[1 + j - 1]
  BY <1>2, <1>4, <1>6, SubSeqProperties
<1>8. Len(chunk) = n /\ \A j \in 1 .. n : chunk[j] = w[j]
  BY <1>4, <1>7
<1>9. QED
  BY <1>2, <1>4, <1>5, <1>7, <1>8 DEF w, m

\* A recv takes the next n bytes of a script that is there from a to b.
Takes(e, i, a, b, max, chunk, n) ==
    /\ n \in 1 .. b - a /\ n <= max /\ chunk = Stretch(Script(i), a, a + n)
    /\ chunk \in Seq(Byte) /\ Len(chunk) = n
    /\ Taken(e, chunk)[e] = Stretch(Script(i), a + n, b)

\* A part of a script is a part of it.
LEMMA ChunkOfScript ==
    ASSUME wire \in [End -> Seq(Byte)], NEW e \in End,
           NEW i \in 1 .. NumMessages + 1, NEW a \in Nat, NEW b \in Nat,
           a <= b, b <= Total(i), wire[e] = Stretch(Script(i), a, b),
           NEW max \in Int, NEW chunk \in Chunks(e, max)
    PROVE  \E n : Takes(e, i, a, b, max, chunk, n)
<1> DEFINE s == Script(i)
<1>1. s \in Seq(Byte) /\ Len(s) = Total(i)
  BY ScriptIs
<1> HIDE DEF s
<1>0. s \in Seq(Byte) /\ b <= Len(s)
  BY <1>1
<1>2. Len(wire[e]) = b - a
  <2>1. Len(Stretch(s, a, b)) = b - a
    BY <1>0, StretchIs
  <2>2. QED
    BY <2>1 DEF s
<1>3. PICK n \in 1 .. Len(wire[e]) :
        /\ n <= max /\ chunk = SubSeq(wire[e], 1, n)
        /\ chunk \in Seq(Byte) /\ Len(chunk) = n
  BY ChunkIs
<1>4. n \in 1 .. b - a /\ n \in 0 .. b - a
  BY <1>2, <1>3
<1>5. /\ SubSeq(Stretch(s, a, b), 1, n) = Stretch(s, a, a + n)
      /\ SubSeq(Stretch(s, a, b), n + 1, Len(Stretch(s, a, b))) =
            Stretch(s, a + n, b)
  BY <1>1, <1>4, StretchParts
<1>6. Taken(e, chunk)[e] = SubSeq(wire[e], n + 1, Len(wire[e]))
  BY <1>3 DEF Taken, Set
<1>7. Takes(e, i, a, b, max, chunk, n)
  BY <1>3, <1>4, <1>5, <1>6 DEF s, Takes
<1>8. QED
  BY <1>7

\* A number as a uint32_t.
LEMMA ModIs ==
    ASSUME NEW x \in Int
    PROVE  /\ x % Modulus \in 0 .. Modulus - 1
           /\ x \in 0 .. Modulus - 1 => x % Modulus = x
<1>1. Modulus \in Nat \ {0}
  BY SizeAssumption
<1>2. x % Modulus \in 0 .. Modulus - 1
  BY <1>1
<1>3. ASSUME x \in 0 .. Modulus - 1 PROVE x % Modulus = x
  BY <1>1, <1>3
<1>4. QED
  BY <1>2, <1>3

\* Which parts of a script end inside a length or an acknowledgement.
LEMMA CutsIs ==
    ASSUME NEW i \in 1 .. NumMessages + 1, NEW a \in Nat, NEW c \in Nat,
           a < c, c <= Total(i)
    PROVE  Cuts(Stretch(Script(i), a, c)) <=>
                \/ c < AckSize
                \/ AckSize < c /\ c < AckSize + HeaderSize
<1> DEFINE A == AckSize
           H == HeaderSize
           s == Script(i)
           chunk == Stretch(s, a, c)
<1>1. A \in Nat \ {0} /\ H \in Nat \ {0} /\ s \in Seq(Byte) /\ Len(s) = Total(i)
  BY Basics, ScriptIs
<1>2. a <= c /\ c <= Len(s) /\ s \in Seq(Byte)
  BY <1>1
<1>3. Last(chunk) = s[c]
  <2> HIDE DEF s
  <2>1. Len(chunk) = c - a /\ \A j \in 1 .. c - a : chunk[j] = s[a + j]
    BY <1>2, StretchIs
  <2> HIDE DEF chunk
  <2>2. chunk[c - a] = s[c]
    <3>1. c - a \in 1 .. c - a /\ a + (c - a) = c
      OBVIOUS
    <3>2. QED
      BY <2>1, <3>1
  <2>3. QED
    BY <2>1, <2>2 DEF Last
<1>4. CASE c <= A
  <2>1. c \in 1 .. A
    BY <1>1, <1>4
  <2>2. s[c] = [part |-> "ack", of |-> 0, at |-> c]
    BY <2>1, ScriptIs
  <2>3. s[c].part = "ack" /\ s[c].at = c
    BY <2>2
  <2>4. QED
    BY <1>1, <1>3, <1>4, <2>3 DEF Cuts
<1>5. CASE A < c /\ c <= A + H
  <2>1. i <= NumMessages /\ c - A \in 1 .. H /\ A + (c - A) = c
    <3>1. i > NumMessages => Total(i) = A
      BY ScriptIs
    <3>2. NumMessages \in Nat
      BY Basics
    <3>3. QED
      BY <1>1, <1>5, <3>1, <3>2
  <2>2. s[A + (c - A)] = [part |-> "length", of |-> i, at |-> c - A]
    BY <2>1, ScriptIs
  <2>3. s[c].part = "length" /\ s[c].at = c - A
    BY <2>1, <2>2
  <2> HIDE DEF A, H, s
  <2>4. Cuts(chunk) <=> c - A < H
    BY <1>3, <2>3 DEF Cuts, H
  <2>5. QED
    BY <1>1, <1>5, <2>4 DEF A, H, s
<1>6. CASE A + H < c
  <2> DEFINE j == c - (A + H)
  <2>1. i <= NumMessages /\ j \in 1 .. Dialogue[i].length /\ A + H + j = c
    <3>1. /\ i > NumMessages => Total(i) = A
          /\ i <= NumMessages => Total(i) = A + H + Dialogue[i].length
      BY ScriptIs
    <3>2. NumMessages \in Nat
      BY Basics
    <3>3. i <= NumMessages
      BY <1>1, <1>6, <3>1, <3>2
    <3>4. Dialogue[i].length \in Nat
      BY <3>2, <3>3, MessageIs
    <3>5. QED
      BY <1>1, <1>6, <3>1, <3>3, <3>4
  <2> HIDE DEF j
  <2>2. s[A + H + j] = [part |-> "content", of |-> i, at |-> j]
    BY <2>1, ScriptIs
  <2>3. s[c].part = "content"
    BY <2>1, <2>2
  <2>4. QED
    BY <1>1, <1>3, <1>6, <2>3 DEF Cuts
<1>7. QED
  BY <1>1, <1>4, <1>5, <1>6

\* Only the whole of an acknowledgement is one.
LEMMA FinishedIs ==
    ASSUME NEW i \in 1 .. NumMessages + 1, NEW a \in Nat, NEW c \in Nat,
           a < c, c <= AckSize
    PROVE  Stretch(Script(i), a, c) = Finished <=> a = 0 /\ c = AckSize
<1> DEFINE s == Script(i)
           chunk == Stretch(s, a, c)
<1>1. AckSize \in Nat \ {0} /\ s \in Seq(Byte) /\ c <= Len(s) /\ a <= c
  BY Basics, ScriptIs
<1> HIDE DEF s
<1>2. Len(chunk) = c - a
  BY <1>1, StretchIs
<1>3. Len(Finished) = AckSize
  BY <1>1, BytesIs DEF Finished
<1>4. ASSUME chunk = Finished PROVE a = 0 /\ c = AckSize
  <2>1. c - a = AckSize
    BY <1>2, <1>3, <1>4
  <2>2. QED
    BY <1>1, <2>1
<1>5. Stretch(s, 0, AckSize) = Finished
  BY Spans DEF s
<1>6. QED
  BY <1>4, <1>5 DEF s

\* What is read as a length after the first letters of an acknowledgement, when
\* message i is next.
JunkAfter(a, i) ==
    JunkLength[a + 1][IF a + HeaderSize <= AckSize THEN 0 ELSE i]

\* It is more than the other letters and the message, after it.
LEMMA JunkIs ==
    ASSUME NEW i \in 1 .. NumMessages, NEW a \in 1 .. AckSize - 1
    PROVE  /\ JunkAfter(a, i) \in 1 .. Modulus - 1
           /\ AckSize - a + Dialogue[i].length < JunkAfter(a, i)
<1> DEFINE letter == a + 1
           k == IF a + HeaderSize <= AckSize THEN 0 ELSE i
           l == Dialogue[i].length
<1>1. /\ AckSize \in Nat /\ HeaderSize \in Nat /\ NumMessages \in Nat /\ l \in Nat
      /\ Modulus \in Nat
  BY Basics, MessageIs
<1>2. letter \in 2 .. AckSize /\ k \in 0 .. NumMessages
  BY <1>1
<1>3. /\ letter + HeaderSize - 1 <= AckSize <=> a + HeaderSize <= AckSize
      /\ AckSize - letter + 1 = AckSize - a
  BY <1>1
<1>4. k = IF letter + HeaderSize - 1 <= AckSize THEN 0 ELSE i
  BY <1>3
<1> HIDE DEF letter, k, l
<1>5. AckSize - letter + 1 + l < JunkLength[letter][k]
  BY <1>2, <1>4, JunkAssumption DEF l
<1>6. JunkLength[letter][k] \in 1 .. Modulus - 1
  BY <1>2, JunkAssumption
<1>7. JunkAfter(a, i) = JunkLength[letter][k]
  BY DEF JunkAfter, letter, k
<1>8. QED
  BY <1>3, <1>5, <1>6, <1>7 DEF l

\* A length is read where it is; letters are a number that is none.
LEMMA LengthInIs ==
    ASSUME NEW i \in 1 .. NumMessages, NEW a \in 1 .. AckSize, NEW c \in Nat,
           a + HeaderSize <= c, c <= Total(i)
    PROVE  LengthIn(Stretch(Script(i), a, c)) =
                IF a = AckSize THEN Dialogue[i].length ELSE JunkAfter(a, i)
<1> DEFINE A == AckSize
           H == HeaderSize
           s == Script(i)
           chunk == Stretch(s, a, c)
           head == SubSeq(chunk, 1, H)
<1>1. /\ A \in Nat \ {0} /\ H \in Nat \ {0} /\ s \in Seq(Byte) /\ Len(s) = Total(i)
      /\ NumMessages \in Nat /\ i \in 1 .. NumMessages + 1
  <2>1. A \in Nat \ {0} /\ H \in Nat \ {0} /\ NumMessages \in Nat
    BY Basics
  <2>2. i \in 1 .. NumMessages + 1
    BY <2>1
  <2>3. QED
    BY <2>1, <2>2, ScriptIs
<1>2. a \in Nat /\ a <= c /\ c <= Len(s) /\ s \in Seq(Byte) /\ H \in 0 .. c - a
  BY <1>1
<1>3. head = Stretch(s, a, a + H)
  <2> HIDE DEF s, H
  <2>1. QED
    BY <1>2, StretchParts
<1>4. chunk[1] = s[a + 1] /\ 1 \in 1 .. c - a
  <2> HIDE DEF s, H
  <2>1. \A j \in 1 .. c - a : chunk[j] = s[a + j]
    BY <1>2, StretchIs
  <2>2. 1 \in 1 .. c - a
    BY <1>1, <1>2
  <2>3. QED
    BY <2>1, <2>2
<1>5. CASE a = A
  <2>1. s[A + 1] = [part |-> "length", of |-> i, at |-> 1]
    <3>1. 1 \in 1 .. H /\ i <= NumMessages
      BY <1>1
    <3>2. QED
      BY <1>1, <3>1, ScriptIs
  <2>2. chunk[1].of = i
    BY <1>4, <1>5, <2>1
  <2>3. Stretch(s, A, A + H) = Length(i)
    BY <1>1, Spans
  <2> HIDE DEF A, H, s, chunk
  <2>4. SubSeq(chunk, 1, H) = Length(i)
    BY <1>3, <1>5, <2>3
  <2>5. QED
    BY <1>5, <2>2, <2>4 DEF LengthIn, A, H, s, chunk
<1>6. CASE a # A
  <2>1. a + 1 \in 1 .. A
    BY <1>1, <1>6
  <2>2. s[a + 1] = [part |-> "ack", of |-> 0, at |-> a + 1]
    BY <1>1, <2>1, ScriptIs
  <2>3. chunk[1].of = 0 /\ chunk[1].at = a + 1
    BY <1>4, <2>2
  <2>4. head[1] = s[a + 1]
    <3> DEFINE d == a + H
    <3>1. d \in Nat /\ a <= d /\ d <= Len(s) /\ 1 \in 1 .. d - a
      BY <1>1, <1>2
    <3> HIDE DEF d, s, head
    <3>2. \A j \in 1 .. d - a : Stretch(s, a, d)[j] = s[a + j]
      BY <1>2, <3>1, StretchIs
    <3>3. Stretch(s, a, d)[1] = s[a + 1]
      BY <3>1, <3>2
    <3>4. QED
      BY <1>3, <3>3 DEF d
  <2>5. Length(0)[1] = [part |-> "length", of |-> 0, at |-> 1]
    <3>1. 1 \in 1 .. HeaderSize
      BY <1>1
    <3>2. QED
      BY <3>1 DEF Length, Bytes
  <2>6. s[a + 1].part # Length(0)[1].part
    BY <2>2, <2>5
  <2>7. chunk[H] = s[a + H]
    <3> HIDE DEF s, H
    <3>1. \A j \in 1 .. c - a : chunk[j] = s[a + j]
      BY <1>2, StretchIs
    <3>2. H \in 1 .. c - a
      BY <1>1, <1>2
    <3>3. QED
      BY <3>1, <3>2
  <2>8. s[a + H].of = IF a + H <= A THEN 0 ELSE i
    <3>1. CASE a + H <= A
      <4>1. a + H \in 1 .. A
        BY <1>1, <3>1
      <4>2. s[a + H] = [part |-> "ack", of |-> 0, at |-> a + H]
        BY <1>1, <4>1, ScriptIs
      <4>3. QED
        BY <3>1, <4>2
    <3>2. CASE ~(a + H <= A)
      <4> DEFINE j == a + H - A
      <4>1. j \in 1 .. H /\ A + j = a + H /\ i <= NumMessages
        BY <1>1, <1>6, <3>2
      <4> HIDE DEF j
      <4>2. s[A + j] = [part |-> "length", of |-> i, at |-> j]
        BY <1>1, <4>1, ScriptIs
      <4>3. s[a + H].of = i
        BY <4>1, <4>2
      <4>4. QED
        BY <3>2, <4>3
    <3>3. QED
      BY <3>1, <3>2
  <2> HIDE DEF s, chunk, A
  <2>9. SubSeq(chunk, 1, H) # Length(0)
    BY <2>4, <2>6
  <2>10. LengthIn(chunk) = JunkLength[a + 1][chunk[H].of]
    BY <2>3, <2>9 DEF LengthIn
  <2>11. chunk[H].of = IF a + H <= A THEN 0 ELSE i
    BY <2>7, <2>8
  <2>12. LengthIn(chunk) = JunkAfter(a, i)
    BY <2>10, <2>11 DEF JunkAfter, A
  <2>13. QED
    BY <1>6, <2>12 DEF s, chunk, A
<1>7. QED
  BY <1>5, <1>6

-----------------------------------------------------------------------------
(***************************************************************************)
(* Types, and what a step of one end leaves alone.                          *)
(***************************************************************************)

\* The step does nothing to end e but to what arrives there.
Alike(e) ==
    /\ pc'[e] = pc[e] /\ turn'[e] = turn[e] /\ size'[e] = size[e]
    /\ message'[e] = message[e] /\ send_ready'[e] = send_ready[e]

\* What a send does to the wires.
LEMMA PutIs ==
    ASSUME wire \in [End -> Seq(Byte)], NEW e \in End, NEW bytes \in Seq(Byte),
           Put(e, bytes)
    PROVE  /\ wire' \in [End -> Seq(Byte)] /\ wire'[e] = wire[e]
           /\ wire'[Peer(e)] =
                IF Gone(Peer(e)) THEN wire[Peer(e)] ELSE wire[Peer(e)] \o bytes
<1>1. Peer(e) \in End /\ Peer(e) # e
  BY Basics
<1>2. wire[Peer(e)] \o bytes \in Seq(Byte)
  BY <1>1, ConcatProperties
<1>3. QED
  BY <1>1, <1>2 DEF Put

\* And a recv.
LEMMA TakenIs ==
    ASSUME wire \in [End -> Seq(Byte)], NEW e \in End, NEW max \in Int,
           NEW chunk \in Chunks(e, max), wire' = Taken(e, chunk)
    PROVE  /\ wire' \in [End -> Seq(Byte)] /\ wire'[Peer(e)] = wire[Peer(e)]
           /\ chunk \in Seq(Byte) /\ Len(chunk) \in 1 .. Len(wire[e])
           /\ Len(chunk) <= max
           /\ Len(wire'[e]) = Len(wire[e]) - Len(chunk)
           /\ wire[e] # <<>>
<1> DEFINE w == wire[e]
<1>1. Peer(e) \in End /\ Peer(e) # e
  BY Basics
<1>2. PICK n \in 1 .. Len(w) :
        n <= max /\ chunk = SubSeq(w, 1, n) /\ chunk \in Seq(Byte) /\ Len(chunk) = n
  BY ChunkIs
<1>3. w \in Seq(Byte) /\ Len(w) \in Nat
  BY LenProperties
<1> DEFINE m == Len(w)
<1>4. m \in Nat /\ n \in 1 .. m
  BY <1>3
<1> HIDE DEF w, m
<1>5. \A j \in n + 1 .. m : w[j] \in Byte
  <2>1. \A j \in n + 1 .. m : j \in 1 .. m
    BY <1>4
  <2>2. QED
    BY <1>3, <2>1, ElementOfSeq DEF m
<1>6. n + 1 \in Int /\ m \in Int
  BY <1>4
<1>7. /\ SubSeq(w, n + 1, m) \in Seq(Byte)
      /\ Len(SubSeq(w, n + 1, m)) = IF n + 1 <= m THEN m - (n + 1) + 1 ELSE 0
  BY <1>5, <1>6, SubSeqProperties
<1>8. Len(SubSeq(w, n + 1, m)) = m - n
  BY <1>4, <1>7
<1>9. wire' = [wire EXCEPT ![e] = SubSeq(w, n + 1, m)]
  BY <1>2 DEF Taken, Set, w, m
<1>10. Len(<<>>) = 0
  BY EmptySeq
<1>11. w # <<>>
  BY <1>4, <1>10 DEF m
<1>12. QED
  BY <1>1, <1>2, <1>4, <1>7, <1>8, <1>9, <1>11 DEF w, m

\* An end's step is nothing to the other's state.
LEMMA Bystander ==
    ASSUME StreamTypeOK, NEW e \in End, Step(e) \/ Leave(e)
    PROVE  Alike(Peer(e))
<1>1. Peer(e) \in End /\ Peer(e) # e
  BY Basics
<1> USE <1>1 DEF Alike, StreamTypeOK, Set
<1>2. CASE SendLength(e)
  BY <1>2 DEF SendLength
<1>3. CASE SendContent(e)
  BY <1>3 DEF SendContent
<1>4. CASE SendFails(e)
  BY <1>4 DEF SendFails, Returns
<1>5. CASE SendKills(e)
  BY <1>5 DEF SendKills, Ends
<1>6. CASE SendDone(e)
  BY <1>6 DEF SendDone
<1>7. CASE AwaitAck(e)
  BY <1>7 DEF AwaitAck, Returns
<1>8. CASE AwaitAckClosed(e)
  BY <1>8 DEF AwaitAckClosed, Returns
<1>9. CASE SendNotReady(e)
  BY <1>9 DEF SendNotReady
<1>10. CASE ReceiveFirst(e)
  BY <1>10 DEF ReceiveFirst, Receiving
<1>11. CASE ReceiveTooShort(e)
  BY <1>11 DEF ReceiveTooShort, Ends
<1>12. CASE ReceiveClosed(e)
  BY <1>12 DEF ReceiveClosed, Ends
<1>13. CASE ReceiveChunk(e)
  BY <1>13 DEF ReceiveChunk, Receiving
<1>14. CASE ReceiveChunkClosed(e)
  BY <1>14 DEF ReceiveChunkClosed, Ends
<1>15. CASE SendFinished(e)
  BY <1>15 DEF SendFinished, Returns
<1>16. CASE Leave(e)
  BY <1>16 DEF Leave
<1>17. QED
  BY <1>2, <1>3, <1>4, <1>5, <1>6, <1>7, <1>8, <1>9, <1>10, <1>11, <1>12,
     <1>13, <1>14, <1>15, <1>16 DEF Step

\* A message on its way to be acknowledged is the next one.
LEMMA Finishing ==
    ASSUME IInv, NEW e \in End, pc[e] = "finish"
    PROVE  /\ turn[e] \in 1 .. NumMessages /\ Dialogue[turn[e]].from = Peer(e)
           /\ turn[Peer(e)] = turn[e] /\ Len(received) = turn[e] - 1
           /\ message[e] = Content(turn[e]) /\ wire[e] = <<>>
           /\ ~Gone(Peer(e)) => Even(Peer(e), e)
<1>1. turn[e] \in 1 .. NumMessages /\ Dialogue[turn[e]].from # e
  <2>1. turn[e] \in 1 .. NumMessages + 1 /\ NumMessages \in Nat
    BY Basics DEF IInv, StreamTypeOK
  <2>2. QED
    BY <2>1 DEF IInv, TurnInv
<1>2. Dialogue[turn[e]].from = Peer(e)
  BY <1>1, MessageIs, Basics
<1>3. ~Gone(e) /\ pc[e] \notin {"idle", "sending", "ack", "spin", "receiving"}
  BY DEF Gone
<1>4. ~NotReady(e) /\ ~Sends(e) /\ ~CutSender(e, Peer(e))
      /\ (\A b : ~Junk(e, b)) /\ \A b : ~HasAck(e, b)
  BY <1>3 DEF NotReady, Sends, CutSender, Junk, HasAck
<1>5. \A b : Reads(e, b) => message[e] = Content(turn[e]) /\ wire[e] = <<>>
  BY <1>3 DEF Reads
<1>6. CASE Gone(Peer(e))
  <2>1. Alone(e)
    BY <1>3, <1>6 DEF IInv, EndsInv
  <2>2. QED
    BY <1>1, <1>2, <1>4, <1>5, <1>6, <2>1 DEF Alone
<1>7. CASE ~Gone(Peer(e))
  <2>1. \A d \in End : ~Gone(d)
    BY <1>3, <1>7, Basics
  <2>2. PICK f \in End : Pair(f, Peer(f))
    BY <2>1 DEF IInv, EndsInv
  <2>3. f # e
    BY <1>4, <2>2 DEF Pair, Even, Behind, CutReceiver
  <2>4. f = Peer(e) /\ Peer(f) = e
    BY <2>3, Basics
  <2>5. Even(Peer(e), e)
    BY <1>4, <2>2, <2>4 DEF Pair, Behind, CutReceiver, CutSender
  <2>6. QED
    BY <1>1, <1>2, <1>5, <2>5 DEF Even
<1>8. QED
  BY <1>6, <1>7

\* What an end reads as a length is one: nothing else of the stream than the
\* rest of an acknowledgement can be where it looks for it.
LEMMA Reading ==
    ASSUME IInv, NEW e \in End, ToReceive(e), wire[e] # <<>>
    PROVE  /\ turn[e] \in 1 .. NumMessages
           /\ \E a \in 1 .. AckSize, b \in Nat :
                /\ a <= b /\ b <= Total(turn[e])
                /\ wire[e] = Stretch(Script(turn[e]), a, b)
<1> DEFINE i == turn[e]
<1>1. /\ NumMessages \in Nat /\ AckSize \in Nat \ {0} /\ i \in 1 .. NumMessages
      /\ pc[e] = "idle" /\ Dialogue[i].from # e
  <2>1. i \in 1 .. NumMessages + 1 /\ NumMessages \in Nat /\ AckSize \in Nat \ {0}
    BY Basics DEF IInv, StreamTypeOK
  <2>2. QED
    BY <2>1 DEF ToReceive
<1>2. Total(i) \in Nat /\ AckSize <= Total(i)
  <2>1. i \in 1 .. NumMessages + 1
    BY <1>1
  <2>2. QED
    BY <2>1, ScriptIs
<1> DEFINE Ok == \E a \in 1 .. AckSize, b \in Nat :
                    /\ a <= b /\ b <= Total(i)
                    /\ wire[e] = Stretch(Script(i), a, b)
<1>3. ASSUME NEW b, Reads(e, b) PROVE Ok
  <2>1. b \in AckSize .. Total(i) /\ wire[e] = Stretch(Script(i), AckSize, b)
    BY <1>1, <1>3 DEF Reads
  <2>2. AckSize \in 1 .. AckSize /\ b \in Nat /\ AckSize <= b /\ b <= Total(i)
    BY <1>1, <1>2, <2>1
  <2>3. QED
    BY <2>1, <2>2
<1>4. ASSUME NEW b, Junk(e, b) PROVE Ok
  <2>1. PICK a \in 1 .. AckSize - 1 :
            b \in AckSize .. Total(i) /\ wire[e] = Stretch(Script(i), a, b)
    BY <1>1, <1>4 DEF Junk
  <2>2. a \in 1 .. AckSize /\ b \in Nat /\ a <= b /\ b <= Total(i)
    BY <1>1, <1>2, <2>1
  <2>3. QED
    BY <2>1, <2>2
<1>5. ~Gone(e) /\ ~Sends(e) /\ ~NotReady(e) /\ \A b : ~HasAck(e, b)
  BY <1>1 DEF Gone, Sends, NotReady, HasAck
<1> HIDE DEF Ok
<1>6. CASE Gone(Peer(e))
  <2>1. Alone(e)
    BY <1>5, <1>6 DEF IInv, EndsInv
  <2>2. QED
    BY <1>1, <1>3, <1>4, <1>5, <2>1 DEF Alone, Ok
<1>7. CASE ~Gone(Peer(e))
  <2>1. \A d \in End : ~Gone(d)
    BY <1>5, <1>7, Basics
  <2>2. PICK f \in End : Pair(f, Peer(f))
    BY <2>1 DEF IInv, EndsInv
  <2>3. f # e
    BY <1>5, <2>2, ToReceive(e) DEF Pair, Even, Behind, CutReceiver, CutSender
  <2>4. Peer(f) = e
    BY <2>3, Basics
  <2>5. Even(f, e) \/ CutReceiver(f, e)
    BY <1>5, <2>2, <2>4 DEF Pair, Behind, CutSender
  <2>6. QED
    BY <1>1, <1>3, <1>4, <2>5 DEF Even, CutReceiver, Ok
<1>8. QED
  BY <1>6, <1>7

\* Every step keeps the types.
LEMMA TypeStep ==
    ASSUME IInv, [Next]_vars
    PROVE  StreamTypeOK'
<1>0. StreamTypeOK /\ TurnInv
  BY DEF IInv
<1>1. CASE UNCHANGED vars
  BY <1>0, <1>1 DEF vars, StreamTypeOK
<1>2. ASSUME NEW e \in End, Step(e) \/ Leave(e)
      PROVE  StreamTypeOK'
  <2>1. /\ Peer(e) \in End /\ Peer(e) # e /\ NumMessages \in Nat
        /\ HeaderSize \in Nat \ {0} /\ AckSize \in Nat \ {0} /\ BufferSize[e] \in Int
        /\ Modulus \in Nat /\ 0 \in 0 .. Modulus - 1
    BY Basics, BufferIs
  <2>2. /\ wire \in [End -> Seq(Byte)] /\ wire[e] \in Seq(Byte)
        /\ turn \in [End -> 1 .. NumMessages + 1]
        /\ turn[e] \in 1 .. NumMessages + 1
        /\ size \in [End -> 0 .. Modulus - 1] /\ size[e] \in 0 .. Modulus - 1
        /\ message \in [End -> Seq(Byte)] /\ message[e] \in Seq(Byte)
        /\ send_ready \in [End -> BOOLEAN] /\ cut \in BOOLEAN
        /\ received \in Seq(Seq(Byte)) /\ Len(received) <= NumMessages
    BY <1>0 DEF StreamTypeOK
  <2>3. <<>> \in Seq(Byte)
    BY EmptySeq
  <2>4. ASSUME turn[e] <= NumMessages, turn' = Set(turn, e, turn[e] + 1)
        PROVE  turn' \in [End -> 1 .. NumMessages + 1]
    <3>1. turn[e] + 1 \in 1 .. NumMessages + 1
      BY <2>1, <2>2, <2>4
    <3>2. QED
      BY <2>2, <2>4, <3>1 DEF Set
  <2>5. ASSUME NEW left \in Int, NEW content \in Seq(Byte), Receiving(e, left, content)
        PROVE  /\ size' \in [End -> 0 .. Modulus - 1]
               /\ message' \in [End -> Seq(Byte)]
               /\ pc' \in [End -> {"idle", "sending", "ack", "spin", "receiving",
                       "finish", "loop", "left", "crashed", "closed"}]
    <3>1. left % Modulus \in 0 .. Modulus - 1
      BY ModIs
    <3>2. QED
      BY <1>0, <2>5, <3>1 DEF Receiving, Set, StreamTypeOK
  <2>6. ASSUME NEW how \in {"crashed", "closed"}, Ends(e, how), cut' \in BOOLEAN
        PROVE  StreamTypeOK'
    BY <1>0, <2>1, <2>3, <2>6 DEF Ends, StreamTypeOK, Set
  <2>7. CASE SendLength(e)
    <3>1. turn[e] \in 1 .. NumMessages
      BY <2>1, <2>2, <2>7 DEF SendLength, ToSend
    <3>2. /\ Dialogue[turn[e]].length \in 0 .. Modulus - 1
          /\ Length(turn[e]) \in Seq(Byte)
      BY <2>1, <3>1, MessageIs, BytesIs DEF Length
    <3>3. wire' \in [End -> Seq(Byte)]
      BY <2>2, <2>7, <3>2, PutIs DEF SendLength
    <3>4. QED
      BY <1>0, <2>7, <3>2, <3>3 DEF SendLength, StreamTypeOK, Set
  <2>8. CASE SendContent(e)
    <3>1. turn[e] \in 1 .. NumMessages /\ size[e] <= Dialogue[turn[e]].length
      BY <1>0, <2>1, <2>2, <2>8 DEF SendContent, TurnInv
    <3> DEFINE l == Dialogue[turn[e]].length
               x == l - size[e]
    <3>2. PICK k \in 1 .. size[e] :
            /\ Put(e, SubSeq(Content(turn[e]), x + 1, x + k))
            /\ size' = Set(size, e, size[e] - k)
      BY <2>8 DEF SendContent
    <3>3. l \in Nat /\ x \in Nat /\ k \in Nat /\ x + k <= l /\ size[e] - k \in 0 .. Modulus - 1
      <4>1. l \in Nat
        BY <3>1, MessageIs
      <4>2. k \in Nat /\ size[e] - k \in 0 .. Modulus - 1
        BY <2>1, <2>2, <3>2
      <4>3. size[e] \in Nat /\ size[e] <= l /\ k <= size[e]
        BY <2>1, <2>2, <3>1, <3>2
      <4> HIDE DEF l
      <4>4. x \in Nat /\ x + k <= l
        BY <4>1, <4>2, <4>3
      <4>5. QED
        BY <4>1, <4>2, <4>4 DEF l
    <3>4. Content(turn[e]) \in Seq(Byte) /\ Len(Content(turn[e])) = l
      BY <3>1, <3>3, BytesIs DEF Content
    <3> DEFINE c == Content(turn[e])
               y == x + k
    <3>5. c \in Seq(Byte) /\ x \in Nat /\ y \in Nat /\ x <= y /\ y <= Len(c)
      BY <3>3, <3>4
    <3> HIDE DEF x, y, c
    <3>6. Stretch(c, x, y) \in Seq(Byte)
      BY <3>5, StretchIs
    <3>7. SubSeq(Content(turn[e]), x + 1, x + k) \in Seq(Byte)
      BY <3>6 DEF Stretch, c, y
    <3>8. wire' \in [End -> Seq(Byte)]
      BY <2>2, <3>2, <3>7, PutIs
    <3>9. QED
      BY <1>0, <2>8, <3>2, <3>3, <3>8 DEF SendContent, StreamTypeOK, Set
  <2>9. CASE SendFails(e)
    <3>1. turn[e] <= NumMessages
      BY <1>0, <2>9 DEF SendFails, TurnInv
    <3>2. QED
      BY <1>0, <2>1, <2>4, <2>9, <3>1 DEF SendFails, Returns, StreamTypeOK, Set
  <2>10. CASE SendKills(e)
    BY <2>2, <2>6, <2>10 DEF SendKills
  <2>11. CASE SendDone(e)
    BY <1>0, <2>11 DEF SendDone, StreamTypeOK, Set
  <2>12. CASE AwaitAck(e)
    <3>1. turn[e] <= NumMessages
      BY <1>0, <2>12 DEF AwaitAck, TurnInv
    <3>2. PICK chunk \in Chunks(e, AckSize) :
            /\ wire' = Taken(e, chunk)
            /\ send_ready' = Set(send_ready, e, chunk = Finished)
            /\ cut' = (cut \/ Cuts(chunk))
      BY <2>12 DEF AwaitAck
    <3>3. wire' \in [End -> Seq(Byte)]
      BY <2>1, <2>2, <3>2, TakenIs
    <3>4. send_ready' \in [End -> BOOLEAN] /\ cut' \in BOOLEAN
      BY <2>2, <3>2 DEF Set, Cuts
    <3>5. QED
      BY <1>0, <2>4, <2>12, <3>1, <3>3, <3>4 DEF AwaitAck, Returns, StreamTypeOK, Set
  <2>13. CASE AwaitAckClosed(e)
    <3>1. turn[e] <= NumMessages
      BY <1>0, <2>13 DEF AwaitAckClosed, TurnInv
    <3>2. QED
      BY <1>0, <2>4, <2>13, <3>1 DEF AwaitAckClosed, Returns, StreamTypeOK, Set
  <2>14. CASE SendNotReady(e)
    <3>1. CASE /\ NothingComes(e) /\ pc' = Set(pc, e, "spin")
               /\ UNCHANGED <<wire, send_ready, cut>>
      BY <1>0, <2>14, <3>1 DEF SendNotReady, StreamTypeOK, Set
    <3>2. ASSUME NEW chunk \in Chunks(e, AckSize),
                 /\ wire' = Taken(e, chunk)
                 /\ send_ready' = Set(send_ready, e, chunk = Finished)
                 /\ cut' = (cut \/ Cuts(chunk))
                 /\ pc' = IF chunk = Finished THEN pc ELSE Set(pc, e, "spin")
          PROVE  StreamTypeOK'
      <4>1. wire' \in [End -> Seq(Byte)]
        BY <2>1, <2>2, <3>2, TakenIs
      <4>2. send_ready' \in [End -> BOOLEAN] /\ cut' \in BOOLEAN
        BY <2>2, <3>2 DEF Set, Cuts
      <4>3. QED
        BY <1>0, <2>14, <3>2, <4>1, <4>2 DEF SendNotReady, StreamTypeOK, Set
    <3>3. QED
      BY <2>14, <3>1, <3>2 DEF SendNotReady
  <2>15. CASE ReceiveFirst(e)
    <3> DEFINE H == HeaderSize
    <3>1. PICK chunk \in Chunks(e, BufferSize[e]) :
            /\ Len(chunk) >= H
            /\ wire' = Taken(e, chunk)
            /\ cut' = (cut \/ Cuts(chunk))
            /\ Receiving(e, LengthIn(chunk) - (Len(chunk) - H),
                         SubSeq(chunk, H + 1, Len(chunk)))
      BY <2>15 DEF ReceiveFirst
    <3>2. /\ wire' \in [End -> Seq(Byte)] /\ chunk \in Seq(Byte)
          /\ Len(chunk) \in Nat
      BY <2>1, <2>2, <3>1, TakenIs, LenProperties
    <3>3. cut' \in BOOLEAN
      BY <2>2, <3>1 DEF Cuts
    <3>4. LengthIn(chunk) \in Int
      <4> DEFINE i == turn[e]
      <4>1. ToReceive(e) /\ wire[e] # <<>>
        BY <2>1, <2>2, <2>15, <3>1, TakenIs DEF ReceiveFirst
      <4>2. /\ i \in 1 .. NumMessages /\ i \in 1 .. NumMessages + 1
            /\ BufferSize[e] \in Int
        BY <2>1, <4>1, Reading
      <4>3. PICK a \in 1 .. AckSize, b \in Nat :
              a <= b /\ b <= Total(i) /\ wire[e] = Stretch(Script(i), a, b)
        BY <4>1, Reading
      <4>4. a \in Nat
        BY <2>1
      <4>5. PICK n \in 1 .. b - a :
              /\ n <= BufferSize[e] /\ chunk = Stretch(Script(i), a, a + n)
              /\ chunk \in Seq(Byte) /\ Len(chunk) = n
              /\ Taken(e, chunk)[e] = Stretch(Script(i), a + n, b)
        <5>1. PICK m : Takes(e, i, a, b, BufferSize[e], chunk, m)
          BY <2>2, <4>2, <4>3, <4>4, ChunkOfScript
        <5>2. QED
          BY <5>1, Zenon DEF Takes
      <4> DEFINE c == a + n
                 T == Total(i)
      <4>6. T \in Nat
        BY <4>2, ScriptIs
      <4>7. n \in Nat /\ H <= n /\ n <= b - a
        BY <3>1, <4>5
      <4>8. b <= T /\ chunk = Stretch(Script(i), a, c)
        BY <4>3, <4>5
      <4> HIDE DEF T
      <4>9. c \in Nat /\ a + HeaderSize <= c /\ c <= T
        BY <2>1, <4>4, <4>6, <4>7, <4>8
      <4> HIDE DEF c
      <4>10. LengthIn(Stretch(Script(i), a, c)) =
                IF a = AckSize THEN Dialogue[i].length ELSE JunkAfter(a, i)
        BY <4>2, <4>9, LengthInIs DEF T
      <4>11. CASE a = AckSize
        BY <4>2, <4>8, <4>10, <4>11, MessageIs
      <4>12. CASE a # AckSize
        <5>1. a \in 1 .. AckSize - 1
          BY <2>1, <4>12
        <5>2. JunkAfter(a, i) \in Int
          BY <2>1, <4>2, <5>1, JunkIs
        <5>3. QED
          BY <4>8, <4>10, <4>12, <5>2
      <4>13. QED
        BY <4>11, <4>12
    <3>5. SubSeq(chunk, H + 1, Len(chunk)) \in Seq(Byte)
      <4> DEFINE n == Len(chunk)
      <4>1. H \in Nat /\ n \in Nat /\ H <= n /\ n <= Len(chunk) /\ chunk \in Seq(Byte)
        BY <2>1, <3>1, <3>2
      <4> HIDE DEF n, H
      <4>2. Stretch(chunk, H, n) \in Seq(Byte)
        BY <4>1, StretchIs
      <4>3. QED
        BY <4>2 DEF Stretch, n
    <3> DEFINE left == LengthIn(chunk) - (Len(chunk) - H)
               content == SubSeq(chunk, H + 1, Len(chunk))
    <3>6. left \in Int /\ content \in Seq(Byte) /\ Receiving(e, left, content)
      BY <2>1, <3>1, <3>2, <3>4, <3>5
    <3> HIDE DEF left, content
    <3>7. QED
      BY <1>0, <2>5, <2>15, <3>2, <3>3, <3>6 DEF ReceiveFirst, StreamTypeOK
  <2>16. CASE ReceiveTooShort(e)
    <3>1. Ends(e, "crashed") /\ cut' \in BOOLEAN
      BY <2>2, <2>16 DEF ReceiveTooShort, Cuts
    <3>2. QED
      BY <2>6, <3>1
  <2>17. CASE ReceiveClosed(e)
    BY <2>2, <2>6, <2>17 DEF ReceiveClosed
  <2>18. CASE ReceiveChunk(e)
    <3>1. PICK chunk \in Chunks(e, BufferSize[e]) :
            /\ wire' = Taken(e, chunk)
            /\ Receiving(e, size[e] - Len(chunk), message[e] \o chunk)
      BY <2>18 DEF ReceiveChunk
    <3>2. /\ wire' \in [End -> Seq(Byte)] /\ chunk \in Seq(Byte) /\ Len(chunk) \in Nat
      BY <2>1, <2>2, <3>1, TakenIs, LenProperties
    <3> DEFINE left == size[e] - Len(chunk)
               content == message[e] \o chunk
    <3>3. left \in Int /\ content \in Seq(Byte) /\ Receiving(e, left, content)
      BY <2>2, <3>1, <3>2, ConcatProperties
    <3> HIDE DEF left, content
    <3>4. QED
      BY <1>0, <2>5, <2>18, <3>2, <3>3 DEF ReceiveChunk, StreamTypeOK
  <2>19. CASE ReceiveChunkClosed(e)
    <3>1. CASE /\ pc' = Set(pc, e, "loop")
               /\ UNCHANGED <<wire, turn, size, message, send_ready, received>>
      BY <1>0, <2>19, <3>1 DEF ReceiveChunkClosed, StreamTypeOK, Set
    <3>2. CASE Ends(e, "crashed")
      BY <2>2, <2>6, <2>19, <3>2 DEF ReceiveChunkClosed
    <3>3. QED
      BY <2>19, <3>1, <3>2 DEF ReceiveChunkClosed
  <2>20. CASE SendFinished(e)
    <3>1. turn[e] \in 1 .. NumMessages /\ Len(received) = turn[e] - 1
      BY <2>20, Finishing DEF SendFinished
    <3>2. Finished \in Seq(Byte)
      BY <2>1, BytesIs DEF Finished
    <3>3. wire' \in [End -> Seq(Byte)]
      BY <2>2, <2>20, <3>2, PutIs DEF SendFinished
    <3>4. /\ received' \in Seq(Seq(Byte)) /\ Len(received') = Len(received) + 1
      BY <2>2, <2>20, AppendProperties DEF SendFinished
    <3>5. Len(received') <= NumMessages
      BY <2>1, <3>1, <3>4
    <3>6. turn' \in [End -> 1 .. NumMessages + 1]
      BY <2>1, <2>4, <2>20, <3>1 DEF SendFinished, Returns
    <3>7. QED
      BY <1>0, <2>3, <2>20, <3>3, <3>4, <3>5, <3>6
      DEF SendFinished, Returns, StreamTypeOK, Set
  <2>21. CASE Leave(e)
    BY <1>0, <2>1, <2>3, <2>21 DEF Leave, StreamTypeOK, Set
  <2>22. QED
    BY <1>2, <2>7, <2>8, <2>9, <2>10, <2>11, <2>12, <2>13, <2>14, <2>15, <2>16,
       <2>17, <2>18, <2>19, <2>20, <2>21 DEF Step
<1>3. QED
  BY <1>1, <1>2 DEF Next

-----------------------------------------------------------------------------
(***************************************************************************)
(* What an end does next, and what the end it talks to makes of it.         *)
(***************************************************************************)

\* Which operations an end may be at.
LEMMA WhoSteps ==
    ASSUME NEW e \in End, Step(e)
    PROVE  \/ pc[e] = "idle" /\ ToSend(e) /\ (SendLength(e) \/ SendNotReady(e))
           \/ /\ pc[e] = "idle" /\ ToReceive(e)
              /\ ReceiveFirst(e) \/ ReceiveTooShort(e) \/ ReceiveClosed(e)
           \/ /\ pc[e] = "sending"
              /\ SendContent(e) \/ SendFails(e) \/ SendKills(e) \/ SendDone(e)
           \/ pc[e] = "ack" /\ (AwaitAck(e) \/ AwaitAckClosed(e))
           \/ pc[e] = "receiving" /\ (ReceiveChunk(e) \/ ReceiveChunkClosed(e))
           \/ pc[e] = "finish" /\ SendFinished(e)
BY DEF Step, SendLength, SendContent, SendFails, SendKills, SendDone, AwaitAck,
       AwaitAckClosed, SendNotReady, ReceiveFirst, ReceiveTooShort,
       ReceiveClosed, ReceiveChunk, ReceiveChunkClosed, SendFinished, ToSend,
       ToReceive

\* What depends on an end alone stays as the end does.
LEMMA Same ==
    ASSUME NEW e \in End, Alike(e), wire'[e] = wire[e], NEW b
    PROVE  /\ Gone(e)' <=> Gone(e)
           /\ ToSend(e)' <=> ToSend(e)
           /\ ToReceive(e)' <=> ToReceive(e)
           /\ Progress(e)' = Progress(e)
           /\ Sends(e)' <=> Sends(e)
           /\ Reads(e, b)' <=> Reads(e, b)
           /\ HasAck(e, b)' <=> HasAck(e, b)
           /\ Junk(e, b)' <=> Junk(e, b)
           /\ NotReady(e)' <=> NotReady(e)
<1> USE DEF Alike
<1>1. Gone(e)' <=> Gone(e)
  BY DEF Gone
<1>2. (ToSend(e)' <=> ToSend(e)) /\ (ToReceive(e)' <=> ToReceive(e))
  BY DEF ToSend, ToReceive
<1>3. Progress(e)' = Progress(e)
  BY DEF Progress
<1>4. Sends(e)' <=> Sends(e)
  BY DEF Sends
<1>5. Reads(e, b)' <=> Reads(e, b)
  BY <1>2 DEF Reads
<1>6. HasAck(e, b)' <=> HasAck(e, b)
  BY DEF HasAck
<1>7. Junk(e, b)' <=> Junk(e, b)
  BY DEF Junk
<1>8. NotReady(e)' <=> NotReady(e)
  BY <1>2 DEF NotReady
<1>9. QED
  BY <1>1, <1>2, <1>3, <1>4, <1>5, <1>6, <1>7, <1>8

\* Two stretches that meet.
LEMMA StretchAppend ==
    ASSUME NEW i \in 1 .. NumMessages + 1, NEW a \in Nat, NEW b \in Nat,
           NEW c \in Nat, a <= b, b <= c, c <= Total(i)
    PROVE  Stretch(Script(i), a, b) \o Stretch(Script(i), b, c) =
                Stretch(Script(i), a, c)
<1> DEFINE s == Script(i)
           n == b - a
<1>1. s \in Seq(Byte) /\ c <= Len(s)
  BY ScriptIs
<1>2. n \in 0 .. c - a /\ a + n = b /\ a <= c
  OBVIOUS
<1> HIDE DEF s, n
<1>3. Stretch(s, a, a + n) \o Stretch(s, a + n, c) = Stretch(s, a, c)
  BY <1>1, <1>2, StretchParts
<1>4. QED
  BY <1>2, <1>3 DEF s

\* The bytes of message i from b to c arrive.
Comes(e, i, b, c) == wire'[e] = wire[e] \o Stretch(Script(i), b, c)

\* More of the message arrives.
LEMMA Arrives ==
    ASSUME StreamTypeOK, NEW e \in End, Alike(e), NEW b \in Nat, NEW c \in Nat,
           b <= c,
           NEW i \in 1 .. NumMessages, c <= Total(i), Dialogue[i].from # e,
           Comes(e, i, b, c)
    PROVE  /\ i = turn[e] /\ Reads(e, b) => Reads(e, c)'
           /\ i = turn[e] + 1 /\ HasAck(e, b) => HasAck(e, c)'
           /\ i = turn[e] /\ Junk(e, b) => Junk(e, c)'
<1>1. /\ AckSize \in Nat \ {0} /\ HeaderSize \in Nat \ {0} /\ NumMessages \in Nat
      /\ i \in 1 .. NumMessages + 1 /\ turn[e] \in 1 .. NumMessages + 1
      /\ message[e] \in Seq(Byte) /\ size[e] \in Nat
  BY Basics DEF StreamTypeOK
<1>2. Total(i) \in Nat /\ AckSize <= Total(i)
  BY <1>1, ScriptIs
<1>3. ASSUME NEW a \in Nat, a <= b, wire[e] = Stretch(Script(i), a, b)
      PROVE  wire'[e] = Stretch(Script(i), a, c)
  <2>0. a <= b
    BY <1>3
  <2>1. Stretch(Script(i), a, b) \o Stretch(Script(i), b, c) = Stretch(Script(i), a, c)
    BY <1>1, <2>0, StretchAppend
  <2>2. QED
    BY <1>3, <2>1 DEF Comes
<1>4. ASSUME i = turn[e], Reads(e, b)
      PROVE  Reads(e, c)'
  <2>1. b \in AckSize .. Total(i)
    BY <1>4 DEF Reads
  <2>2. c \in AckSize .. Total(i) /\ (ToReceive(e)' \/ pc'[e] # "idle")
    BY <1>1, <1>2, <1>4, <2>1 DEF ToReceive, Alike
  <2>3. CASE pc[e] = "idle"
    <3>1. wire[e] = Stretch(Script(i), AckSize, b)
      BY <1>4, <2>3 DEF Reads
    <3>2. wire'[e] = Stretch(Script(i), AckSize, c)
      BY <1>1, <1>3, <2>1, <3>1
    <3>3. QED
      BY <1>4, <2>2, <2>3, <3>2 DEF Reads, Alike
  <2>4. CASE pc[e] = "receiving"
    <3> DEFINE a == AckSize + HeaderSize + Len(message[e])
    <3>1. /\ a <= b /\ size[e] = Total(i) - a /\ size[e] > 0
          /\ message[e] = Stretch(Script(i), AckSize + HeaderSize, a)
          /\ wire[e] = Stretch(Script(i), a, b)
      BY <1>4, <2>4 DEF Reads
    <3>2. a \in Nat
      <4> DEFINE n == Len(message[e])
      <4>1. n \in Nat
        BY <1>1, LenProperties
      <4> HIDE DEF n
      <4>2. AckSize \in Nat /\ HeaderSize \in Nat
        BY <1>1
      <4>3. AckSize + HeaderSize + n \in Nat
        BY <4>1, <4>2
      <4>4. QED
        BY <4>3 DEF n
    <3> DEFINE x == a
    <3> HIDE DEF x
    <3>3. wire'[e] = Stretch(Script(i), x, c)
      BY <1>3, <3>1, <3>2 DEF x
    <3>4. a <= c
      BY <3>1, <3>2
    <3>5. QED
      BY <1>4, <2>2, <2>4, <3>1, <3>3, <3>4 DEF Reads, Alike, x
  <2>5. CASE pc[e] = "finish"
    <3>1. b = Total(i) /\ size[e] = 0 /\ message[e] = Content(i) /\ wire[e] = <<>>
      BY <1>4, <2>5 DEF Reads
    <3>2. c = b
      BY <1>2, <3>1
    <3> DEFINE s == Script(i)
    <3>3. s \in Seq(Byte) /\ b <= Len(s)
      BY <1>1, <3>1, <3>2, ScriptIs
    <3> HIDE DEF s
    <3>4. Stretch(s, b, b) = <<>>
      BY <3>3, StretchEmpty
    <3>5. wire[e] = Stretch(Script(i), b, b)
      BY <3>1, <3>4 DEF s
    <3>6. wire'[e] = Stretch(Script(i), b, c)
      BY <1>3, <3>5
    <3>7. wire'[e] = <<>>
      BY <3>2, <3>4, <3>6 DEF s
    <3>8. QED
      BY <1>4, <2>2, <2>5, <3>1, <3>2, <3>7 DEF Reads, Alike
  <2>6. QED
    BY <1>4, <2>3, <2>4, <2>5 DEF Reads
<1>5. ASSUME i = turn[e] + 1, HasAck(e, b)
      PROVE  HasAck(e, c)'
  <2>1. b \in AckSize .. Total(i) /\ wire[e] = Stretch(Script(i), 0, b)
    BY <1>5 DEF HasAck
  <2>2. c \in AckSize .. Total(i)
    BY <1>1, <1>2, <2>1
  <2>3. wire'[e] = Stretch(Script(i), 0, c)
    BY <1>3, <2>1
  <2>4. QED
    BY <1>5, <2>2, <2>3 DEF HasAck, Alike
<1>6. ASSUME i = turn[e], Junk(e, b)
      PROVE  Junk(e, c)'
  <2>1. b \in AckSize .. Total(i)
    BY <1>6 DEF Junk
  <2>2. c \in AckSize .. Total(i)
    BY <1>1, <1>2, <2>1
  <2>3. CASE pc[e] = "idle"
    <3>1. PICK a \in 1 .. AckSize - 1 : wire[e] = Stretch(Script(i), a, b)
      BY <1>6, <2>3 DEF Junk
    <3>2. a \in Nat /\ a <= b
      BY <1>1, <2>1
    <3>3. wire'[e] = Stretch(Script(i), a, c)
      BY <1>3, <3>1, <3>2
    <3>4. QED
      BY <1>6, <2>2, <2>3, <3>3 DEF Junk, Alike
  <2>4. CASE pc[e] = "receiving"
    <3>1. Len(wire[e]) + (Total(i) - b) < size[e]
      BY <1>6, <2>4 DEF Junk
    <3> DEFINE s == Script(i)
               t == Stretch(s, b, c)
               w == wire[e]
               m == Len(w)
               n == Len(wire'[e])
    <3>2. s \in Seq(Byte) /\ b <= c /\ c <= Len(s) /\ w \in Seq(Byte)
      BY <1>1, ScriptIs DEF StreamTypeOK
    <3> HIDE DEF s, w
    <3>3. t \in Seq(Byte) /\ Len(t) = c - b
      BY <3>2, StretchIs
    <3> HIDE DEF t
    <3>4. Len(w \o t) = Len(w) + Len(t) /\ Len(w) \in Nat
      BY <3>2, <3>3, ConcatProperties, LenProperties
    <3>5. n = m + (c - b) /\ m \in Nat
      BY <3>3, <3>4 DEF s, t, w, Comes
    <3> HIDE DEF m, n
    <3>6. m + (Total(i) - b) < size[e]
      BY <3>1 DEF m, w
    <3>7. n + (Total(i) - c) < size[e]
      BY <1>1, <1>2, <3>5, <3>6
    <3>8. Len(wire'[e]) + (Total(i) - c) < size[e]
      BY <3>7 DEF n
    <3>9. QED
      BY <1>6, <2>2, <2>4, <3>8 DEF Junk, Alike
  <2>5. QED
    BY <1>6, <2>3, <2>4 DEF Junk
<1>7. QED
  BY <1>4, <1>5, <1>6

\* What was read of the message is what there is of it.
LEMMA ReadsAfter ==
    ASSUME StreamTypeOK, NEW t \in End, turn'[t] = turn[t],
           NEW i \in 1 .. NumMessages, i = turn[t],
           NEW b \in Nat, b <= Total(i),
           NEW a \in AckSize + HeaderSize .. b,
           wire'[t] = Stretch(Script(i), a, b),
           Receiving(t, Total(i) - a, Stretch(Script(i), AckSize + HeaderSize, a))
    PROVE  Reads(t, b)' /\ pc'[t] \in {"receiving", "finish"}
<1> DEFINE A == AckSize
           H == HeaderSize
           s == Script(i)
           T == Total(i)
           l == Dialogue[i].length
           d == A + H
           m == Stretch(s, d, a)
<1>1. /\ A \in Nat \ {0} /\ H \in Nat \ {0} /\ NumMessages \in Nat
      /\ i \in 1 .. NumMessages + 1
      /\ Modulus \in Nat
  BY Basics
<1>2. l \in Nat /\ l < Modulus
  BY MessageIs
<1>3. T = A + H + l /\ s \in Seq(Byte) /\ Len(s) = T
  BY <1>1, ScriptIs
<1>4. d \in Nat /\ a \in Nat /\ d <= a /\ a <= b /\ b <= T
  BY <1>1
<1>5. s \in Seq(Byte) /\ a <= Len(s) /\ b <= Len(s)
  BY <1>1, <1>2, <1>3, <1>4
<1>6. T - a \in 0 .. Modulus - 1 /\ T \in Nat
  <2> HIDE DEF T, l
  <2>1. QED
    BY <1>1, <1>2, <1>3, <1>4
<1>7. (T - a) % Modulus = T - a
  <2> HIDE DEF T
  <2>1. QED
    BY <1>6, ModIs
<1>8. Len(m) = a - d
  <2> HIDE DEF s, d
  <2>1. QED
    BY <1>4, <1>5, StretchIs
<1>9. A + H + Len(m) = a
  <2> DEFINE n == Len(m)
  <2>1. n = a - d
    BY <1>8
  <2> HIDE DEF n
  <2>2. A + H + n = a
    BY <1>1, <1>4, <2>1
  <2>3. QED
    BY <2>2 DEF n
<1>10. /\ size'[t] = T - a /\ message'[t] = m
       /\ pc'[t] = IF T - a = 0 THEN "finish" ELSE "receiving"
  BY <1>7 DEF Receiving, Set, StreamTypeOK
<1>11. b \in A .. T /\ A + H + Len(message'[t]) = a
  BY <1>1, <1>4, <1>6, <1>9, <1>10, SMTT(30)
<1>12. CASE T - a = 0
  <2>1. a = T /\ b = T
    <3> HIDE DEF T
    <3>1. QED
      BY <1>4, <1>6, <1>12
  <2>2. m = Content(i)
    BY <1>1, <2>1, Spans
  <2>3. Stretch(s, a, b) = <<>>
    <3> HIDE DEF s, T
    <3>1. QED
      BY <1>4, <1>5, <2>1, StretchEmpty
  <2>4. wire'[t] = <<>>
    BY <2>3
  <2>5. pc'[t] = "finish" /\ size'[t] = 0 /\ message'[t] = Content(i)
    BY <1>10, <1>12, <2>2
  <2>6. QED
    BY <1>11, <2>1, <2>4, <2>5 DEF Reads
<1>13. CASE T - a # 0
  <2>1. size'[t] > 0
    BY <1>6, <1>10, <1>13
  <2>2. pc'[t] = "receiving"
    BY <1>10, <1>13
  <2> DEFINE x == AckSize + HeaderSize + Len(message'[t])
  <2>3. x = a
    BY <1>11
  <2> HIDE DEF x
  <2>4. /\ x <= b /\ size'[t] = Total(i) - x
        /\ message'[t] = Stretch(Script(i), AckSize + HeaderSize, x)
        /\ wire'[t] = Stretch(Script(i), x, b)
    BY <1>4, <1>10, <2>3
  <2>5. QED
    BY <1>11, <2>1, <2>2, <2>4 DEF Reads, x
<1>14. QED
  BY <1>12, <1>13

\* An end that reads its peer's message goes on to read it, whatever of it a
\* recv returns.
LEMMA ReadStep ==
    ASSUME StreamTypeOK, StreamTypeOK', TurnInv, NEW t \in End, NEW b \in Nat,
           Reads(t, b), ~ToSend(t), Step(t)
    PROVE  \/ /\ Reads(t, b)' /\ pc'[t] \in {"receiving", "finish"}
              /\ turn' = turn /\ send_ready' = send_ready
              /\ received' = received /\ cut' = cut
              /\ wire'[Peer(t)] = wire[Peer(t)]
           \/ pc[t] = "finish" /\ SendFinished(t)
           \/ pc'[t] = "crashed" /\ cut' /\ wire'[Peer(t)] = wire[Peer(t)]
           \/ /\ Gone(Peer(t))
              /\ Gone(t)' \/ (wire'[t] = <<>> /\ pc'[t] # "finish")
<1> DEFINE i == turn[t]
<1>1. /\ AckSize \in Nat \ {0} /\ HeaderSize \in Nat \ {0} /\ BufferSize[t] \in Int
      /\ NumMessages \in Nat /\ i \in 1 .. NumMessages + 1
      /\ Peer(t) \in End /\ Peer(t) # t
  BY Basics, BufferIs DEF StreamTypeOK
<1>2. b \in AckSize .. Total(i) /\ Total(i) \in Nat
  BY <1>1, ScriptIs DEF Reads
<1>3. CASE ToReceive(t)
  <2>1. pc[t] = "idle" /\ i \in 1 .. NumMessages /\ Dialogue[i].from # t
    BY <1>1, <1>3 DEF ToReceive
  <2>2. wire[t] = Stretch(Script(i), AckSize, b)
    BY <2>1 DEF Reads
  <2>3. CASE ReceiveFirst(t)
    <3> DEFINE A == AckSize
               H == HeaderSize
               s == Script(i)
               l == Dialogue[i].length
    <3>1. PICK chunk \in Chunks(t, BufferSize[t]) :
            /\ Len(chunk) >= H
            /\ wire' = Taken(t, chunk)
            /\ cut' = (cut \/ Cuts(chunk))
            /\ Receiving(t, LengthIn(chunk) - (Len(chunk) - H),
                         SubSeq(chunk, H + 1, Len(chunk)))
      BY <2>3 DEF ReceiveFirst
    <3>2. wire \in [End -> Seq(Byte)] /\ AckSize \in Nat /\ BufferSize[t] \in Int
          /\ AckSize <= b /\ b <= Total(i)
      BY <1>1, <1>2 DEF StreamTypeOK
    <3>3. PICK n \in 1 .. b - AckSize :
            /\ chunk = Stretch(Script(i), AckSize, AckSize + n)
            /\ Len(chunk) = n
            /\ Taken(t, chunk)[t] = Stretch(Script(i), AckSize + n, b)
      <4>1. PICK m : Takes(t, i, AckSize, b, BufferSize[t], chunk, m)
        BY <1>1, <2>2, <3>2, ChunkOfScript
      <4>2. QED
        BY <4>1, Zenon DEF Takes
    <3> DEFINE a == AckSize + n
    <3>4. /\ n \in Nat /\ n >= H /\ a \in Nat /\ A < a /\ A + H <= a /\ a <= b
          /\ a <= Total(i) /\ A \in Nat /\ H \in Nat /\ A \in 1 .. A /\ H \in 0 .. a - A
      <4>1. n \in Int /\ 1 <= n /\ n <= b - AckSize /\ n >= H
        <5>1. Len(chunk) >= H /\ Len(chunk) = n
          BY <3>1, <3>3
        <5>2. n >= H
          BY <5>1
        <5>3. QED
          BY <1>1, <3>2, <3>3, <5>2
      <4>2. /\ A = AckSize /\ A \in Nat \ {0} /\ H \in Nat \ {0} /\ b <= Total(i)
            /\ b \in Nat /\ Total(i) \in Nat
        BY <1>1, <1>2, <3>2
      <4> DEFINE T == Total(i)
      <4> HIDE DEF T, A, H
      <4>3. a \in Nat /\ A < a /\ A + H <= a /\ a <= b /\ a <= T
        BY <4>1, <4>2 DEF T
      <4>4. A \in 1 .. A /\ H \in 0 .. a - A /\ n \in Nat
        BY <4>1, <4>2
      <4>5. QED
        BY <4>1, <4>2, <4>3, <4>4 DEF T
    <3> HIDE DEF a
    <3>5. chunk = Stretch(Script(i), AckSize, a)
      BY <3>3 DEF a
    <3>6. ~Cuts(chunk)
      <4>1. Cuts(Stretch(Script(i), A, a)) <=>
                a < AckSize \/ (AckSize < a /\ a < AckSize + HeaderSize)
        BY <1>1, <3>4, CutsIs
      <4>2. QED
        BY <3>4, <3>5, <4>1
    <3>7. LengthIn(chunk) = l
      <4>1. LengthIn(Stretch(Script(i), A, a)) =
                IF A = AckSize THEN Dialogue[i].length ELSE JunkAfter(A, i)
        BY <2>1, <3>4, LengthInIs
      <4>2. QED
        BY <3>5, <4>1
    <3>8. SubSeq(chunk, H + 1, Len(chunk)) = Stretch(s, A + H, a)
      <4>1. s \in Seq(Byte) /\ A \in Nat /\ a \in Nat /\ A <= a /\ a <= Len(s)
            /\ H \in 0 .. a - A
        BY <1>1, <3>4, ScriptIs
      <4> HIDE DEF A, H, s
      <4>2. SubSeq(Stretch(s, A, a), H + 1, Len(Stretch(s, A, a))) = Stretch(s, A + H, a)
        BY <4>1, StretchParts
      <4>3. QED
        BY <3>5, <4>2 DEF s, A
    <3>9. LengthIn(chunk) - (Len(chunk) - H) = Total(i) - a
      <4>1. Total(i) = A + H + l /\ l \in Nat
        BY <1>1, <2>1, ScriptIs, MessageIs
      <4>2. Len(chunk) = n /\ a = A + n
        BY <3>3 DEF a
      <4> DEFINE u == LengthIn(chunk)
                 v == Len(chunk)
                 T == Total(i)
      <4>3. u = l /\ v = n /\ T = A + H + l
        BY <3>7, <4>1, <4>2
      <4> HIDE DEF u, v, T, l
      <4>4. u - (v - H) = T - a
        BY <3>4, <4>1, <4>2, <4>3
      <4>5. QED
        BY <4>4 DEF u, v, T
    <3>10. Receiving(t, Total(i) - a, Stretch(Script(i), AckSize + HeaderSize, a))
      BY <3>1, <3>8, <3>9
    <3>11. wire'[t] = Stretch(Script(i), a, b)
      BY <3>1, <3>3 DEF a
    <3>12. turn' = turn /\ send_ready' = send_ready /\ received' = received
      BY <2>3 DEF ReceiveFirst
    <3>13. a \in AckSize + HeaderSize .. b /\ b <= Total(i)
      BY <1>2, <3>4
    <3>14. Reads(t, b)' /\ pc'[t] \in {"receiving", "finish"}
      BY <2>1, <3>10, <3>11, <3>12, <3>13, ReadsAfter
    <3>15. cut' = cut
      BY <3>1, <3>6 DEF StreamTypeOK
    <3>16. wire'[Peer(t)] = wire[Peer(t)]
      BY <3>1, <3>2, TakenIs
    <3>17. QED
      BY <3>12, <3>14, <3>15, <3>16
  <2>4. CASE ReceiveTooShort(t)
    <3>0. ASSUME NEW max \in Int, NEW c \in Chunks(t, max)
          PROVE  \E n \in 1 .. b - AckSize :
                    /\ n <= max /\ c = Stretch(Script(i), AckSize, AckSize + n)
                    /\ c \in Seq(Byte) /\ Len(c) = n
                    /\ Taken(t, c)[t] = Stretch(Script(i), AckSize + n, b)
      <4>1. wire \in [End -> Seq(Byte)] /\ AckSize \in Nat /\ AckSize <= b /\ b <= Total(i)
        BY <1>1, <1>2 DEF StreamTypeOK
      <4>2. PICK m : Takes(t, i, AckSize, b, max, c, m)
        BY <1>1, <2>2, <4>1, ChunkOfScript
      <4>3. QED
        BY <4>2, Zenon DEF Takes
    <3>1. PICK chunk \in Chunks(t, HeaderSize - 1) : cut' = (cut \/ Cuts(chunk))
      BY <2>4 DEF ReceiveTooShort
    <3>2. wire \in [End -> Seq(Byte)] /\ AckSize \in Nat /\ HeaderSize - 1 \in Int
          /\ AckSize <= b /\ b <= Total(i)
      BY <1>1, <1>2 DEF StreamTypeOK
    <3>3. PICK n \in 1 .. b - AckSize :
            n <= HeaderSize - 1 /\ chunk = Stretch(Script(i), AckSize, AckSize + n)
      BY <3>0, <3>1, <3>2
    <3> DEFINE a == AckSize + n
    <3>4. /\ a \in Nat /\ AckSize < a /\ a < AckSize + HeaderSize /\ a <= Total(i)
          /\ AckSize \in Nat
      <4>1. n \in Int /\ 1 <= n /\ n <= b - AckSize /\ n <= HeaderSize - 1
        BY <1>1, <3>2, <3>3
      <4>2. AckSize \in Nat /\ HeaderSize \in Nat /\ b <= Total(i)
            /\ b \in Nat /\ Total(i) \in Nat
        BY <1>1, <1>2, <3>2
      <4> DEFINE T == Total(i)
      <4> HIDE DEF T
      <4>3. /\ AckSize + n \in Nat /\ AckSize < AckSize + n
            /\ AckSize + n < AckSize + HeaderSize /\ AckSize + n <= T
        BY <4>1, <4>2 DEF T
      <4>4. QED
        BY <4>2, <4>3 DEF T
    <3>5. chunk = Stretch(Script(i), AckSize, a)
      BY <3>3
    <3> HIDE DEF a
    <3>6. Cuts(Stretch(Script(i), AckSize, a))
      BY <1>1, <3>4, CutsIs
    <3>7. cut'
      BY <3>1, <3>5, <3>6
    <3>8. pc'[t] = "crashed" /\ wire'[Peer(t)] = wire[Peer(t)]
      BY <1>1, <2>4 DEF ReceiveTooShort, Ends, Set, StreamTypeOK
    <3>9. QED
      BY <3>7, <3>8
  <2>5. CASE ReceiveClosed(t)
    BY <1>1, <2>5 DEF ReceiveClosed, Ends, Set, StreamTypeOK, NothingComes, Gone
  <2>6. QED
    BY <1>3, <2>1, <2>3, <2>4, <2>5, WhoSteps
<1>4. CASE pc[t] = "receiving"
  <2> DEFINE d == AckSize + HeaderSize
             k == Len(message[t])
             a == d + k
  <2>1. /\ a <= b /\ size[t] = Total(i) - a /\ size[t] > 0
        /\ message[t] = Stretch(Script(i), d, a)
        /\ wire[t] = Stretch(Script(i), a, b)
    <3>1. /\ AckSize + HeaderSize + Len(message[t]) <= b
          /\ size[t] = Total(i) - (AckSize + HeaderSize + Len(message[t]))
          /\ size[t] > 0
          /\ message[t] = Stretch(Script(i), AckSize + HeaderSize,
                                  AckSize + HeaderSize + Len(message[t]))
          /\ wire[t] = Stretch(Script(i), AckSize + HeaderSize + Len(message[t]), b)
      BY <1>4 DEF Reads
    <3>2. QED
      BY <3>1
  <2>2. d \in Nat /\ k \in Nat
    <3>1. message[t] \in Seq(Byte)
      BY DEF StreamTypeOK
    <3>2. QED
      BY <1>1, <3>1, LenProperties
  <2>3. i \in 1 .. NumMessages
    BY <1>1, <1>4 DEF TurnInv
  <2> HIDE DEF k, d
  <2>4. a \in Nat /\ d <= a
    BY <2>2
  <2>5. CASE ReceiveChunk(t)
    <3>1. PICK chunk \in Chunks(t, BufferSize[t]) :
            /\ wire' = Taken(t, chunk)
            /\ Receiving(t, size[t] - Len(chunk), message[t] \o chunk)
      BY <2>5 DEF ReceiveChunk
    <3>2. wire \in [End -> Seq(Byte)] /\ BufferSize[t] \in Int /\ b <= Total(i)
      BY <1>1, <1>2 DEF StreamTypeOK
    <3> DEFINE x == a
    <3>3. x \in Nat /\ x <= b /\ wire[t] = Stretch(Script(i), x, b)
      BY <2>1, <2>4
    <3>4. size[t] = Total(i) - x /\ message[t] = Stretch(Script(i), d, x) /\ d <= x
      BY <2>1, <2>4
    <3> HIDE DEF x
    <3>5. PICK n \in 1 .. b - x :
            /\ chunk = Stretch(Script(i), x, x + n) /\ Len(chunk) = n
            /\ Taken(t, chunk)[t] = Stretch(Script(i), x + n, b)
      <4>1. PICK m : Takes(t, i, x, b, BufferSize[t], chunk, m)
        BY <1>1, <3>2, <3>3, ChunkOfScript
      <4>2. QED
        BY <4>1, Zenon DEF Takes
    <3> DEFINE y == x + n
    <3>6. y \in Nat /\ x <= y /\ y <= b /\ y <= Total(i) /\ d <= y /\ n \in Nat
      BY <1>2, <2>2, <3>2, <3>3, <3>4, <3>5
    <3> HIDE DEF y
    <3>7. message[t] \o chunk = Stretch(Script(i), d, y)
      <4>1. Stretch(Script(i), d, x) \o Stretch(Script(i), x, y) =
                Stretch(Script(i), d, y)
        <5>1. d <= x /\ x \in Nat
          BY <3>3, <3>4
        <5>2. QED
          BY <1>1, <2>2, <3>6, <5>1, StretchAppend
      <4>2. QED
        BY <3>4, <3>5, <4>1 DEF y
    <3>8. size[t] - Len(chunk) = Total(i) - y
      <4> DEFINE T == Total(i)
                 v == Len(chunk)
      <4>1. v = n /\ size[t] = T - x /\ T \in Nat
        BY <1>2, <3>4, <3>5
      <4> HIDE DEF T, v
      <4>2. size[t] - v = T - y
        BY <3>3, <3>6, <4>1 DEF y
      <4>3. QED
        BY <4>2 DEF T, v
    <3>9. Receiving(t, Total(i) - y, Stretch(Script(i), AckSize + HeaderSize, y))
      BY <3>1, <3>7, <3>8 DEF d
    <3>10. wire'[t] = Stretch(Script(i), y, b)
      BY <3>1, <3>5 DEF y
    <3>11. turn' = turn /\ send_ready' = send_ready /\ received' = received /\ cut' = cut
      BY <2>5 DEF ReceiveChunk
    <3>12. y \in AckSize + HeaderSize .. b
      BY <1>1, <3>6 DEF d
    <3>13. Reads(t, b)' /\ pc'[t] \in {"receiving", "finish"}
      BY <2>3, <3>2, <3>9, <3>10, <3>11, <3>12, ReadsAfter
    <3>14. wire'[Peer(t)] = wire[Peer(t)]
      BY <3>1, <3>2, TakenIs
    <3>15. QED
      BY <3>11, <3>13, <3>14
  <2>6. CASE ReceiveChunkClosed(t)
    BY <1>1, <1>4, <2>6
    DEF ReceiveChunkClosed, Ends, Set, StreamTypeOK, NothingComes, Gone
  <2>7. QED
    BY <1>4, <2>5, <2>6, WhoSteps DEF ToSend, ToReceive
<1>5. CASE pc[t] = "finish"
  BY <1>5, WhoSteps
<1>6. QED
  BY <1>3, <1>4, <1>5, WhoSteps DEF Reads, ToSend, ToReceive

\* What is read of a length that is none is never all of it.
LEMMA JunkStep ==
    ASSUME StreamTypeOK, StreamTypeOK', NEW t \in End, NEW b \in Nat,
           Junk(t, b), Step(t)
    PROVE  /\ cut => cut'
           /\ \/ /\ Junk(t, b)' /\ turn' = turn /\ received' = received
                 /\ wire'[Peer(t)] = wire[Peer(t)]
              \/ pc'[t] = "crashed" /\ wire'[Peer(t)] = wire[Peer(t)]
              \/ /\ Gone(Peer(t))
                 /\ Gone(t)' \/ (wire'[t] = <<>> /\ pc'[t] # "finish")
<1> DEFINE i == turn[t]
           A == AckSize
           H == HeaderSize
           l == Dialogue[i].length
           T == Total(i)
<1>1. /\ A \in Nat \ {0} /\ H \in Nat \ {0} /\ BufferSize[t] \in Int
      /\ Modulus \in Nat
      /\ NumMessages \in Nat /\ i \in 1 .. NumMessages + 1
      /\ Peer(t) \in End /\ Peer(t) # t
  BY Basics, BufferIs DEF StreamTypeOK
<1>2. i \in 1 .. NumMessages /\ Dialogue[i].from # t /\ b \in A .. T
  BY <1>1 DEF Junk
<1>3. l \in Nat /\ T = A + H + l
  BY <1>1, <1>2, MessageIs, ScriptIs
<1>4. /\ wire \in [End -> Seq(Byte)] /\ size[t] \in 0 .. Modulus - 1
      /\ pc \in [End -> {"idle", "sending", "ack", "spin", "receiving", "finish",
                       "loop", "left", "crashed", "closed"}]
  BY DEF StreamTypeOK
<1>5. ASSUME NEW left \in 1 .. Modulus - 1, NEW content, Receiving(t, left, content)
      PROVE  size'[t] = left /\ pc'[t] = "receiving"
  <2>1. left % Modulus = left /\ left # 0
    <3>1. left \in 0 .. Modulus - 1 /\ left \in Int /\ left # 0
      BY <1>1
    <3>2. QED
      BY <3>1, ModIs
  <2>2. QED
    BY <1>5, <2>1 DEF Receiving, Set, StreamTypeOK
<1> HIDE DEF A, H, l, T
<1>6. CASE pc[t] = "idle"
  <2>1. PICK a \in 1 .. A - 1 : wire[t] = Stretch(Script(i), a, b)
    BY <1>6 DEF Junk, A
  <2>2. a \in Nat /\ a <= b /\ b <= T /\ a \in 1 .. A /\ a # A
    BY <1>1, <1>2
  <2> DEFINE J == JunkAfter(a, i)
  <2>3. CASE ReceiveFirst(t)
    <3>0. J \in 1 .. Modulus - 1 /\ A - a + l < J
      BY <1>2, JunkIs DEF A, l
    <3>1. PICK chunk \in Chunks(t, BufferSize[t]) :
            /\ Len(chunk) >= H
            /\ wire' = Taken(t, chunk)
            /\ cut' = (cut \/ Cuts(chunk))
            /\ Receiving(t, LengthIn(chunk) - (Len(chunk) - H),
                         SubSeq(chunk, H + 1, Len(chunk)))
      BY <2>3 DEF ReceiveFirst, H
    <3>2. PICK n \in 1 .. b - a :
            /\ chunk = Stretch(Script(i), a, a + n) /\ Len(chunk) = n
            /\ Taken(t, chunk)[t] = Stretch(Script(i), a + n, b)
      <4>1. BufferSize[t] \in Int /\ b <= Total(i)
        BY <1>1, <2>2 DEF T
      <4>2. PICK m : Takes(t, i, a, b, BufferSize[t], chunk, m)
        BY <1>1, <1>4, <2>1, <2>2, <4>1, ChunkOfScript
      <4>3. QED
        BY <4>2, Zenon DEF Takes
    <3>3. n \in Nat /\ H <= n /\ n <= b - a /\ a + n \in Nat /\ a + H <= a + n /\ a + n <= T
      <4> DEFINE v == Len(chunk)
      <4>1. v >= H /\ v = n
        BY <3>1, <3>2
      <4> HIDE DEF v
      <4>2. H <= n /\ H \in Nat /\ n \in Int /\ 1 <= n /\ n <= b - a /\ b <= T /\ T \in Int
        <5>1. n \in 1 .. b - a
          BY <3>2
        <5>2. T \in Int
          BY <1>1, <1>3
        <5>3. QED
          BY <1>1, <2>2, <4>1, <5>1, <5>2
      <4>3. a \in Nat
        BY <2>2
      <4>4. QED
        BY <4>2, <4>3
    <3>4. LengthIn(chunk) = J
      <4> DEFINE c == a + n
      <4>1. c \in Nat /\ a + HeaderSize <= c /\ c <= Total(i) /\ a \in 1 .. AckSize
        BY <2>2, <3>3 DEF T, H, A
      <4>2. chunk = Stretch(Script(i), a, c)
        BY <3>2
      <4> HIDE DEF c
      <4>3. LengthIn(Stretch(Script(i), a, c)) =
                IF a = AckSize THEN Dialogue[i].length ELSE JunkAfter(a, i)
        BY <1>2, <4>1, LengthInIs
      <4>4. QED
        BY <2>2, <4>2, <4>3 DEF A
    <3> DEFINE left == LengthIn(chunk) - (Len(chunk) - H)
    <3>5. left = J - (n - H)
      BY <3>2, <3>4
    <3> HIDE DEF left
    <3> HIDE DEF J
    <3>6. left \in 1 .. Modulus - 1 /\ left \in Int /\ T - a < left + n
      BY <1>1, <1>2, <1>3, <2>2, <3>0, <3>3, <3>5
    <3>7. Receiving(t, left, SubSeq(chunk, H + 1, Len(chunk)))
      BY <3>1 DEF left
    <3>8. size'[t] = left /\ pc'[t] = "receiving"
      BY <1>5, <3>6, <3>7
    <3>9. Len(wire'[t]) + (T - b) < size'[t]
      <4> DEFINE s == Script(i)
                 c == a + n
                 m == Len(wire'[t])
      <4>1. s \in Seq(Byte) /\ c \in Nat /\ c <= b /\ b <= Len(s)
        BY <1>1, <2>2, <3>3, ScriptIs DEF T
      <4>2. wire'[t] = Stretch(s, c, b)
        BY <3>1, <3>2
      <4> HIDE DEF s, c
      <4>3. Len(Stretch(s, c, b)) = b - c
        BY <4>1, StretchIs
      <4>4. m = b - (a + n)
        BY <4>2, <4>3 DEF c
      <4> HIDE DEF m
      <4>5. m + (T - b) < left
        BY <1>1, <1>2, <1>3, <2>2, <3>3, <3>6, <4>4
      <4>6. QED
        BY <3>8, <4>5 DEF m
    <3>10. turn' = turn /\ received' = received
      BY <2>3 DEF ReceiveFirst
    <3>11. Junk(t, b)'
      BY <1>2, <3>8, <3>9, <3>10 DEF Junk, T, A
    <3>12. wire'[Peer(t)] = wire[Peer(t)]
      BY <1>1, <1>4, <3>1, TakenIs
    <3>13. QED
      BY <3>1, <3>10, <3>11, <3>12
  <2>4. CASE ReceiveTooShort(t)
    BY <1>1, <1>4, <2>4 DEF ReceiveTooShort, Ends, Set
  <2>5. CASE ReceiveClosed(t)
    BY <1>1, <1>4, <2>5 DEF ReceiveClosed, Ends, Set, NothingComes, Gone
  <2>6. QED
    BY <1>2, <1>6, <2>3, <2>4, <2>5, WhoSteps DEF ToSend
<1>7. CASE pc[t] = "receiving"
  <2>1. Len(wire[t]) + (T - b) < size[t]
    BY <1>7 DEF Junk, T
  <2>2. CASE ReceiveChunk(t)
    <3>1. PICK chunk \in Chunks(t, BufferSize[t]) :
            /\ wire' = Taken(t, chunk)
            /\ Receiving(t, size[t] - Len(chunk), message[t] \o chunk)
      BY <2>2 DEF ReceiveChunk
    <3>2. /\ wire'[Peer(t)] = wire[Peer(t)]
          /\ Len(chunk) \in 1 .. Len(wire[t])
          /\ Len(wire'[t]) = Len(wire[t]) - Len(chunk)
      BY <1>1, <1>4, <3>1, TakenIs
    <3> DEFINE m == Len(wire[t])
               n == Len(chunk)
               r == Len(wire'[t])
               left == size[t] - n
    <3>3. m \in Nat
      BY <1>4, LenProperties
    <3>4. n \in 1 .. m /\ r = m - n
      BY <3>2
    <3>5. m + (T - b) < size[t]
      BY <2>1
    <3>6. Receiving(t, left, message[t] \o chunk)
      BY <3>1
    <3> HIDE DEF m, n, r
    <3>7. left \in 1 .. Modulus - 1 /\ r + (T - b) < left
      <4> DEFINE x == T - b
                 z == size[t]
      <4>1. x \in Nat
        BY <1>1, <1>2, <1>3
      <4>2. z \in 0 .. Modulus - 1 /\ m + x < z /\ left = z - n
        BY <1>4, <3>5
      <4> HIDE DEF x, z, left
      <4>3. left \in Int /\ r + x < left /\ 1 <= left /\ left <= Modulus - 1
        BY <1>1, <3>3, <3>4, <4>1, <4>2
      <4>4. QED
        BY <1>1, <4>3 DEF x
    <3> HIDE DEF left
    <3>8. size'[t] = left /\ pc'[t] = "receiving"
      BY <1>5, <3>6, <3>7
    <3>9. turn' = turn /\ received' = received /\ cut' = cut
      BY <2>2 DEF ReceiveChunk
    <3>10. Junk(t, b)'
      BY <1>2, <3>7, <3>8, <3>9 DEF Junk, T, A, r
    <3>11. QED
      BY <3>2, <3>9, <3>10
  <2>3. CASE ReceiveChunkClosed(t)
    BY <1>1, <1>4, <1>7, <2>3
    DEF ReceiveChunkClosed, Ends, Set, NothingComes, Gone
  <2>4. QED
    BY <1>7, <2>2, <2>3, WhoSteps
<1>8. QED
  BY <1>6, <1>7 DEF Junk

\* Nor does an end get ready again once part of an acknowledgement is lost.
LEMMA NotReadyStep ==
    ASSUME StreamTypeOK, NEW t \in End, NotReady(t), Step(t)
    PROVE  /\ cut => cut'
           /\ NotReady(t)' /\ turn' = turn /\ received' = received
           /\ wire'[Peer(t)] = wire[Peer(t)]
<1> DEFINE i == turn[t]
<1>1. /\ AckSize \in Nat \ {0} /\ NumMessages \in Nat /\ i \in 1 .. NumMessages + 1
      /\ wire \in [End -> Seq(Byte)] /\ AckSize \in Int
  BY Basics DEF StreamTypeOK
<1>2. pc[t] = "idle" /\ ~ToReceive(t) /\ ~send_ready[t] /\ SendNotReady(t)
  BY WhoSteps DEF NotReady, ToReceive, SendLength
<1>3. PICK a \in 1 .. AckSize - 1 : wire[t] = Stretch(Script(i), a, AckSize)
  BY <1>2 DEF NotReady
<1>4. turn' = turn /\ received' = received
  BY <1>2 DEF SendNotReady
<1>5. CASE /\ NothingComes(t) /\ pc' = Set(pc, t, "spin")
           /\ UNCHANGED <<wire, send_ready, cut>>
  BY <1>2, <1>4, <1>5 DEF NotReady, Set, StreamTypeOK
<1>6. ASSUME NEW chunk \in Chunks(t, AckSize),
             /\ wire' = Taken(t, chunk)
             /\ send_ready' = Set(send_ready, t, chunk = Finished)
             /\ cut' = (cut \/ Cuts(chunk))
             /\ pc' = IF chunk = Finished THEN pc ELSE Set(pc, t, "spin")
      PROVE  /\ cut => cut'
             /\ NotReady(t)' /\ wire'[Peer(t)] = wire[Peer(t)]
  <2>1. a \in Nat /\ a <= AckSize /\ AckSize <= Total(i) /\ AckSize \in Nat
    BY <1>1, ScriptIs
  <2>2. PICK n \in 1 .. AckSize - a :
            /\ chunk = Stretch(Script(i), a, a + n) /\ Len(chunk) = n
            /\ Taken(t, chunk)[t] = Stretch(Script(i), a + n, AckSize)
    <3>1. PICK m : Takes(t, i, a, AckSize, AckSize, chunk, m)
      BY <1>1, <1>3, <2>1, ChunkOfScript
    <3>2. QED
      BY <3>1, Zenon DEF Takes
  <2> DEFINE c == a + n
  <2>3. c \in Nat /\ a < c /\ c <= AckSize /\ a # 0
    BY <2>1, <2>2
  <2> HIDE DEF c
  <2>4. chunk # Finished
    <3>1. Stretch(Script(i), a, c) = Finished <=> a = 0 /\ c = AckSize
      BY <1>1, <2>1, <2>3, FinishedIs
    <3>2. QED
      BY <2>2, <2>3, <3>1 DEF c
  <2>5. pc'[t] = "spin" /\ ~send_ready'[t]
    BY <1>6, <2>4 DEF Set, StreamTypeOK
  <2>6. wire'[Peer(t)] = wire[Peer(t)]
    BY <1>1, <1>6, TakenIs
  <2>7. QED
    BY <1>6, <2>5, <2>6 DEF NotReady
<1>7. QED
  BY <1>2, <1>4, <1>5, <1>6 DEF SendNotReady

\* An end that waits for an acknowledgement that has arrived gets all of it and
\* goes on, or part of it, and its connection is never in step again.
LEMMA AckStep ==
    ASSUME StreamTypeOK, TurnInv, NEW t \in End, NEW b \in Nat,
           HasAck(t, b), Step(t)
    PROVE  /\ received' = received
           /\ \/ /\ HasAck(t, b)' /\ turn' = turn /\ cut' = cut
                 /\ wire'[Peer(t)] = wire[Peer(t)]
              \/ Gone(Peer(t)) /\ Gone(t)'
              \/ /\ turn'[t] = turn[t] + 1 /\ turn[t] <= NumMessages
                 /\ pc'[t] = "idle" /\ wire'[Peer(t)] = wire[Peer(t)]
                 /\ \/ cut' = cut /\ send_ready'[t] /\ Reads(t, b)'
                    \/ cut' /\ ToReceive(t)' /\ Junk(t, b)'
                    \/ cut' /\ ~ToReceive(t)' /\ NotReady(t)'
<1> DEFINE i == turn[t] + 1
           A == AckSize
           H == HeaderSize
           T == Total(i)
<1>1. /\ A \in Nat \ {0} /\ H \in Nat \ {0} /\ AckSize \in Int
      /\ NumMessages \in Nat /\ turn[t] \in 1 .. NumMessages + 1
      /\ Peer(t) \in End /\ Peer(t) # t
      /\ wire \in [End -> Seq(Byte)] /\ turn \in [End -> 1 .. NumMessages + 1]
      /\ send_ready \in [End -> BOOLEAN] /\ cut \in BOOLEAN
      /\ pc \in [End -> {"idle", "sending", "ack", "spin", "receiving", "finish",
                       "loop", "left", "crashed", "closed"}]
  BY Basics DEF StreamTypeOK
<1>2. turn[t] <= NumMessages /\ Dialogue[turn[t]].from = t
  BY DEF HasAck, TurnInv
<1>3. i \in 1 .. NumMessages + 1 /\ i \in Nat
  BY <1>1, <1>2
<1>4. /\ b \in A .. T /\ (b = A \/ Dialogue[i].from # t)
      /\ wire[t] = Stretch(Script(i), 0, b)
      /\ pc[t] = "ack" \/ (pc[t] = "sending" /\ size[t] = 0)
  BY DEF HasAck
<1>5. T \in Nat /\ A <= T /\ (i > NumMessages => T = A)
  BY <1>3, ScriptIs
<1> HIDE DEF i, A, H, T
<1>6. CASE SendDone(t)
  <2>1. /\ wire' = wire /\ turn' = turn /\ cut' = cut /\ received' = received
        /\ pc'[t] = "ack"
    BY <1>1, <1>6 DEF SendDone, Set
  <2>2. HasAck(t, b)'
    BY <1>4, <2>1 DEF HasAck, i, A, T
  <2>3. QED
    BY <2>1, <2>2
<1>7. CASE SendKills(t)
  BY <1>1, <1>7 DEF SendKills, Ends, Set, Gone
<1>8. CASE AwaitAck(t)
  <2>1. PICK chunk \in Chunks(t, AckSize) :
            /\ wire' = Taken(t, chunk)
            /\ send_ready' = Set(send_ready, t, chunk = Finished)
            /\ cut' = (cut \/ Cuts(chunk))
    BY <1>8 DEF AwaitAck
  <2>2. PICK n \in 1 .. b - 0 :
            /\ n <= AckSize
            /\ chunk = Stretch(Script(i), 0, 0 + n)
            /\ chunk \in Seq(Byte) /\ Len(chunk) = n
            /\ Taken(t, chunk)[t] = Stretch(Script(i), 0 + n, b)
    <3> DEFINE z == 0
    <3>1. z \in Nat /\ z <= b /\ b <= Total(i) /\ wire[t] = Stretch(Script(i), z, b)
      BY <1>4, <1>5 DEF T
    <3> HIDE DEF z
    <3>2. \E n \in 1 .. b - z :
            /\ n <= AckSize
            /\ chunk = Stretch(Script(i), z, z + n)
            /\ chunk \in Seq(Byte) /\ Len(chunk) = n
            /\ Taken(t, chunk)[t] = Stretch(Script(i), z + n, b)
      <4>1. PICK m : Takes(t, i, z, b, AckSize, chunk, m)
        BY <1>1, <1>3, <3>1, ChunkOfScript
      <4>2. QED
        BY <4>1, Zenon DEF Takes
    <3>3. QED
      BY <3>2 DEF z
  <2>3. /\ n \in Nat /\ 0 \in Nat /\ 0 < n /\ n <= AckSize /\ n <= Total(i)
        /\ chunk = Stretch(Script(i), 0, n) /\ wire'[t] = Stretch(Script(i), n, b)
    <3>1. 0 + n = n /\ n \in Nat /\ 0 < n /\ n <= A
      BY <2>2 DEF A
    <3>2. n <= T
      BY <1>1, <1>5, <3>1
    <3>3. QED
      BY <2>1, <2>2, <3>1, <3>2 DEF A, T
  <2>4. /\ received' = received /\ turn'[t] = i /\ pc'[t] = "idle"
        /\ send_ready'[t] = (chunk = Finished)
    BY <1>1, <1>8, <2>1 DEF AwaitAck, Returns, Set, i
  <2>5. wire'[Peer(t)] = wire[Peer(t)]
    BY <1>1, <2>1, TakenIs
  <2>6. chunk = Finished <=> n = A
    <3>1. Stretch(Script(i), 0, n) = Finished <=> 0 = 0 /\ n = AckSize
      BY <1>3, <2>3, FinishedIs
    <3>2. QED
      BY <2>3, <3>1 DEF A
  <2>7. Cuts(chunk) <=> n < A
    <3>1. Cuts(Stretch(Script(i), 0, n)) <=>
            n < AckSize \/ (AckSize < n /\ n < AckSize + HeaderSize)
      BY <1>3, <2>3, CutsIs
    <3>2. n \in Nat /\ n <= AckSize /\ AckSize \in Nat
      BY <1>1, <2>3 DEF A
    <3>3. QED
      BY <2>3, <3>1, <3>2 DEF A
  <2>8. (i <= NumMessages /\ Dialogue[i].from # t) <=> ToReceive(t)'
    BY <2>4 DEF ToReceive
  <2>9. CASE n = A
    <3>1. send_ready'[t] /\ cut' = cut
      <4>1. chunk = Finished /\ ~(n < A)
        BY <1>1, <2>6, <2>9
      <4>2. ~Cuts(chunk)
        BY <2>7, <4>1
      <4>3. send_ready'[t]
        BY <2>4, <4>1
      <4>4. cut' = cut
        BY <1>1, <2>1, <4>2
      <4>5. QED
        BY <4>3, <4>4
    <3>2. ToReceive(t)' \/ b = A
      BY <1>1, <1>3, <1>4, <1>5, <2>8
    <3>3. Reads(t, b)'
      BY <1>4, <2>3, <2>4, <2>9, <3>2 DEF Reads, A, T
    <3>4. QED
      BY <1>2, <2>4, <2>5, <3>1, <3>3 DEF i
  <2>10. CASE n # A
    <3>1. n \in 1 .. AckSize - 1
      BY <1>1, <2>3, <2>10 DEF A
    <3>2. ~send_ready'[t] /\ cut'
      <4>1. chunk # Finished /\ n < A
        BY <1>1, <2>3, <2>6, <2>10, <3>1 DEF A
      <4>2. Cuts(chunk)
        BY <2>7, <4>1
      <4>3. ~send_ready'[t]
        BY <2>4, <4>1
      <4>4. cut'
        BY <2>1, <4>2
      <4>5. QED
        BY <4>3, <4>4
    <3>3. ASSUME ToReceive(t)' PROVE Junk(t, b)'
      BY <1>4, <2>3, <2>4, <2>8, <3>1, <3>3 DEF Junk, A, T
    <3>4. ASSUME ~ToReceive(t)' PROVE NotReady(t)'
      <4>1. b = A
        BY <1>1, <1>3, <1>4, <1>5, <2>8, <3>4
      <4>2. wire'[t] = Stretch(Script(turn'[t]), n, AckSize)
        BY <2>3, <2>4, <4>1 DEF A
      <4>3. QED
        BY <2>4, <3>1, <3>2, <3>4, <4>2 DEF NotReady
    <3>5. QED
      BY <1>2, <2>4, <2>5, <3>2, <3>3, <3>4 DEF i
  <2>11. QED
    BY <2>9, <2>10
<1>9. ~AwaitAckClosed(t)
  <2> DEFINE s == Script(i)
  <2>1. s \in Seq(Byte) /\ b <= Len(s) /\ 0 \in Nat /\ 0 <= b /\ b # 0
    BY <1>1, <1>3, <1>4, <1>5, ScriptIs DEF T
  <2> HIDE DEF s
  <2>2. Stretch(s, 0, b) # <<>>
    BY <2>1, StretchEmpty
  <2>3. QED
    BY <1>4, <2>2 DEF AwaitAckClosed, NothingComes, s
<1>10. QED
  BY <1>4, <1>6, <1>7, <1>8, <1>9, WhoSteps DEF SendContent, SendFails

\* An end with a message goes on to send it to a peer that is there.
LEMMA SenderStep ==
    ASSUME StreamTypeOK, TurnInv, NEW f \in End, Sends(f), ~Gone(Peer(f)), Step(f)
    PROVE  /\ turn[f] \in 1 .. NumMessages /\ Dialogue[turn[f]].from = f
           /\ Progress(f) \in Nat /\ Progress(f)' \in Nat
           /\ Progress(f) <= Progress(f)' /\ Progress(f)' <= Total(turn[f])
           /\ Comes(Peer(f), turn[f], Progress(f), Progress(f)')
           /\ Sends(f)' /\ turn' = turn /\ received' = received /\ cut' = cut
<1> DEFINE i == turn[f]
           A == AckSize
           H == HeaderSize
           T == Total(i)
           l == Dialogue[i].length
           p == Peer(f)
<1>1. /\ A \in Nat \ {0} /\ H \in Nat \ {0}
      /\ NumMessages \in Nat /\ i \in 1 .. NumMessages + 1
      /\ p \in End /\ p # f
      /\ wire \in [End -> Seq(Byte)] /\ size \in [End -> 0 .. Modulus - 1]
      /\ send_ready \in [End -> BOOLEAN] /\ size[f] \in Nat /\ wire[p] \in Seq(Byte)
      /\ pc \in [End -> {"idle", "sending", "ack", "spin", "receiving", "finish",
                       "loop", "left", "crashed", "closed"}]
  <2>1. Modulus \in Nat /\ size[f] \in 0 .. Modulus - 1
    BY Basics DEF StreamTypeOK
  <2>2. size[f] \in Nat
    BY <2>1
  <2>3. QED
    BY <2>2, Basics DEF StreamTypeOK
<1>2. wire[f] = <<>> /\ ~NothingComes(f)
  BY DEF Sends, NothingComes
<1>3. \A max \in Int : Chunks(f, max) = {}
  <2>1. ASSUME NEW max \in Int, NEW chunk \in Chunks(f, max) PROVE FALSE
    <3>1. \E n \in 1 .. Len(wire[f]) : Len(chunk) = n
      BY <1>1, ChunkIs
    <3>2. Len(wire[f]) = 0
      BY <1>2, EmptySeq
    <3>3. QED
      BY <3>1, <3>2
  <2>2. QED
    BY <2>1
<1>4. SendLength(f) \/ SendContent(f) \/ SendDone(f)
  <2>1. AckSize \in Int /\ BufferSize[f] \in Int /\ HeaderSize - 1 \in Int
    BY <1>1, Basics, BufferIs
  <2>2. ~AwaitAck(f) /\ ~SendNotReady(f) /\ ~ReceiveFirst(f) /\ ~ReceiveTooShort(f)
    BY <1>2, <1>3, <2>1 DEF AwaitAck, SendNotReady, ReceiveFirst, ReceiveTooShort
  <2>3. ~AwaitAckClosed(f) /\ ~ReceiveClosed(f)
    BY <1>2 DEF AwaitAckClosed, ReceiveClosed
  <2>4. ~SendFails(f) /\ ~SendKills(f)
    BY DEF SendFails, SendKills
  <2>5. QED
    BY <2>2, <2>3, <2>4, WhoSteps DEF Sends
<1>5. i \in 1 .. NumMessages /\ Dialogue[i].from = f
  <2>1. CASE SendLength(f)
    BY <1>1, <2>1 DEF SendLength, ToSend
  <2>2. CASE pc[f] = "sending"
    BY <1>1, <2>2 DEF TurnInv
  <2>3. QED
    BY <1>4, <2>1, <2>2 DEF SendContent, SendDone
<1>6. l \in Nat /\ T = A + H + l
  <2>1. l \in Nat
    BY <1>5, MessageIs
  <2>2. i \in 1 .. NumMessages + 1 /\ i <= NumMessages
    BY <1>1, <1>5
  <2>3. QED
    BY <2>1, <2>2, ScriptIs
<1>7. CASE SendLength(f)
  <2>1. Progress(f) = A
    BY <1>7 DEF SendLength, ToSend, Progress
  <2>2. /\ pc'[f] = "sending" /\ size'[f] = l /\ turn' = turn /\ received' = received
        /\ cut' = cut /\ send_ready' = send_ready /\ send_ready[f]
    BY <1>1, <1>7 DEF SendLength, Set
  <2>3. Progress(f)' = T - l
    BY <2>2 DEF Progress
  <2>4. T - l = A + H
    <3> HIDE DEF T, l
    <3>1. QED
      BY <1>1, <1>6
  <2>5. Length(i) \in Seq(Byte) /\ Put(f, Length(i))
    BY <1>1, <1>5, <1>7, BytesIs DEF Length, SendLength
  <2>6. wire'[f] = <<>> /\ wire'[p] = wire[p] \o Length(i)
    BY <1>1, <1>2, <2>5, PutIs
  <2>7. Stretch(Script(i), A, A + H) = Length(i)
    BY <1>1, <1>5, Spans
  <2>8. Comes(p, i, Progress(f), Progress(f)')
    BY <2>1, <2>3, <2>4, <2>6, <2>7 DEF Comes
  <2>9. Sends(f)'
    BY <2>2, <2>6 DEF Sends
  <2>10. /\ Progress(f) \in Nat /\ Progress(f)' \in Nat
         /\ Progress(f) <= Progress(f)' /\ Progress(f)' <= T
    <3>1. A \in Nat /\ A + H \in Nat /\ A <= A + H /\ A + H <= T
      <4> HIDE DEF A, H, T, l
      <4>1. QED
        BY <1>1, <1>6
    <3>2. QED
      BY <2>1, <2>3, <2>4, <3>1
  <2>11. QED
    BY <1>5, <2>2, <2>8, <2>9, <2>10
<1>8. CASE SendContent(f)
  <2> DEFINE x == l - size[f]
  <2>1. Progress(f) = T - size[f]
    BY <1>8 DEF SendContent, Progress
  <2>2. PICK k \in 1 .. size[f] :
            /\ Put(f, SubSeq(Content(i), x + 1, x + k))
            /\ size' = Set(size, f, size[f] - k)
    BY <1>8 DEF SendContent
  <2>3. /\ pc'[f] = "sending" /\ size'[f] = size[f] - k /\ turn' = turn
        /\ received' = received /\ cut' = cut /\ send_ready' = send_ready
    BY <1>1, <1>8, <2>2 DEF SendContent, Set
  <2>4. Progress(f)' = T - (size[f] - k)
    BY <2>3 DEF Progress
  <2>5. size[f] <= l
    BY <1>8 DEF SendContent, TurnInv
  <2>6. k \in Nat /\ k <= size[f] /\ size[f] \in Nat
    BY <1>1, <2>2
  <2>7. /\ x \in Nat /\ x + k <= l
        /\ T - size[f] = A + H + x /\ T - (size[f] - k) = A + H + x + k
        /\ A + H + x \in Nat /\ A + H + x + k \in Nat /\ A + H + x + k <= T
        /\ A + H + x <= A + H + x + k
    <3> HIDE DEF A, H, T, l
    <3>1. x \in Nat /\ x + k <= l
      BY <1>6, <2>5, <2>6
    <3>2. /\ T - size[f] = A + H + x /\ T - (size[f] - k) = A + H + x + k
      BY <1>1, <1>6, <2>5, <2>6
    <3>3. A \in Nat /\ H \in Nat
      BY <1>1
    <3> HIDE DEF x
    <3>4. /\ A + H + x \in Nat /\ A + H + x + k \in Nat /\ A + H + x + k <= T
          /\ A + H + x <= A + H + x + k
      BY <1>6, <2>6, <3>1, <3>3
    <3>5. QED
      BY <3>1, <3>2, <3>4
  <2> DEFINE bytes == SubSeq(Content(i), x + 1, x + k)
  <2>8. bytes = Stretch(Script(i), A + H + x, A + H + x + k)
    <3>1. \A y \in Nat, j \in Nat : y + j <= l =>
            SubSeq(Content(i), y + 1, y + j) =
                Stretch(Script(i), A + H + y, A + H + y + j)
      <4>1. i <= NumMessages /\ i \in 1 .. NumMessages + 1
        BY <1>1, <1>5
      <4>2. QED
        BY <4>1, Spans
    <3> HIDE DEF x, l, A, H
    <3>2. QED
      BY <2>6, <2>7, <3>1
  <2> DEFINE u == A + H + x
             v == A + H + x + k
             s == Script(i)
  <2>9. /\ s \in Seq(Byte) /\ u \in Nat /\ v \in Nat /\ u <= v /\ v <= Len(s)
        /\ v <= T /\ Progress(f) = u /\ Progress(f)' = v
        /\ bytes = Stretch(s, u, v) /\ Put(f, bytes)
    <3>1. s \in Seq(Byte) /\ Len(s) = T
      BY <1>1, ScriptIs
    <3> HIDE DEF s, A, H, x, T
    <3>2. QED
      BY <2>1, <2>2, <2>4, <2>7, <2>8, <3>1 DEF s
  <2> HIDE DEF s, u, v, bytes
  <2>10. bytes \in Seq(Byte)
    <3>1. Stretch(s, u, v) \in Seq(Byte)
      BY <2>9, StretchIs
    <3>2. QED
      BY <2>9, <3>1
  <2>11. wire'[f] = <<>> /\ wire'[p] = wire[p] \o bytes
    BY <1>1, <1>2, <2>9, <2>10, PutIs
  <2>12. Comes(p, i, Progress(f), Progress(f)')
    BY <2>9, <2>11 DEF Comes, s
  <2>13. Sends(f)'
    BY <1>8, <2>3, <2>11 DEF Sends, SendContent
  <2>14. QED
    BY <1>5, <2>3, <2>9, <2>12, <2>13
<1>9. CASE SendDone(f)
  <2>1. /\ pc[f] = "sending" /\ size[f] = 0 /\ pc'[f] = "ack" /\ turn' = turn
        /\ received' = received /\ cut' = cut /\ wire' = wire
    BY <1>1, <1>9 DEF SendDone, Set
  <2>2. Progress(f) = T - 0 /\ Progress(f)' = T
    BY <2>1 DEF Progress
  <2>3. T \in Nat /\ T - 0 = T /\ T <= T
    <3> HIDE DEF T, l
    <3>1. QED
      BY <1>1, <1>6
  <2>4. Stretch(Script(i), T, T) = <<>>
    <3> DEFINE s == Script(i)
    <3>1. s \in Seq(Byte) /\ T <= Len(s)
      BY <1>1, <2>3, ScriptIs
    <3> HIDE DEF s, T
    <3>2. Stretch(s, T, T) = <<>>
      BY <2>3, <3>1, StretchEmpty
    <3>3. QED
      BY <3>2 DEF s
  <2>5. wire'[p] = wire[p] \o Stretch(Script(i), T, T)
    BY <1>1, <2>1, <2>4, ConcatEmptySeq
  <2>6. Comes(p, i, Progress(f), Progress(f)')
    BY <2>2, <2>3, <2>5 DEF Comes
  <2>7. Sends(f)'
    BY <1>2, <2>1 DEF Sends
  <2>8. QED
    BY <1>5, <2>1, <2>2, <2>3, <2>6, <2>7
<1>10. QED
  BY <1>4, <1>7, <1>8, <1>9

-----------------------------------------------------------------------------
(***************************************************************************)
(* The invariant is inductive.                                              *)
(***************************************************************************)

\* An end stays on its side of the dialogue.
LEMMA TurnStep ==
    ASSUME IInv, NEW e \in End, Step(e) \/ Leave(e)
    PROVE  TurnInv'
<1>0. StreamTypeOK /\ TurnInv
  BY DEF IInv
<1>1. Alike(Peer(e)) /\ Peer(e) \in End
  BY <1>0, Bystander, Basics
<1>2. /\ turn[e] \in 1 .. NumMessages + 1 /\ NumMessages \in Nat
      /\ size \in [End -> 0 .. Modulus - 1] /\ size[e] \in 0 .. Modulus - 1
      /\ Modulus \in Nat
      /\ turn \in [End -> 1 .. NumMessages + 1]
      /\ pc \in [End -> {"idle", "sending", "ack", "spin", "receiving", "finish",
                       "loop", "left", "crashed", "closed"}]
  BY <1>0, Basics DEF StreamTypeOK
<1> DEFINE Right(d) ==
        /\ pc[d] \in {"sending", "ack"} =>
            turn[d] <= NumMessages /\ Dialogue[turn[d]].from = d
        /\ pc[d] \in {"receiving", "finish"} =>
            turn[d] <= NumMessages /\ Dialogue[turn[d]].from # d
        /\ pc[d] = "sending" => size[d] <= Dialogue[turn[d]].length
<1>3. Right(Peer(e))'
  BY <1>0, <1>1 DEF TurnInv, Alike
<1>4. Right(e)
  BY <1>0 DEF TurnInv
<1>5. Right(e)'
  <2>1. CASE SendLength(e)
    <3>1. turn[e] \in 1 .. NumMessages /\ Dialogue[turn[e]].from = e
      BY <1>2, <2>1 DEF SendLength, ToSend
    <3>2. Dialogue[turn[e]].length \in Nat
      BY <3>1, MessageIs
    <3>3. /\ pc'[e] = "sending" /\ turn' = turn
          /\ size'[e] = Dialogue[turn[e]].length
      BY <1>2, <2>1 DEF SendLength, Set
    <3>4. QED
      BY <3>1, <3>2, <3>3
  <2>2. CASE SendContent(e)
    <3>1. PICK k \in 1 .. size[e] : size' = Set(size, e, size[e] - k)
      BY <2>2 DEF SendContent
    <3>2. pc' = pc /\ turn' = turn /\ pc[e] = "sending" /\ size'[e] = size[e] - k
      BY <1>2, <2>2, <3>1 DEF SendContent, Set
    <3>3. turn[e] \in 1 .. NumMessages /\ Dialogue[turn[e]].from = e
          /\ size[e] <= Dialogue[turn[e]].length
      BY <1>2, <1>4, <3>2
    <3>4. Dialogue[turn[e]].length \in Nat
      BY <3>3, MessageIs
    <3> DEFINE l == Dialogue[turn[e]].length
    <3>5. l \in Nat /\ size[e] <= l
      BY <3>3, <3>4
    <3> HIDE DEF l
    <3>6. size[e] - k <= l
      BY <1>2, <3>1, <3>5
    <3>7. QED
      BY <3>2, <3>3, <3>6 DEF l
  <2>3. CASE SendDone(e)
    BY <1>2, <1>4, <2>3 DEF SendDone, Set
  <2>4. CASE ReceiveFirst(e)
    <3>1. PICK left, content : Receiving(e, left, content)
      BY <2>4 DEF ReceiveFirst
    <3>2. pc'[e] \in {"finish", "receiving"} /\ turn' = turn
      BY <1>2, <2>4, <3>1 DEF ReceiveFirst, Receiving, Set
    <3>3. QED
      BY <1>2, <2>4, <3>2 DEF ReceiveFirst, ToReceive
  <2>5. CASE ReceiveChunk(e)
    <3>1. PICK left, content : Receiving(e, left, content)
      BY <2>5 DEF ReceiveChunk
    <3>2. pc'[e] \in {"finish", "receiving"} /\ turn' = turn /\ pc[e] = "receiving"
      BY <1>2, <2>5, <3>1 DEF ReceiveChunk, Receiving, Set
    <3>3. QED
      BY <1>4, <3>2
  <2>6. CASE SendNotReady(e)
    <3>1. pc'[e] \in {"idle", "spin"}
      BY <1>2, <2>6 DEF SendNotReady, ToSend, Set
    <3>2. QED
      BY <3>1
  <2>7. CASE SendFails(e) \/ AwaitAck(e) \/ AwaitAckClosed(e) \/ SendFinished(e)
    <3>1. pc'[e] = "idle"
      BY <1>2, <2>7 DEF SendFails, AwaitAck, AwaitAckClosed, SendFinished, Returns, Set
    <3>2. QED
      BY <3>1
  <2>8. CASE SendKills(e) \/ ReceiveTooShort(e) \/ ReceiveClosed(e)
             \/ ReceiveChunkClosed(e) \/ Leave(e)
    <3>1. pc'[e] \in {"crashed", "closed", "left", "loop"}
      BY <1>2, <2>8 DEF SendKills, ReceiveTooShort, ReceiveClosed,
                        ReceiveChunkClosed, Leave, Ends, Set
    <3>2. QED
      BY <3>1
  <2>9. QED
    BY <2>1, <2>2, <2>3, <2>4, <2>5, <2>6, <2>7, <2>8 DEF Step
<1>6. \A d \in End : Right(d)'
  <2> HIDE DEF Right
  <2>1. QED
    BY <1>3, <1>5, Basics
<1>7. QED
  BY <1>6 DEF TurnInv

\* What was cut stays so.
LEMMA CutStays ==
    ASSUME NEW e \in End, Step(e) \/ Leave(e), cut
    PROVE  cut'
BY DEF Step, Leave, SendLength, SendContent, SendFails, SendKills, SendDone,
       AwaitAck, AwaitAckClosed, SendNotReady, ReceiveFirst, ReceiveTooShort,
       ReceiveClosed, ReceiveChunk, ReceiveChunkClosed, SendFinished

\* With nothing to read an end that waits to read does not move.
LEMMA Starved ==
    ASSUME StreamTypeOK, NEW e \in End, wire[e] = <<>>, pc[e] # "finish", Step(e)
    PROVE  \/ SendLength(e) \/ SendContent(e) \/ SendDone(e)
           \/ /\ Gone(Peer(e))
              /\ \/ SendFails(e) \/ SendKills(e) \/ AwaitAckClosed(e)
                 \/ SendNotReady(e) /\ pc'[e] = "spin" /\ wire' = wire
                 \/ ReceiveClosed(e) \/ ReceiveChunkClosed(e)
<1>1. /\ wire \in [End -> Seq(Byte)] /\ AckSize \in Int /\ BufferSize[e] \in Int
      /\ HeaderSize - 1 \in Int
      /\ pc \in [End -> {"idle", "sending", "ack", "spin", "receiving", "finish",
                       "loop", "left", "crashed", "closed"}]
  BY Basics, BufferIs DEF StreamTypeOK
<1>2. \A max \in Int : Chunks(e, max) = {}
  <2>1. ASSUME NEW max \in Int, NEW chunk \in Chunks(e, max) PROVE FALSE
    <3>1. \E n \in 1 .. Len(wire[e]) : Len(chunk) = n
      BY <1>1, ChunkIs
    <3>2. Len(wire[e]) = 0
      BY EmptySeq
    <3>3. QED
      BY <3>1, <3>2
  <2>2. QED
    BY <2>1
<1>3. ~AwaitAck(e) /\ ~ReceiveFirst(e) /\ ~ReceiveTooShort(e) /\ ~ReceiveChunk(e)
  BY <1>1, <1>2 DEF AwaitAck, ReceiveFirst, ReceiveTooShort, ReceiveChunk
<1>4. SendNotReady(e) => Gone(Peer(e)) /\ pc'[e] = "spin" /\ wire' = wire
  BY <1>1, <1>2 DEF SendNotReady, NothingComes, Set
<1>5. QED
  BY <1>3, <1>4 DEF Step, SendFails, SendKills, AwaitAckClosed, ReceiveClosed,
                    ReceiveChunkClosed, NothingComes, SendFinished

\* An end whose peer has gone.
LEMMA AloneStep ==
    ASSUME IInv, StreamTypeOK', NEW e \in End, Gone(Peer(e)), Alone(e), Step(e)
    PROVE  Gone(e)' \/ Alone(e)'
<1> DEFINE p == Peer(e)
           Empty == wire'[e] = <<>> /\ pc'[e] # "finish"
<1>0. /\ StreamTypeOK /\ TurnInv /\ p \in End /\ p # e
      /\ wire \in [End -> Seq(Byte)]
      /\ pc \in [End -> {"idle", "sending", "ack", "spin", "receiving", "finish",
                       "loop", "left", "crashed", "closed"}]
  BY Basics DEF IInv, StreamTypeOK
<1>1. turn'[p] = turn[p]
  BY <1>0, Bystander DEF Alike
<1>2. Empty => Alone(e)'
  BY DEF Alone
<1>3. \A bytes : Put(e, bytes) => wire' = wire
  BY DEF Put
<1>4. CASE wire[e] = <<>> /\ pc[e] # "finish"
  <2>1. CASE SendLength(e) \/ SendContent(e)
    BY <1>0, <1>2, <1>3, <1>4, <2>1 DEF SendLength, SendContent, Set
  <2>2. CASE SendDone(e) \/ SendFails(e) \/ AwaitAckClosed(e)
    BY <1>0, <1>2, <1>4, <2>2 DEF SendDone, SendFails, AwaitAckClosed, Returns, Set
  <2>3. CASE SendNotReady(e) /\ pc'[e] = "spin" /\ wire' = wire
    BY <1>2, <1>4, <2>3
  <2>4. CASE SendKills(e) \/ ReceiveClosed(e) \/ ReceiveChunkClosed(e)
    BY <1>0, <1>2, <1>4, <2>4
    DEF SendKills, ReceiveClosed, ReceiveChunkClosed, Ends, Set, Gone
  <2>5. QED
    BY <1>0, <1>4, <2>1, <2>2, <2>3, <2>4, Starved
<1>5. CASE NotReady(e)
  BY <1>0, <1>5, NotReadyStep DEF Alone
<1>6. ASSUME NEW b \in Nat, Junk(e, b) PROVE Gone(e)' \/ Alone(e)'
  BY <1>0, <1>2, <1>6, JunkStep DEF Alone, Gone
<1>7. ASSUME NEW b \in Nat, Reads(e, b), turn[p] = turn[e],
             Len(received) = turn[e] - 1, ~(wire[e] = <<>> /\ pc[e] # "finish")
      PROVE  Gone(e)' \/ Alone(e)'
  <2>1. ~ToSend(e)
    <3>1. ASSUME ToSend(e) PROVE FALSE
      <4>1. b = AckSize /\ pc[e] = "idle" /\ ~ToReceive(e)
        BY <1>7, <3>1 DEF Reads, ToSend, ToReceive
      <4>2. wire[e] = Stretch(Script(turn[e]), AckSize, AckSize)
        BY <1>7, <4>1 DEF Reads
      <4> DEFINE s == Script(turn[e])
      <4>3. s \in Seq(Byte) /\ AckSize \in Nat /\ AckSize <= Len(s)
        <5>1. turn[e] \in 1 .. NumMessages + 1 /\ AckSize \in Nat
          BY <1>0, Basics DEF StreamTypeOK
        <5>2. /\ Script(turn[e]) \in Seq(Byte) /\ AckSize <= Total(turn[e])
              /\ Len(Script(turn[e])) = Total(turn[e])
          BY <5>1, ScriptIs
        <5>3. QED
          BY <5>1, <5>2
      <4> HIDE DEF s
      <4>4. Stretch(s, AckSize, AckSize) = <<>>
        BY <4>3, StretchEmpty
      <4>5. QED
        BY <1>7, <4>1, <4>2, <4>4 DEF s
    <3>2. QED
      BY <3>1
  <2>2. CASE /\ Reads(e, b)' /\ turn' = turn /\ received' = received
    BY <1>7, <2>2 DEF Alone
  <2>3. CASE pc[e] = "finish" /\ SendFinished(e)
    <3>1. wire[e] = <<>>
      BY <1>7, <2>3 DEF Reads
    <3>2. wire'[e] = <<>> /\ pc'[e] = "idle"
      BY <1>0, <1>3, <2>3, <3>1 DEF SendFinished, Returns, Set
    <3>3. QED
      BY <1>2, <3>2
  <2>4. CASE pc'[e] = "crashed"
    BY <2>4 DEF Gone
  <2>5. CASE Gone(e)' \/ Empty
    BY <1>2, <2>5
  <2>6. QED
    BY <1>0, <1>7, <2>1, <2>2, <2>3, <2>4, <2>5, ReadStep
<1>8. ASSUME NEW b \in Nat, HasAck(e, b), turn[p] = turn[e] + 1,
             Len(received) = turn[e]
      PROVE  Gone(e)' \/ Alone(e)'
  <2>1. CASE HasAck(e, b)' /\ turn' = turn /\ received' = received
    BY <1>8, <2>1 DEF Alone
  <2>2. CASE /\ turn'[e] = turn[e] + 1 /\ received' = received /\ Reads(e, b)'
    <3>1. turn'[p] = turn'[e] /\ Len(received') = turn'[e] - 1
      <4>1. turn[e] \in Int
        <5>1. turn[e] \in 1 .. NumMessages + 1
          BY <1>0 DEF StreamTypeOK
        <5>2. QED
          BY <5>1
      <4>2. QED
        BY <1>1, <1>8, <2>2, <4>1
    <3>2. QED
      BY <2>2, <3>1 DEF Alone
  <2>3. CASE Junk(e, b)' \/ NotReady(e)'
    BY <2>3 DEF Alone
  <2>4. QED
    BY <1>0, <1>8, <2>1, <2>2, <2>3, AckStep
<1>9. QED
  BY <1>4, <1>5, <1>6, <1>7, <1>8 DEF Alone

\* What an end reads up to the place its peer has come to.
LEMMA Primed ==
    ASSUME NEW t, NEW f, NEW c, c = Progress(f)'
    PROVE  /\ Reads(t, c)' <=> Reads(t, Progress(f))'
           /\ HasAck(t, c)' <=> HasAck(t, Progress(f))'
           /\ Junk(t, c)' <=> Junk(t, Progress(f))'
<1>1. Reads(t, c)' <=> Reads(t, Progress(f))'
  BY DEF Reads
<1>2. HasAck(t, c)' <=> HasAck(t, Progress(f))'
  BY DEF HasAck
<1>3. Junk(t, c)' <=> Junk(t, Progress(f))'
  BY DEF Junk
<1>4. QED
  BY <1>1, <1>2, <1>3

\* The end that is ahead, and has read everything, takes a step.
LEMMA AheadStep ==
    ASSUME IInv, NEW f \in End, NEW t \in End, t = Peer(f), Pair(f, t),
           ~Gone(f), ~Gone(t), Step(f)
    PROVE  Pair(f, t)'
<1>0. StreamTypeOK /\ TurnInv /\ t # f /\ ~Gone(Peer(f))
  BY Basics DEF IInv
<1>1. Alike(t)
  BY <1>0, Bystander
<1>2. ~CutSender(f, t)
  <2>1. ASSUME CutSender(f, t) PROVE FALSE
    <3>1. wire[f] = <<>> /\ pc[f] = "idle" /\ ~ToSend(f)
      BY <2>1 DEF CutSender
    <3>2. SendLength(f) \/ SendContent(f) \/ SendDone(f)
      BY <1>0, <3>1, Starved
    <3>3. QED
      BY <3>1, <3>2 DEF SendLength, SendContent, SendDone
  <2>2. QED
    BY <2>1
<1>3. Sends(f)
  BY <1>2 DEF Pair, Even, Behind, CutReceiver
<1> DEFINE i == turn[f]
<1>4. PICK b \in Nat : b = Progress(f)
  BY <1>0, <1>3, SenderStep
<1>5. PICK c \in Nat : c = Progress(f)'
  BY <1>0, <1>3, SenderStep
<1>6. /\ i \in 1 .. NumMessages /\ Dialogue[i].from = f
      /\ b <= c /\ c <= Total(i) /\ Comes(t, i, b, c)
      /\ Sends(f)' /\ turn' = turn /\ received' = received /\ cut' = cut
  BY <1>0, <1>3, <1>4, <1>5, SenderStep
<1>7. Dialogue[i].from # t
  BY <1>0, <1>6
<1> HIDE DEF i
<1>8. /\ i = turn[t] /\ Reads(t, b) => Reads(t, c)'
      /\ i = turn[t] + 1 /\ HasAck(t, b) => HasAck(t, c)'
      /\ i = turn[t] /\ Junk(t, b) => Junk(t, c)'
  BY <1>0, <1>1, <1>6, <1>7, Arrives
<1>9. /\ Reads(t, c)' <=> Reads(t, Progress(f))'
      /\ HasAck(t, c)' <=> HasAck(t, Progress(f))'
      /\ Junk(t, c)' <=> Junk(t, Progress(f))'
  BY <1>5, Primed
<1>10. CASE Even(f, t)
  <2>1. Reads(t, Progress(f))'
    BY <1>4, <1>8, <1>9, <1>10 DEF Even, i
  <2>2. ~ToSend(t)' /\ send_ready'[t]
    BY <1>1, <1>10 DEF Even, ToSend, Alike
  <2>3. Even(f, t)'
    BY <1>6, <1>10, <2>1, <2>2 DEF Even
  <2>4. QED
    BY <2>3 DEF Pair
<1>11. CASE Behind(f, t)
  <2>1. HasAck(t, Progress(f))'
    BY <1>4, <1>8, <1>9, <1>11 DEF Behind, i
  <2>2. Behind(f, t)'
    BY <1>6, <1>11, <2>1 DEF Behind
  <2>3. QED
    BY <2>2 DEF Pair
<1>12. CASE CutReceiver(f, t)
  <2>1. Junk(t, Progress(f))'
    BY <1>4, <1>8, <1>9, <1>12 DEF CutReceiver, i
  <2>2. CutReceiver(f, t)'
    BY <1>6, <1>12, <2>1 DEF CutReceiver
  <2>3. QED
    BY <2>2 DEF Pair
<1>13. QED
  BY <1>2, <1>10, <1>11, <1>12 DEF Pair

\* The other end does.
LEMMA BehindStep ==
    ASSUME IInv, StreamTypeOK', NEW f \in End, NEW t \in End, f = Peer(t),
           Pair(f, t), ~Gone(f), ~Gone(t), Step(t)
    PROVE  \/ Pair(f, t)' \/ Pair(t, f)'
           \/ pc'[t] = "crashed" /\ cut' /\ Alone(f)'
<1>0. /\ StreamTypeOK /\ TurnInv /\ t # f /\ ~Gone(Peer(t)) /\ Peer(f) = t
      /\ NumMessages \in Nat /\ AckSize \in Nat \ {0}
      /\ turn \in [End -> 1 .. NumMessages + 1] /\ cut \in BOOLEAN
      /\ turn[t] \in 1 .. NumMessages + 1 /\ turn[f] \in 1 .. NumMessages + 1
      /\ pc \in [End -> {"idle", "sending", "ack", "spin", "receiving", "finish",
                       "loop", "left", "crashed", "closed"}]
      /\ wire \in [End -> Seq(Byte)]
  BY Basics DEF IInv, StreamTypeOK
<1>1. Alike(f)
  BY <1>0, Bystander
<1>2. wire[f] = <<>> /\ pc[f] # "finish"
  BY DEF Pair, Even, Behind, CutReceiver, CutSender, Sends
<1>3. ASSUME wire'[f] = wire[f]
      PROVE  /\ Progress(f)' = Progress(f) /\ (Sends(f)' <=> Sends(f))
             /\ (ToSend(f)' <=> ToSend(f)) /\ turn'[f] = turn[f]
             /\ pc'[f] = pc[f] /\ wire'[f] = <<>> /\ send_ready'[f] = send_ready[f]
             /\ Alone(f)'
  <2>1. wire'[f] = <<>> /\ pc'[f] # "finish"
    BY <1>1, <1>2, <1>3 DEF Alike
  <2>2. Alone(f)'
    BY <2>1 DEF Alone
  <2>3. QED
    BY <1>1, <1>3, <2>1, <2>2, Same DEF Alike
<1>4. CASE Even(f, t)
  <2>1. PICK b \in Nat : b = Progress(f)
    <3>1. Progress(f) \in AckSize .. Total(turn[t]) /\ Total(turn[t]) \in Nat
      BY <1>0, <1>4, ScriptIs DEF Even, Reads
    <3>2. QED
      BY <1>0, <3>1
  <2>2. /\ ~cut /\ turn[f] = turn[t] /\ ~ToSend(t) /\ Sends(f) /\ send_ready[t]
        /\ Reads(t, b) /\ Len(received) = turn[t] - 1
    BY <1>4, <2>1 DEF Even
  <2>3. CASE /\ Reads(t, b)' /\ pc'[t] \in {"receiving", "finish"}
             /\ turn' = turn /\ send_ready' = send_ready
             /\ received' = received /\ cut' = cut
             /\ wire'[Peer(t)] = wire[Peer(t)]
    <3>1. Progress(f)' = b /\ Sends(f)'
      BY <1>3, <2>1, <2>2, <2>3
    <3>2. Reads(t, Progress(f))'
      BY <2>3, <3>1, Primed
    <3>3. ~ToSend(t)'
      BY <2>3 DEF ToSend
    <3>4. Even(f, t)'
      BY <2>2, <2>3, <3>1, <3>2, <3>3 DEF Even
    <3>5. QED
      BY <3>4 DEF Pair
  <2>4. CASE pc[t] = "finish" /\ SendFinished(t)
    <3> DEFINE i == turn[t] + 1
    <3>1. turn[t] \in 1 .. NumMessages /\ Dialogue[turn[t]].from # t
      BY <1>0, <2>4 DEF TurnInv
    <3>2. /\ turn'[t] = i /\ turn'[f] = turn[t] /\ pc'[t] = "idle" /\ cut' = cut
          /\ send_ready'[t] /\ i \in 1 .. NumMessages + 1
          /\ received' = Append(received, message[t]) /\ received \in Seq(Seq(Byte))
          /\ Put(t, Finished)
      BY <1>0, <1>1, <2>2, <2>4, <3>1
      DEF SendFinished, Returns, Set, Alike, StreamTypeOK
    <3>3. Finished \in Seq(Byte)
      BY <1>0, BytesIs DEF Finished
    <3>4. wire[t] = <<>> /\ b = Total(turn[t])
      BY <2>2, <2>4 DEF Reads
    <3>5. wire'[t] = <<>> /\ wire'[f] = wire[f] \o Finished
      BY <1>0, <3>2, <3>3, <3>4, PutIs
    <3>6. wire'[f] = Finished
      BY <1>2, <3>3, <3>5, ConcatEmptySeq
    <3>7. Sends(t)'
      BY <3>2, <3>5 DEF Sends
    <3>8. Progress(t)' = AckSize
      BY <3>2 DEF Progress
    <3>9. AckSize \in AckSize .. Total(i)
      <4>1. AckSize <= Total(i) /\ Total(i) \in Nat
        BY <3>2, ScriptIs
      <4>2. QED
        BY <1>0, <4>1
    <3>10. pc[f] = "ack" \/ (pc[f] = "sending" /\ size[f] = 0)
      <4>1. Total(turn[t]) # AckSize
        <5>1. /\ Total(turn[t]) = AckSize + HeaderSize + Dialogue[turn[t]].length
              /\ Dialogue[turn[t]].length \in Nat /\ HeaderSize \in Nat \ {0}
          <6>1. Total(turn[t]) = AckSize + HeaderSize + Dialogue[turn[t]].length
            BY <1>0, <3>1, ScriptIs
          <6>2. Dialogue[turn[t]].length \in Nat
            BY <3>1, MessageIs
          <6>3. QED
            BY <6>1, <6>2, Basics
        <5>2. QED
          BY <1>0, <5>1
      <4>2. CASE pc[f] = "sending"
        <5>1. Total(turn[t]) - size[f] = Total(turn[t])
          BY <2>1, <2>2, <3>4, <4>2 DEF Progress
        <5>2. Total(turn[t]) \in Nat /\ size[f] \in Int
          <6>1. size[f] \in 0 .. Modulus - 1 /\ Modulus \in Nat
            BY <1>0, Basics DEF StreamTypeOK
          <6>2. Total(turn[t]) \in Nat
            BY <1>0, ScriptIs
          <6>3. QED
            BY <6>1, <6>2
        <5> DEFINE T == Total(turn[t])
        <5> HIDE DEF T
        <5>3. T - size[f] = T /\ T \in Nat /\ size[f] \in Int
          BY <5>1, <5>2 DEF T
        <5>4. size[f] = 0
          BY <5>3
        <5>5. QED
          BY <4>2, <5>4
      <4>3. CASE pc[f] = "idle"
        BY <2>1, <3>4, <4>1, <4>3 DEF Progress
      <4>4. QED
        BY <2>2, <4>2, <4>3 DEF Sends
    <3>11. HasAck(f, AckSize)'
      <4>1. pc'[f] = "ack" \/ (pc'[f] = "sending" /\ size'[f] = 0)
        BY <1>1, <3>10 DEF Alike
      <4>2. wire'[f] = Stretch(Script(i), 0, AckSize)
        BY <3>2, <3>6, Spans
      <4>3. QED
        BY <3>2, <3>9, <4>1, <4>2 DEF HasAck
    <3>12. HasAck(f, Progress(t))'
      BY <3>8, <3>11, Primed
    <3>13. Len(received') = turn[t]
      <4>1. Len(received') = Len(received) + 1
        BY <3>2, AppendProperties
      <4>2. QED
        BY <1>0, <2>2, <4>1
    <3>14. Behind(t, f)'
      BY <2>2, <3>2, <3>7, <3>12, <3>13 DEF Behind
    <3>15. QED
      BY <3>14 DEF Pair
  <2>5. CASE pc'[t] = "crashed" /\ cut' /\ wire'[Peer(t)] = wire[Peer(t)]
    BY <1>3, <2>5
  <2>6. QED
    BY <1>0, <2>2, <2>3, <2>4, <2>5, ReadStep
<1>5. CASE Behind(f, t)
  <2> DEFINE i == turn[t] + 1
  <2>1. PICK b \in Nat : b = Progress(f)
    <3>1. Progress(f) \in AckSize .. Total(turn[f]) /\ Total(turn[f]) \in Nat
      BY <1>0, <1>5, ScriptIs DEF Behind, HasAck
    <3>2. QED
      BY <1>0, <3>1
  <2>2. /\ ~cut /\ turn[f] = i /\ Sends(f) /\ HasAck(t, b)
        /\ Len(received) = turn[t]
    BY <1>5, <2>1 DEF Behind
  <2>3. CASE /\ HasAck(t, b)' /\ turn' = turn /\ cut' = cut /\ received' = received
             /\ wire'[Peer(t)] = wire[Peer(t)]
    <3>1. Progress(f)' = b /\ Sends(f)'
      BY <1>3, <2>1, <2>2, <2>3
    <3>2. HasAck(t, Progress(f))'
      BY <2>3, <3>1, Primed
    <3>3. Behind(f, t)'
      BY <2>2, <2>3, <3>1, <3>2 DEF Behind
    <3>4. QED
      BY <3>3 DEF Pair
  <2>4. ASSUME turn'[t] = turn[t] + 1, turn[t] <= NumMessages, pc'[t] = "idle",
               wire'[Peer(t)] = wire[Peer(t)], received' = received
        PROVE  /\ Progress(f)' = b /\ Sends(f)' /\ (ToSend(f)' <=> ToSend(f))
               /\ turn'[f] = turn'[t] /\ Len(received') = turn'[t] - 1
               /\ pc'[f] = pc[f] /\ wire'[f] = <<>> /\ send_ready'[f] = send_ready[f]
               /\ turn[f] = turn'[t]
    <3>1. /\ Progress(f)' = b /\ Sends(f)' /\ (ToSend(f)' <=> ToSend(f))
          /\ turn'[f] = turn'[t] /\ pc'[f] = pc[f] /\ wire'[f] = <<>>
          /\ send_ready'[f] = send_ready[f] /\ turn[f] = turn'[t]
      BY <1>3, <2>1, <2>2, <2>4
    <3>2. Len(received') = turn'[t] - 1
      BY <1>0, <2>2, <2>4
    <3>3. QED
      BY <3>1, <3>2
  <2>5. CASE /\ turn'[t] = turn[t] + 1 /\ turn[t] <= NumMessages
             /\ pc'[t] = "idle" /\ wire'[Peer(t)] = wire[Peer(t)]
             /\ received' = received
             /\ cut' = cut /\ send_ready'[t] /\ Reads(t, b)'
    <3>1. /\ Progress(f)' = b /\ Sends(f)' /\ turn'[f] = turn'[t]
          /\ Len(received') = turn'[t] - 1 /\ wire'[f] = <<>>
          /\ pc'[f] = pc[f] /\ send_ready'[f] = send_ready[f] /\ turn[f] = turn'[t]
      BY <2>4, <2>5
    <3>2. CASE ~ToSend(t)'
      <4>1. Reads(t, Progress(f))'
        BY <2>5, <3>1, Primed
      <4>2. Even(f, t)'
        BY <2>2, <2>5, <3>1, <3>2, <4>1 DEF Even
      <4>3. QED
        BY <4>2 DEF Pair
    <3>3. CASE ToSend(t)'
      <4>1. turn'[t] <= NumMessages /\ Dialogue[turn'[t]].from = t
        BY <3>3 DEF ToSend
      <4>2. pc[f] = "idle" /\ send_ready[f] /\ ~ToSend(f)'
        BY <1>0, <2>2, <3>1, <4>1 DEF Sends, TurnInv, ToSend
      <4>3. b = AckSize /\ wire'[t] = Stretch(Script(turn'[t]), AckSize, b)
        BY <2>5, <3>3 DEF Reads, ToSend, ToReceive
      <4> DEFINE s == Script(turn'[t])
      <4>4. s \in Seq(Byte) /\ AckSize \in Nat /\ AckSize <= Len(s)
            /\ AckSize \in AckSize .. Total(turn'[t])
        <5>1. turn'[t] \in 1 .. NumMessages + 1 /\ AckSize \in Nat
          BY <1>0, <3>1
        <5>2. /\ Script(turn'[t]) \in Seq(Byte) /\ AckSize <= Total(turn'[t])
              /\ Len(Script(turn'[t])) = Total(turn'[t]) /\ Total(turn'[t]) \in Nat
          BY <5>1, ScriptIs
        <5>3. QED
          BY <5>1, <5>2
      <4> HIDE DEF s
      <4>5. Stretch(s, AckSize, AckSize) = <<>>
        BY <4>4, StretchEmpty
      <4>6. wire'[t] = <<>> /\ wire'[f] = Stretch(Script(turn'[f]), AckSize, AckSize)
        BY <3>1, <4>3, <4>5 DEF s
      <4>7. Progress(t)' = AckSize
        BY <2>5 DEF Progress
      <4>8. Reads(f, AckSize)'
        BY <3>1, <4>2, <4>4, <4>6 DEF Reads
      <4>9. Reads(f, Progress(t))'
        BY <4>7, <4>8, Primed
      <4>10. Sends(t)'
        BY <2>5, <4>6 DEF Sends
      <4>11. Even(t, f)'
        BY <2>2, <2>5, <3>1, <4>2, <4>9, <4>10 DEF Even
      <4>12. QED
        BY <4>11 DEF Pair
    <3>4. QED
      BY <3>2, <3>3
  <2>6. CASE /\ turn'[t] = turn[t] + 1 /\ turn[t] <= NumMessages
             /\ pc'[t] = "idle" /\ wire'[Peer(t)] = wire[Peer(t)]
             /\ received' = received /\ cut' /\ ToReceive(t)' /\ Junk(t, b)'
    <3>1. Progress(f)' = b /\ Sends(f)' /\ turn'[f] = turn'[t]
      BY <2>4, <2>6
    <3>2. Junk(t, Progress(f))'
      BY <2>6, <3>1, Primed
    <3>3. CutReceiver(f, t)'
      BY <2>6, <3>1, <3>2 DEF CutReceiver
    <3>4. QED
      BY <3>3 DEF Pair
  <2>7. CASE /\ turn'[t] = turn[t] + 1 /\ turn[t] <= NumMessages
             /\ pc'[t] = "idle" /\ wire'[Peer(t)] = wire[Peer(t)]
             /\ received' = received /\ cut' /\ ~ToReceive(t)' /\ NotReady(t)'
    <3>1. /\ turn'[f] = turn'[t] /\ wire'[f] = <<>> /\ pc'[f] = pc[f]
          /\ turn[f] = turn'[t]
      BY <2>4, <2>7
    <3>2. turn'[t] <= NumMessages => Dialogue[turn'[t]].from = t
      BY <2>7 DEF ToReceive
    <3>3. pc[f] = "idle" /\ ~ToSend(f)'
      BY <1>0, <2>2, <3>1, <3>2 DEF Sends, TurnInv, ToSend
    <3>4. CutSender(f, t)'
      BY <2>7, <3>1, <3>3 DEF CutSender
    <3>5. QED
      BY <3>4 DEF Pair
  <2>8. QED
    BY <1>0, <2>2, <2>3, <2>5, <2>6, <2>7, AckStep
<1>6. CASE CutReceiver(f, t)
  <2>1. PICK b \in Nat : b = Progress(f)
    <3>1. Progress(f) \in AckSize .. Total(turn[t]) /\ Total(turn[t]) \in Nat
      BY <1>0, <1>6, ScriptIs DEF CutReceiver, Junk
    <3>2. QED
      BY <1>0, <3>1
  <2>2. cut /\ turn[f] = turn[t] /\ Sends(f) /\ Junk(t, b)
    BY <1>6, <2>1 DEF CutReceiver
  <2>3. CASE cut' /\ Junk(t, b)' /\ turn' = turn /\ wire'[Peer(t)] = wire[Peer(t)]
    <3>1. Progress(f)' = b /\ Sends(f)'
      BY <1>3, <2>1, <2>2, <2>3
    <3>2. Junk(t, Progress(f))'
      BY <2>3, <3>1, Primed
    <3>3. CutReceiver(f, t)'
      BY <2>2, <2>3, <3>1, <3>2 DEF CutReceiver
    <3>4. QED
      BY <3>3 DEF Pair
  <2>4. CASE cut' /\ pc'[t] = "crashed" /\ wire'[Peer(t)] = wire[Peer(t)]
    BY <1>3, <2>4
  <2>5. QED
    BY <1>0, <2>2, <2>3, <2>4, JunkStep
<1>7. CASE CutSender(f, t)
  <2>1. cut /\ turn[f] = turn[t] /\ pc[f] = "idle" /\ ~ToSend(f) /\ NotReady(t)
    BY <1>7 DEF CutSender
  <2>2. cut' /\ NotReady(t)' /\ turn' = turn /\ wire'[f] = wire[f]
    BY <1>0, <2>1, NotReadyStep
  <2>3. pc'[f] = "idle" /\ ~ToSend(f)' /\ wire'[f] = <<>>
    BY <1>3, <2>1, <2>2
  <2>4. CutSender(f, t)'
    BY <2>1, <2>2, <2>3 DEF CutSender
  <2>5. QED
    BY <2>4 DEF Pair
<1>8. QED
  BY <1>4, <1>5, <1>6, <1>7 DEF Pair

\* Ends that are a pair are both there.
LEMMA PairThere ==
    ASSUME NEW f, NEW t, Pair(f, t)'
    PROVE  ~Gone(f)' /\ ~Gone(t)'
<1>1. pc'[f] \in {"idle", "sending", "ack"}
  BY DEF Pair, Even, Behind, CutReceiver, CutSender, Sends
<1>2. pc'[t] \in {"idle", "sending", "ack", "receiving", "finish", "spin"}
  <2>1. CASE Even(f, t)'
    BY <2>1 DEF Even, Reads
  <2>2. CASE Behind(f, t)'
    BY <2>2 DEF Behind, HasAck
  <2>3. CASE CutReceiver(f, t)'
    BY <2>3 DEF CutReceiver, Junk
  <2>4. CASE CutSender(f, t)'
    BY <2>4 DEF CutSender, NotReady
  <2>5. QED
    BY <2>1, <2>2, <2>3, <2>4 DEF Pair
<1>3. QED
  BY <1>1, <1>2 DEF Gone

\* One of two ends that are there takes a step.
LEMMA LiveStep ==
    ASSUME IInv, StreamTypeOK', NEW e \in End, ~Gone(e), ~Gone(Peer(e)), Step(e)
    PROVE  \/ \E f \in End : Pair(f, Peer(f))'
           \/ pc'[e] = "crashed" /\ cut' /\ Alone(Peer(e))'
<1>1. PICK f \in End : Pair(f, Peer(f))
  <2>1. \A d \in End : ~Gone(d)
    BY Basics
  <2>2. QED
    BY <2>1 DEF IInv, EndsInv
<1> DEFINE t == Peer(f)
<1>2. t \in End /\ Peer(t) = f /\ ~Gone(f) /\ ~Gone(t)
  BY Basics
<1>3. CASE e = f
  <2>1. Pair(f, t)'
    BY <1>1, <1>2, <1>3, AheadStep
  <2>2. QED
    BY <2>1
<1>4. CASE e = t
  <2>1. \/ Pair(f, t)' \/ Pair(t, f)'
        \/ pc'[t] = "crashed" /\ cut' /\ Alone(f)'
    <3> HIDE DEF t
    <3>1. Pair(f, t)
      BY <1>1 DEF t
    <3>2. QED
      BY <1>2, <1>4, <3>1, BehindStep
  <2>2. CASE Pair(f, t)'
    BY <2>2
  <2>3. CASE Pair(t, f)'
    <3>1. Pair(t, Peer(t))'
      <4>1. Peer(t)' = f
        BY <1>2 DEF Peer
      <4>2. QED
        BY <1>2, <2>3
    <3>2. QED
      BY <1>2, <3>1
  <2>4. QED
    BY <1>2, <1>4, <2>1, <2>2, <2>3
<1>5. QED
  BY <1>2, <1>3, <1>4, Basics

\* An end that stops leaves the other with what has arrived, or without.
LEMMA LeaveStep ==
    ASSUME IInv, NEW e \in End, Leave(e), ~Gone(Peer(e))
    PROVE  Alone(Peer(e))'
<1> DEFINE d == Peer(e)
<1>0. /\ StreamTypeOK /\ d \in End /\ d # e /\ Peer(d) = e /\ ~Gone(d) /\ ~Gone(e)
      /\ wire \in [End -> Seq(Byte)]
  BY Basics DEF IInv, StreamTypeOK, Leave
<1>1. Alike(d)
  BY <1>0, Bystander
<1>2. wire'[d] = wire[d] \/ wire'[d] = <<>>
  BY <1>0 DEF Leave, Set
<1>3. turn' = turn /\ received' = received
  BY DEF Leave
<1>4. PICK f \in End : Pair(f, Peer(f))
  <2>1. \A x \in End : ~Gone(x)
    BY <1>0, Basics
  <2>2. QED
    BY <2>1 DEF IInv, EndsInv
<1>5. CASE wire'[d] = <<>> /\ pc[d] # "finish"
  BY <1>1, <1>5 DEF Alone, Alike
<1>6. CASE f = d
  <2>1. wire[d] = <<>> /\ pc[d] # "finish"
    BY <1>4, <1>6 DEF Pair, Even, Behind, CutReceiver, CutSender, Sends
  <2>2. QED
    BY <1>2, <1>5, <2>1
<1>7. CASE f = e
  <2>1. Pair(e, d)
    BY <1>4, <1>7
  <2>2. CASE wire'[d] = wire[d]
    <3>1. ASSUME NEW b PROVE /\ Reads(d, b) => Reads(d, b)'
                             /\ HasAck(d, b) => HasAck(d, b)'
                             /\ Junk(d, b) => Junk(d, b)'
                             /\ NotReady(d) => NotReady(d)'
      BY <1>0, <1>1, <2>2, Same
    <3>2. CASE Even(e, d)
      <4>1. PICK b \in Nat : Reads(d, b)
        <5>1. /\ Reads(d, Progress(e)) /\ Progress(e) \in AckSize .. Total(turn[d])
              /\ AckSize \in Nat
          BY <3>2, Basics DEF Even, Reads
        <5>2. Total(turn[d]) \in Nat
          BY <1>0, ScriptIs DEF StreamTypeOK
        <5>3. Progress(e) \in Nat
          BY <5>1, <5>2
        <5>4. QED
          BY <5>1, <5>3
      <4>2. Reads(d, b)'
        BY <3>1, <4>1
      <4>3. turn'[e] = turn'[d] /\ Len(received') = turn'[d] - 1
        BY <1>3, <3>2 DEF Even
      <4>4. QED
        BY <1>0, <4>2, <4>3 DEF Alone
    <3>3. CASE Behind(e, d)
      <4>1. PICK b \in Nat : HasAck(d, b)
        <5>1. /\ HasAck(d, Progress(e)) /\ Progress(e) \in AckSize .. Total(turn[e])
              /\ AckSize \in Nat
          BY <3>3, Basics DEF Behind, HasAck
        <5>2. Total(turn[e]) \in Nat
          BY <1>0, ScriptIs DEF StreamTypeOK
        <5>3. Progress(e) \in Nat
          BY <5>1, <5>2
        <5>4. QED
          BY <5>1, <5>3
      <4>2. HasAck(d, b)'
        BY <3>1, <4>1
      <4>3. turn'[e] = turn'[d] + 1 /\ Len(received') = turn'[d]
        BY <1>3, <3>3 DEF Behind
      <4>4. QED
        BY <1>0, <4>2, <4>3 DEF Alone
    <3>4. CASE CutReceiver(e, d)
      <4>1. PICK b \in Nat : Junk(d, b)
        <5>1. /\ Junk(d, Progress(e)) /\ Progress(e) \in AckSize .. Total(turn[d])
              /\ AckSize \in Nat
          BY <3>4, Basics DEF CutReceiver, Junk
        <5>2. Total(turn[d]) \in Nat
          BY <1>0, ScriptIs DEF StreamTypeOK
        <5>3. Progress(e) \in Nat
          BY <5>1, <5>2
        <5>4. QED
          BY <5>1, <5>3
      <4>2. Junk(d, b)'
        BY <3>1, <4>1
      <4>3. QED
        BY <4>2 DEF Alone
    <3>5. CASE CutSender(e, d)
      BY <3>1, <3>5 DEF CutSender, Alone
    <3>6. QED
      BY <2>1, <3>2, <3>3, <3>4, <3>5 DEF Pair
  <2>3. CASE wire'[d] = <<>> /\ pc[d] = "finish"
    <3>1. wire[d] = <<>>
      BY <1>0, <2>3, Finishing
    <3>2. QED
      BY <2>2, <2>3, <3>1
  <2>4. QED
    BY <1>2, <1>5, <2>2, <2>3
<1>8. QED
  BY <1>4, <1>6, <1>7, <1>0, Basics

\* Every step keeps the two ends a pair, or one of them on its own.
LEMMA EndsStep ==
    ASSUME IInv, StreamTypeOK', NEW e \in End, Step(e) \/ Leave(e)
    PROVE  /\ EndsInv'
           /\ TroubleInv'
<1> DEFINE d == Peer(e)
           Stopped == cut \/ \E x \in End : pc[x] = "left"
<1>0. /\ StreamTypeOK /\ d \in End /\ d # e /\ Peer(d) = e
      /\ \A x \in End : x = e \/ x = d
      /\ pc \in [End -> {"idle", "sending", "ack", "spin", "receiving", "finish",
                       "loop", "left", "crashed", "closed"}]
  BY Basics DEF IInv, StreamTypeOK
<1>1. Alike(d) /\ pc'[d] = pc[d]
  BY <1>0, Bystander DEF Alike
<1>2. (Gone(d)' <=> Gone(d)) /\ ~Gone(e)
  BY <1>1, WhoSteps DEF Gone, Leave
<1>3. /\ \A x \in End : Peer(x)' = Peer(x)
      /\ (Gone(Peer(e))' <=> Gone(d)') /\ (Gone(Peer(d))' <=> Gone(e)')
  BY <1>0 DEF Peer, Gone
<1>4. Gone(d) => Stopped'
  <2>1. ASSUME Gone(d) PROVE Stopped'
    <3>1. Stopped
      BY <1>0, <2>1 DEF IInv, TroubleInv
    <3>2. CASE cut
      BY <3>2, CutStays
    <3>3. CASE \E x \in End : pc[x] = "left"
      BY <1>0, <1>1, <1>2, <3>3 DEF Gone
    <3>4. QED
      BY <3>1, <3>2, <3>3
  <2>2. QED
    BY <2>1
<1>5. ASSUME Gone(e)' => Stopped'
      PROVE  TroubleInv'
  <2>1. \A x \in End : Gone(x)' => Stopped'
    <3> HIDE DEF Stopped
    <3>1. QED
      BY <1>0, <1>2, <1>4, <1>5
  <2>2. QED
    BY <2>1 DEF TroubleInv
<1>6. ASSUME Gone(d)', ~Gone(e)' => Alone(e)'
      PROVE  EndsInv'
  BY <1>0, <1>3, <1>6 DEF EndsInv
<1>7. ASSUME Gone(e)', ~Gone(d)' => Alone(d)'
      PROVE  EndsInv'
  BY <1>0, <1>3, <1>7 DEF EndsInv
<1>8. ASSUME NEW f \in End, Pair(f, Peer(f))'
      PROVE  EndsInv' /\ ~Gone(e)' /\ ~Gone(d)'
  <2>1. ~Gone(f)' /\ ~Gone(Peer(f))'
    BY <1>8, PairThere
  <2>2. ~Gone(e)' /\ ~Gone(d)'
    BY <1>0, <1>3, <2>1
  <2>3. \A x \in End : ~Gone(x)'
    BY <1>0, <2>2
  <2>4. (\E x \in End : Pair(x, Peer(x)))'
    BY <1>8
  <2>5. ASSUME NEW x \in End PROVE ~Gone(Peer(x))'
    <3>1. Peer(x) = e \/ Peer(x) = d
      BY <1>0
    <3>2. QED
      BY <2>2, <3>1 DEF Gone
  <2>6. EndsInv'
    BY <2>4, <2>5 DEF EndsInv
  <2>7. QED
    BY <2>2, <2>6
<1>9. CASE Leave(e)
  <2>1. pc'[e] = "left" /\ Gone(e)'
    BY <1>0, <1>9 DEF Leave, Set, Gone
  <2>2. TroubleInv'
    BY <1>5, <2>1
  <2>3. EndsInv'
    BY <1>2, <1>7, <1>9, <2>1, LeaveStep
  <2>4. QED
    BY <2>2, <2>3
<1>10. CASE Step(e) /\ Gone(d)
  <2>1. Alone(e)
    BY <1>2, <1>10 DEF IInv, EndsInv
  <2>2. Gone(e)' \/ Alone(e)'
    BY <1>10, <2>1, AloneStep
  <2>3. QED
    BY <1>2, <1>4, <1>5, <1>6, <1>10, <2>2
<1>11. CASE Step(e) /\ ~Gone(d)
  <2>1. CASE \E f \in End : Pair(f, Peer(f))'
    BY <1>5, <1>8, <2>1
  <2>2. CASE pc'[e] = "crashed" /\ cut' /\ Alone(d)'
    <3>1. Gone(e)' /\ Stopped'
      BY <2>2 DEF Gone
    <3>2. QED
      BY <1>5, <1>7, <2>2, <3>1
  <2>3. QED
    BY <1>2, <1>11, <2>1, <2>2, LiveStep
<1>12. QED
  BY <1>9, <1>10, <1>11

\* At every moment the two ends stand to each other, and to the bytes between
\* them, as the invariant says: whatever recv returns, whatever part send takes,
\* and wherever one_time_send or one_time_receive of either end is stopped.
THEOREM Invariance == Spec => []IInv
<1>1. Init => IInv
  <2> SUFFICES ASSUME Init PROVE IInv
    OBVIOUS
  <2>1. /\ NumMessages \in Nat /\ Modulus \in Nat /\ 0 \in 0 .. Modulus - 1
        /\ AckSize \in Nat \ {0} /\ Client \in End
        /\ \A e \in End : Peer(e) \in End
    BY Basics
  <2>2. 1 \in 1 .. NumMessages + 1 /\ 0 \in 0 .. Modulus - 1
    BY <2>1
  <2>3. <<>> \in Seq(Byte) /\ <<>> \in Seq(Seq(Byte)) /\ Len(<<>>) = 0
    BY EmptySeq
  <2>4. StreamTypeOK
    <3>1. /\ wire \in [End -> Seq(Byte)] /\ message \in [End -> Seq(Byte)]
          /\ turn \in [End -> 1 .. NumMessages + 1]
          /\ size \in [End -> 0 .. Modulus - 1]
      BY <2>2, <2>3 DEF Init
    <3>2. /\ send_ready \in [End -> BOOLEAN] /\ cut \in BOOLEAN
          /\ pc \in [End -> {"idle", "sending", "ack", "spin", "receiving", "finish",
                       "loop", "left", "crashed", "closed"}]
      BY DEF Init
    <3>3. received \in Seq(Seq(Byte)) /\ Len(received) <= NumMessages
      BY <2>1, <2>3 DEF Init
    <3>4. QED
      BY <3>1, <3>2, <3>3 DEF StreamTypeOK
  <2>5. TurnInv
    BY DEF Init, TurnInv
  <2>6. \A e \in End : ~Gone(e)
    BY DEF Init, Gone
  <2>7. \E f \in End : Pair(f, Peer(f))
    <3>1. PICK f \in End : ~ToSend(Peer(f))
      <4>1. ASSUME ToSend(Client), ToSend(Server) PROVE FALSE
        BY <2>1, <4>1, Basics DEF Init, ToSend, End
      <4>2. Peer(Client) = Server /\ Peer(Server) = Client /\ Server \in End
        BY Basics DEF Peer, End
      <4>3. QED
        BY <2>1, <4>1, <4>2
    <3> DEFINE t == Peer(f)
               s == Script(1)
    <3>2. t \in End /\ ~ToSend(t)
      BY <2>1, <3>1
    <3>3. /\ turn[f] = 1 /\ turn[t] = 1 /\ pc[f] = "idle" /\ pc[t] = "idle"
          /\ send_ready[f] /\ send_ready[t] /\ wire[f] = <<>> /\ wire[t] = <<>>
          /\ received = <<>> /\ ~cut
      BY <3>2 DEF Init
    <3>4. /\ s \in Seq(Byte) /\ AckSize \in Nat /\ AckSize <= Len(s)
          /\ AckSize \in AckSize .. Total(1)
      BY <2>1, <2>2, ScriptIs
    <3>5. Stretch(s, AckSize, AckSize) = <<>>
      <4> HIDE DEF s
      <4>1. QED
        BY <3>4, StretchEmpty
    <3>6. Progress(f) = AckSize
      BY <3>3 DEF Progress
    <3>7. Reads(t, AckSize)
      BY <3>3, <3>4, <3>5 DEF Reads
    <3>8. Sends(f)
      BY <3>3 DEF Sends
    <3>9. Even(f, t)
      BY <2>3, <3>2, <3>3, <3>6, <3>7, <3>8 DEF Even
    <3>10. QED
      BY <3>9 DEF Pair
  <2>8. EndsInv /\ TroubleInv
    BY <2>1, <2>6, <2>7 DEF EndsInv, TroubleInv
  <2>9. QED
    BY <2>4, <2>5, <2>8 DEF IInv
<1>2. IInv /\ [Next]_vars => IInv'
  <2> SUFFICES ASSUME IInv, [Next]_vars PROVE IInv'
    OBVIOUS
  <2>1. StreamTypeOK'
    BY TypeStep
  <2>2. CASE UNCHANGED vars
    <3> USE <2>2 DEF vars
    <3>1. TurnInv' /\ TroubleInv'
      BY DEF IInv, TurnInv, TroubleInv, Gone
    <3>2. \A e \in End : Alike(e) /\ wire'[e] = wire[e]
      BY DEF Alike
    <3>3. EndsInv'
      BY DEF IInv, EndsInv, Gone, Pair, Even, Behind, CutReceiver, CutSender,
             Alone, Reads, HasAck, Junk, NotReady, Sends, ToSend, ToReceive,
             Progress
    <3>4. QED
      BY <2>1, <3>1, <3>3 DEF IInv
  <2>3. ASSUME NEW e \in End, Step(e) \/ Leave(e) PROVE IInv'
    <3>1. TurnInv'
      BY <2>3, TurnStep
    <3>2. EndsInv' /\ TroubleInv'
      BY <2>1, <2>3, EndsStep
    <3>3. QED
      BY <2>1, <3>1, <3>2 DEF IInv
  <2>4. QED
    BY <2>2, <2>3 DEF Next
<1>3. QED
  BY <1>1, <1>2, PTL DEF Spec

\* Types of both ends and of the bytes between them: in particular turn, size and
\* the count of messages one_time_receive has returned stay in their bounds,
\* although size is what came off the wire.
THEOREM TypeCorrect == Spec => []StreamTypeOK
<1>1. IInv => StreamTypeOK
  BY DEF IInv
<1>2. QED
  BY <1>1, Invariance, PTL

-----------------------------------------------------------------------------
(***************************************************************************)
(* The refinement of Channel.                                               *)
(***************************************************************************)

Returned == {i \in 1 .. NumMessages : turn[Dialogue[i].from] > i}
Trouble == cut \/ \E e \in End : pc[e] = "left"
AllMessages == [i \in 1 .. NumMessages |-> Content(i)]

\* The messages of the dialogue.
LEMMA MessagesAre ==
    /\ Len(AllMessages) = NumMessages
    /\ \A i \in 1 .. NumMessages : AllMessages[i] = Content(i)
<1>1. NumMessages \in Nat
  BY Basics
<1>2. \A i \in 1 .. NumMessages : Content(i) \in Seq(Byte)
  BY MessageIs, BytesIs DEF Content
<1>3. AllMessages \in [1 .. NumMessages -> Seq(Byte)]
  BY <1>2 DEF AllMessages
<1>4. \A i \in 1 .. NumMessages : AllMessages[i] = Content(i)
  BY DEF AllMessages
<1> HIDE DEF AllMessages
<1>5. Len(AllMessages) = NumMessages
  BY <1>1, <1>3
<1>6. QED
  BY <1>4, <1>5

\* How many sends have returned.
LEMMA ReturnedIs ==
    ASSUME StreamTypeOK, NEW n \in 1 .. NumMessages
    PROVE  /\ IsFiniteSet(Returned) /\ Cardinality(Returned) \in Nat
           /\ (\A i \in 1 .. n - 1 : i \in Returned) => n - 1 <= Cardinality(Returned)
           /\ Returned \subseteq 1 .. n - 1 => Cardinality(Returned) <= n - 1
           /\ n \notin Returned =>
                /\ Cardinality(Returned) < NumMessages
                /\ Cardinality(Returned \cup {n}) = Cardinality(Returned) + 1
<1>1. NumMessages \in Nat /\ n \in Nat /\ n - 1 \in Nat /\ 1 \in Int /\ n - 1 \in Int
      /\ 1 .. n - 1 \subseteq 1 .. NumMessages
  BY Basics
<1>2. /\ IsFiniteSet(1 .. NumMessages) /\ Cardinality(1 .. NumMessages) = NumMessages
      /\ IsFiniteSet(1 .. n - 1) /\ Cardinality(1 .. n - 1) = n - 1
  <2>1. /\ IsFiniteSet(1 .. NumMessages)
        /\ Cardinality(1 .. NumMessages) = IF 1 > NumMessages THEN 0 ELSE NumMessages - 1 + 1
    BY <1>1, FS_Interval
  <2>2. /\ IsFiniteSet(1 .. n - 1)
        /\ Cardinality(1 .. n - 1) = IF 1 > n - 1 THEN 0 ELSE (n - 1) - 1 + 1
    BY <1>1, FS_Interval
  <2>3. QED
    BY <1>1, <2>1, <2>2
<1>3. Returned \in SUBSET (1 .. NumMessages)
  BY DEF Returned
<1> HIDE DEF Returned
<1>4. IsFiniteSet(Returned) /\ Cardinality(Returned) \in Nat
  <2>1. IsFiniteSet(Returned)
    BY <1>2, <1>3, FS_Subset
  <2>2. QED
    BY <2>1, FS_CardinalityType
<1>5. ASSUME \A i \in 1 .. n - 1 : i \in Returned
      PROVE  n - 1 <= Cardinality(Returned)
  <2>1. 1 .. n - 1 \in SUBSET Returned
    BY <1>5
  <2>2. Cardinality(1 .. n - 1) <= Cardinality(Returned)
    BY <1>4, <2>1, FS_Subset
  <2>3. QED
    BY <1>2, <2>2
<1>6. ASSUME Returned \subseteq 1 .. n - 1
      PROVE  Cardinality(Returned) <= n - 1
  <2>1. Returned \in SUBSET (1 .. n - 1)
    BY <1>6
  <2>2. Cardinality(Returned) <= Cardinality(1 .. n - 1)
    BY <1>2, <2>1, FS_Subset
  <2>3. QED
    BY <1>2, <2>2
<1>7. ASSUME n \notin Returned
      PROVE  /\ Cardinality(Returned) < NumMessages
             /\ Cardinality(Returned \cup {n}) = Cardinality(Returned) + 1
  <2>1. Cardinality(Returned \cup {n}) = Cardinality(Returned) + 1
    BY <1>4, <1>7, FS_AddElement
  <2>2. Returned \cup {n} \in SUBSET (1 .. NumMessages)
    BY <1>3
  <2>3. Cardinality(Returned \cup {n}) <= Cardinality(1 .. NumMessages)
    BY <1>2, <2>2, FS_Subset
  <2>4. QED
    BY <1>1, <1>2, <1>4, <2>1, <2>3
<1>8. QED
  BY <1>4, <1>5, <1>6, <1>7

\* Trouble does not go away.
LEMMA TroubleStays ==
    ASSUME StreamTypeOK, NEW e \in End, Step(e) \/ Leave(e)
    PROVE  Trouble => Trouble'
<1>1. Peer(e) \in End /\ \A d \in End : d = e \/ d = Peer(e)
  BY Basics
<1>2. Alike(Peer(e))
  BY Bystander
<1>3. cut => cut'
  BY CutStays
<1>4. pc[e] # "left"
  BY WhoSteps DEF Leave, Gone
<1>5. QED
  BY <1>1, <1>2, <1>3, <1>4 DEF Trouble, Alike

\* A one_time_receive returns the next message, once the send of the one
\* before has returned.
LEMMA DeliverStep ==
    ASSUME IInv, StreamTypeOK', NEW e \in End, SendFinished(e)
    PROVE  /\ Len(received) < NumMessages
           /\ Len(received) <= Cardinality(Returned)
           /\ received' = Append(received, AllMessages[Len(received) + 1])
           /\ Returned' = Returned /\ Trouble' = Trouble
<1> DEFINE n == turn[e]
<1>0. /\ StreamTypeOK /\ TurnInv /\ NumMessages \in Nat
      /\ Peer(e) \in End /\ Peer(e) # e /\ \A d \in End : d = e \/ d = Peer(e)
      /\ turn \in [End -> 1 .. NumMessages + 1]
      /\ pc \in [End -> {"idle", "sending", "ack", "spin", "receiving", "finish",
                       "loop", "left", "crashed", "closed"}]
  BY Basics DEF IInv, StreamTypeOK
<1>1. /\ n \in 1 .. NumMessages /\ Dialogue[n].from = Peer(e)
      /\ turn[Peer(e)] = n /\ Len(received) = n - 1
      /\ message[e] = Content(n)
  BY Finishing DEF SendFinished
<1>2. /\ received' = Append(received, message[e]) /\ cut' = cut
      /\ pc[e] = "finish" /\ pc' = [pc EXCEPT ![e] = "idle"]
      /\ turn' = [turn EXCEPT ![e] = n + 1]
  BY DEF SendFinished, Returns, Set
<1>3. n - 1 < NumMessages /\ (n - 1) + 1 = n
  BY <1>0, <1>1
<1>4. Len(received) < NumMessages
  BY <1>1, <1>3
<1>5. AllMessages[Len(received) + 1] = message[e]
  <2>1. Len(received) + 1 = n
    BY <1>1, <1>3
  <2>2. AllMessages[n] = Content(n)
    BY <1>1, MessagesAre
  <2>3. QED
    BY <1>1, <2>1, <2>2
<1>6. ASSUME NEW i \in 1 .. n - 1 PROVE i \in Returned
  <2>1. i \in 1 .. NumMessages /\ n > i
    BY <1>0, <1>1
  <2>2. Dialogue[i].from \in End
    BY <2>1, MessageIs
  <2>3. turn[Dialogue[i].from] = n
    BY <1>0, <1>1, <2>2
  <2>4. QED
    BY <2>1, <2>3 DEF Returned
<1>7. Len(received) <= Cardinality(Returned)
  BY <1>0, <1>1, <1>6, ReturnedIs
<1>8. ASSUME NEW i \in 1 .. NumMessages
      PROVE  turn'[Dialogue[i].from] > i <=> turn[Dialogue[i].from] > i
  <2>1. Dialogue[i].from \in End
    BY MessageIs
  <2>2. CASE Dialogue[i].from = Peer(e)
    BY <1>0, <1>2, <2>2
  <2>3. CASE Dialogue[i].from = e
    <3>1. i # n
      BY <1>0, <1>1, <2>3
    <3>2. turn'[e] = n + 1
      BY <1>0, <1>2
    <3>3. QED
      BY <1>1, <2>3, <3>1, <3>2
  <2>4. QED
    BY <1>0, <2>1, <2>2, <2>3
<1>9. Returned' = Returned
  BY <1>8 DEF Returned
<1>10. Trouble' = Trouble
  BY <1>0, <1>2 DEF Trouble
<1>11. QED
  BY <1>2, <1>4, <1>5, <1>7, <1>9, <1>10

\* A one_time_send returns once its message has arrived, or in trouble.
LEMMA ReturnStep ==
    ASSUME IInv, StreamTypeOK', NEW e \in End,
           SendFails(e) \/ AwaitAck(e) \/ AwaitAckClosed(e)
    PROVE  /\ received' = received
           /\ Cardinality(Returned) < NumMessages
           /\ Cardinality(Returned') = Cardinality(Returned) + 1
           /\ \/ Cardinality(Returned) < Len(received)
              \/ Trouble /\ Trouble'
<1> DEFINE n == turn[e]
           f == Peer(e)
<1>0. /\ StreamTypeOK /\ TurnInv /\ NumMessages \in Nat
      /\ f \in End /\ f # e /\ \A d \in End : d = e \/ d = f
      /\ turn \in [End -> 1 .. NumMessages + 1]
      /\ wire \in [End -> Seq(Byte)]
  BY Basics DEF IInv, StreamTypeOK
<1>1. /\ received' = received /\ turn' = [turn EXCEPT ![e] = n + 1]
      /\ pc[e] \in {"sending", "ack"} /\ Step(e)
  BY DEF SendFails, AwaitAck, AwaitAckClosed, Returns, Set, Step
<1>2. n \in 1 .. NumMessages /\ Dialogue[n].from = e
  BY <1>0, <1>1 DEF TurnInv
<1>3. n \notin Returned
  BY <1>2 DEF Returned
<1>4. ASSUME NEW i \in 1 .. NumMessages
      PROVE  turn'[Dialogue[i].from] > i <=> turn[Dialogue[i].from] > i \/ i = n
  <2>1. Dialogue[i].from \in End
    BY MessageIs
  <2>2. CASE Dialogue[i].from = f
    BY <1>0, <1>1, <1>2, <2>2
  <2>3. CASE Dialogue[i].from = e
    <3>1. turn'[e] = n + 1
      BY <1>0, <1>1
    <3>2. QED
      BY <1>2, <2>3, <3>1
  <2>4. QED
    BY <1>0, <2>1, <2>2, <2>3
<1>5. Returned' = Returned \cup {n}
  BY <1>2, <1>4 DEF Returned
<1>6. /\ Cardinality(Returned) < NumMessages
      /\ Cardinality(Returned') = Cardinality(Returned) + 1
  BY <1>0, <1>2, <1>3, <1>5, ReturnedIs
<1>7. CASE Gone(f)
  <2>1. Trouble
    BY <1>0, <1>7 DEF IInv, TroubleInv, Trouble
  <2>2. Trouble'
    BY <1>0, <1>1, <2>1, TroubleStays
  <2>3. QED
    BY <1>1, <1>6, <2>1, <2>2
<1>8. CASE ~Gone(f)
  <2>1. AwaitAck(e)
    BY <1>8 DEF SendFails, AwaitAckClosed, NothingComes
  <2>2. pc[e] = "ack" /\ wire[e] # <<>>
    <3>1. PICK chunk \in Chunks(e, AckSize) : wire' = Taken(e, chunk)
      BY <2>1 DEF AwaitAck
    <3>2. AckSize \in Int
      BY Basics
    <3>3. wire[e] # <<>>
      BY <1>0, <3>1, <3>2, TakenIs
    <3>4. QED
      BY <2>1, <3>3 DEF AwaitAck
  <2>3. ~Gone(e) /\ \A d \in End : ~Gone(d)
    BY <1>0, <1>8, <2>2 DEF Gone
  <2>4. PICK d \in End : Pair(d, Peer(d))
    BY <2>3 DEF IInv, EndsInv
  <2>5. d = f /\ Peer(d) = e
    <3>1. d # e
      BY <2>2, <2>4 DEF Pair, Even, Behind, CutReceiver, CutSender, Sends
    <3>2. QED
      BY <1>0, <3>1, Basics
  <2>6. Behind(f, e)
    BY <2>2, <2>4, <2>5
    DEF Pair, Even, CutReceiver, CutSender, Reads, Junk, NotReady
  <2>7. turn[f] = n + 1 /\ Len(received) = n
    BY <2>6 DEF Behind
  <2>8. Returned \subseteq 1 .. n - 1
    <3>1. ASSUME NEW i \in Returned PROVE i \in 1 .. n - 1
      <4>1. i \in 1 .. NumMessages /\ turn[Dialogue[i].from] > i
        BY <3>1 DEF Returned
      <4>2. Dialogue[i].from \in End
        BY <4>1, MessageIs
      <4>3. i # n
        BY <1>3, <3>1
      <4>4. i < n + 1
        <5>1. CASE Dialogue[i].from = e
          <6>1. n > i
            BY <4>1, <5>1
          <6>2. i \in Int /\ n \in Int
            BY <1>2, <4>1
          <6>3. QED
            BY <6>1, <6>2
        <5>2. CASE Dialogue[i].from = f
          <6>1. n + 1 > i
            BY <2>7, <4>1, <5>2
          <6>2. QED
            BY <6>1
        <5>3. QED
          BY <1>0, <4>2, <5>1, <5>2
      <4>5. QED
        BY <1>2, <4>1, <4>3, <4>4
    <3>2. QED
      BY <3>1
  <2>9. Cardinality(Returned) <= n - 1 /\ Cardinality(Returned) \in Nat
    BY <1>0, <1>2, <2>8, ReturnedIs
  <2>10. Cardinality(Returned) < Len(received)
    BY <1>2, <2>7, <2>9
  <2>11. QED
    BY <1>1, <1>6, <2>10
<1>9. QED
  BY <1>7, <1>8

\* No other step is one of the two.
LEMMA QuietStep ==
    ASSUME IInv, NEW e \in End, Step(e) \/ Leave(e), ~SendFinished(e),
           ~(SendFails(e) \/ AwaitAck(e) \/ AwaitAckClosed(e))
    PROVE  received' = received /\ Returned' = Returned
<1>1. received' = received /\ turn' = turn
  BY DEF Step, Leave, SendLength, SendContent, SendKills, SendDone,
         SendNotReady, ReceiveFirst, ReceiveTooShort, ReceiveClosed,
         ReceiveChunk, ReceiveChunkClosed, Ends
<1>2. QED
  BY <1>1 DEF Returned

\* The safety part of ImplementsChannel.  Whatever a recv returns and wherever an
\* end is stopped, what one_time_receive returns are the messages of the dialogue,
\* whole and in its order; and while no recv has cut a length or an
\* acknowledgement and no end was stopped, one_time_send returns no sooner than
\* its message has arrived.
THEOREM ChannelSafety ==
    Spec => AChannel!Init /\ [][AChannel!Next]_(AChannel!vars)
<1>1. Init => AChannel!Init
  <2> SUFFICES ASSUME Init PROVE AChannel!Init
    OBVIOUS
  <2>1. Returned = {}
    <3>1. ASSUME NEW i \in 1 .. NumMessages PROVE ~(turn[Dialogue[i].from] > i)
      <4>1. turn[Dialogue[i].from] = 1
        BY MessageIs DEF Init
      <4>2. QED
        BY <4>1
    <3>2. QED
      BY <3>1 DEF Returned
  <2>2. Cardinality(Returned) = 0
    BY <2>1, FS_EmptySet
  <2>3. QED
    BY <2>2 DEF Init, AChannel!Init, Returned
<1>2. IInv /\ StreamTypeOK' /\ [Next]_vars => [AChannel!Next]_(AChannel!vars)
  <2> SUFFICES ASSUME IInv, StreamTypeOK', [Next]_vars
               PROVE  [AChannel!Next]_(AChannel!vars)
    OBVIOUS
  <2> DEFINE N == Cardinality(Returned)
  <2>1. Len(AllMessages) = NumMessages
    BY MessagesAre
  <2>2. ASSUME received' = received, Cardinality(Returned)' = N, Trouble' = Trouble
        PROVE  UNCHANGED AChannel!vars
    BY <2>2 DEF AChannel!vars, Returned, Trouble
  <2>3. ASSUME received' = received, Cardinality(Returned)' = N, Trouble'
        PROVE  AChannel!Trouble
    BY <2>3 DEF AChannel!Trouble, Returned, Trouble
  <2>4. ASSUME Len(received) < NumMessages, Len(received) <= N,
               received' = Append(received, AllMessages[Len(received) + 1]),
               Cardinality(Returned)' = N, Trouble' = Trouble
        PROVE  AChannel!Deliver
    BY <2>1, <2>4 DEF AChannel!Deliver, AllMessages, Returned, Trouble
  <2>5. ASSUME N < NumMessages, N < Len(received) \/ Trouble,
               Cardinality(Returned)' = N + 1,
               received' = received, Trouble' = Trouble
        PROVE  AChannel!Return
    BY <2>1, <2>5 DEF AChannel!Return, AllMessages, Returned, Trouble
  <2>6. ASSUME N < Len(received), Cardinality(Returned)' = N + 1, Trouble',
               received' = received
        PROVE  AChannel!ReturnInTrouble
    BY <2>6 DEF AChannel!ReturnInTrouble, Returned, Trouble
  <2>7. CASE UNCHANGED vars
    BY <2>7 DEF vars, AChannel!vars
  <2>8. ASSUME NEW e \in End, Step(e) \/ Leave(e)
        PROVE  AChannel!Next \/ UNCHANGED AChannel!vars
    <3>0. Trouble => Trouble'
      BY <2>8, TroubleStays DEF IInv
    <3>1. Trouble' = Trouble \/ Trouble'
      BY <3>0 DEF Trouble
    <3>2. CASE SendFinished(e)
      <4>1. /\ Len(received) < NumMessages /\ Len(received) <= N
            /\ received' = Append(received, AllMessages[Len(received) + 1])
            /\ Returned' = Returned /\ Trouble' = Trouble
        BY <3>2, DeliverStep
      <4>2. Cardinality(Returned)' = N
        BY <4>1
      <4>3. AChannel!Deliver
        BY <2>4, <4>1, <4>2
      <4>4. QED
        BY <4>3 DEF AChannel!Next
    <3>3. CASE SendFails(e) \/ AwaitAck(e) \/ AwaitAckClosed(e)
      <4>1. /\ received' = received /\ N < NumMessages
            /\ Cardinality(Returned)' = N + 1
            /\ N < Len(received) \/ (Trouble /\ Trouble')
        BY <3>3, ReturnStep
      <4>2. CASE Trouble' = Trouble
        BY <2>5, <4>1, <4>2 DEF AChannel!Next
      <4>3. CASE Trouble' /\ ~Trouble
        BY <2>6, <4>1, <4>3 DEF AChannel!Next
      <4>4. QED
        BY <3>1, <4>2, <4>3
    <3>4. CASE ~SendFinished(e) /\ ~(SendFails(e) \/ AwaitAck(e) \/ AwaitAckClosed(e))
      <4>1. received' = received /\ Returned' = Returned
        BY <2>8, <3>4, QuietStep
      <4>2. Cardinality(Returned)' = N
        BY <4>1
      <4>3. QED
        BY <2>2, <2>3, <3>1, <4>1, <4>2 DEF AChannel!Next
    <3>5. QED
      BY <3>2, <3>3, <3>4
  <2>9. QED
    BY <2>7, <2>8 DEF Next
<1>3. IInv => StreamTypeOK
  BY DEF IInv
<1>4. QED
  BY <1>1, <1>2, <1>3, Invariance, PTL DEF Spec
=============================================================================
