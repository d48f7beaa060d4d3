--------------------------- MODULE Streams_proofs ---------------------------
(***************************************************************************)
(* Proofs about Streams, for every number of connections, every size of    *)
(* the tables and of the messages, and whatever users and servers do: the  *)
(* sockets the exit relay waits for are those its table can find and, as   *)
(* long as the user connects only when nothing is under way, both tables   *)
(* and all messages mean the same connections, and bytes arrive in order.  *)
(***************************************************************************)
EXTENDS Streams, SequenceTheorems, HashMap_proofs

Mentions(queue, cmd) == {m \in Range(queue) : m.cmd = cmd}

-----------------------------------------------------------------------------
(* The inductive invariant, in four parts.  The first needs nothing but    *)
(* itself: every filled entry of the relay's table can be reached and has  *)
(* a socket of its own, which is open and waited for; a BEGIN brings a new *)
(* connection; no message is longer than its data. *)
ClientTable ==
    /\ HomeOnly(clientMap)
    /\ \A i \in Filled(clientMap) : clientMap[i].value \in [conn : 1 .. conns, recv : ByteSeqs]
    /\ \A i, j \in Filled(clientMap) : clientMap[i].value.conn = clientMap[j].value.conn => i = j
RelayTable ==
    /\ Reachable(relayMap)
    /\ \A i \in Filled(relayMap) :
          /\ relayMap[i].value \in 1 .. conns
          /\ server[relayMap[i].value] \in {"open", "fin", "reset"}
    /\ \A i, j \in Filled(relayMap) : relayMap[i].value = relayMap[j].value => i = j
Waiting ==
    epoll = {[sock |-> relayMap[i].value, stream_id |-> relayMap[i].stream_id] :
                i \in Filled(relayMap)}
BeginsNew ==
    /\ \A m \in Mentions(toRelay, "BEGIN") : m.conn \in 1 .. conns /\ server[m.conn] = "none"
    /\ \A i, j \in DOMAIN toRelay :
          toRelay[i].cmd = "BEGIN" /\ toRelay[j].cmd = "BEGIN" /\ toRelay[i].conn = toRelay[j].conn
             => i = j
Unused == \A k \in Conns : k > conns => server[k] = "none" /\ sent[k] = 0 /\ got[k] = <<>>
Whole(queue) == \A m \in Range(queue) : m.length <= Len(m.data)
TablesOK ==
    /\ ClientTable /\ RelayTable /\ Waiting /\ BeginsNew /\ Unused
    /\ Whole(toRelay) /\ Whole(toClient)

(* The second: which streams are where.  A stream only the relay knows has *)
(* its END on the way or is about to be closed by its server; one only the *)
(* client knows has its BEGIN or its END on the way.  What both know, and  *)
(* what messages are about, is the same connection. *)
Ending(k) == server[k] \in {"fin", "reset"}
BeginFirst == \A i \in DOMAIN toRelay : toRelay[i].cmd = "BEGIN" => i = 1
BeginMeans ==
    \A b \in Mentions(toRelay, "BEGIN") :
       /\ ~IsHeld(relayMap, b.stream_id)
       /\ \A m \in Mentions(toClient, "END") : m.stream_id # b.stream_id
       /\ \/ IsHeld(clientMap, b.stream_id)
          \/ \E m \in Mentions(toRelay, "END") : m.stream_id = b.stream_id
       /\ \A i \in Filled(clientMap) :
             clientMap[i].stream_id = b.stream_id <=> clientMap[i].value.conn = b.conn
       /\ \A m \in Mentions(toRelay, "DATA") : m.stream_id = b.stream_id <=> m.conn = b.conn
RelayKnows ==
    \A i \in Filled(relayMap) :
       \/ IsHeld(clientMap, relayMap[i].stream_id)
       \/ Ending(relayMap[i].value)
       \/ \E m \in Mentions(toRelay, "END") : m.stream_id = relayMap[i].stream_id
ClientKnows ==
    \A i \in Filled(clientMap) :
       \/ IsHeld(relayMap, clientMap[i].stream_id)
       \/ \E m \in Mentions(toRelay, "BEGIN") : m.stream_id = clientMap[i].stream_id
       \/ \E m \in Mentions(toClient, "END") : m.stream_id = clientMap[i].stream_id
SameConns ==
    \A i \in Filled(clientMap), j \in Filled(relayMap) :
       clientMap[i].stream_id = relayMap[j].stream_id <=>
          clientMap[i].value.conn = relayMap[j].value
EndMeans ==
    \A m \in Mentions(toClient, "END"), i \in Filled(relayMap) :
       m.stream_id = relayMap[i].stream_id => Ending(relayMap[i].value)
DataUpMeans ==
    \A m \in Mentions(toRelay, "DATA"), i \in Filled(relayMap) :
       m.stream_id = relayMap[i].stream_id <=> m.conn = relayMap[i].value
DataDownMeans ==
    \A m \in Mentions(toClient, "DATA"), i \in Filled(clientMap) :
       m.stream_id = clientMap[i].stream_id => m.conn = clientMap[i].value.conn
Agree ==
    /\ Distinct(relayMap) /\ BeginFirst /\ BeginMeans /\ RelayKnows /\ ClientKnows
    /\ SameConns /\ EndMeans /\ DataUpMeans /\ DataDownMeans

(* The third: the bytes on their way to connection k, from the first the   *)
(* server does not have.  As long as the connection takes bytes, each one  *)
(* that was sent and is not there yet is in a message. *)
From(m) == m.data[1][2]
To(m) == From(m) + m.length - 1
IsUp(m) ==
    /\ m.conn \in Conns
    /\ m.length >= 1
    /\ From(m) \in Nat \ {0}
    /\ m.data = Bytes(m.conn, From(m), To(m))
Takes(k) ==
    \/ server[k] = "open" /\ \E i \in Filled(relayMap) : relayMap[i].value = k
    \/ \E m \in Mentions(toRelay, "BEGIN") : m.conn = k
UpBytes ==
    \A m \in Mentions(toRelay, "DATA") :
       /\ IsUp(m)
       /\ Len(served[m.conn]) < From(m)
       /\ To(m) <= sent[m.conn]
UpOrder ==
    \A i, j \in DOMAIN toRelay :
       i < j /\ toRelay[i].cmd = "DATA" /\ toRelay[j].cmd = "DATA"
       /\ toRelay[i].conn = toRelay[j].conn => To(toRelay[i]) < From(toRelay[j])
UpServed ==
    \A k \in Conns :
       /\ served[k] = Bytes(k, 1, Len(served[k]))
       /\ Len(served[k]) <= sent[k]
UpComplete ==
    \A k \in Conns : Takes(k) =>
       \A n \in Len(served[k]) + 1 .. sent[k] :
          \E m \in Mentions(toRelay, "DATA") : m.conn = k /\ n \in From(m) .. To(m)
Up == UpBytes /\ UpOrder /\ UpServed /\ UpComplete

(* The fourth: the bytes on their way from connection k, in the order they *)
(* are in at the socket, on the circuit, in the buffer and with the user. *)
Numbers(bytes) == {b[2] : b \in Range(bytes) \ {Stale}}
Below(bytes, others) == \A x \in Numbers(bytes), y \in Numbers(others) : x < y
Read(k) == produced[k] - Len(inbox[k])
Here(i) == got[clientMap[i].value.conn] \o clientMap[i].value.recv
DownUnread ==
    \A k \in Conns :
       /\ Read(k) \in Nat
       /\ inbox[k] = Bytes(k, Read(k) + 1, produced[k])
DownGot == \A k \in Conns : InOrder(k, got[k])
DownBytes ==
    \A m \in Mentions(toClient, "DATA") :
       /\ m.conn \in Conns
       /\ InOrder(m.conn, m.data)
       /\ \A x \in Numbers(m.data) : x <= Read(m.conn)
DownOrder ==
    \A i, j \in DOMAIN toClient :
       i < j /\ toClient[i].cmd = "DATA" /\ toClient[j].cmd = "DATA"
       /\ toClient[i].conn = toClient[j].conn => Below(toClient[i].data, toClient[j].data)
DownHere ==
    \A i \in Filled(clientMap) :
       /\ InOrder(clientMap[i].value.conn, Here(i))
       /\ \A x \in Numbers(Here(i)) : x <= Read(clientMap[i].value.conn)
       /\ \A m \in Mentions(toClient, "DATA") :
             m.conn = clientMap[i].value.conn => Below(Here(i), m.data)
Down == DownUnread /\ DownGot /\ DownBytes /\ DownOrder /\ DownHere

StreamsInv ==
    /\ TypeOK
    /\ TablesOK
    /\ hasty = 0 => Agree /\ Up /\ Down

-----------------------------------------------------------------------------
(* Queues.  What is in a queue when a message was taken or added. *)
LEMMA Taken ==
  ASSUME NEW S, NEW q \in Seq(S), q # <<>>
  PROVE  /\ Tail(q) \in Seq(S) /\ Head(q) \in S /\ Head(q) = q[1]
         /\ 1 \in DOMAIN q
         /\ \A i \in DOMAIN Tail(q) : i \in Nat \ {0} /\ i + 1 \in DOMAIN q /\ Tail(q)[i] = q[i + 1]
         /\ Range(q) = {Head(q)} \cup Range(Tail(q))
<1>1. /\ Len(q) \in Nat \ {0} /\ DOMAIN q = 1 .. Len(q)
      /\ Tail(q) \in Seq(S) /\ Head(q) \in S /\ Head(q) = q[1]
      /\ DOMAIN Tail(q) = 1 .. Len(q) - 1
      /\ \A i \in 1 .. Len(q) - 1 : Tail(q)[i] = q[i + 1]
  BY EmptySeq, HeadTailProperties, LenProperties
<1>2. \A i \in 1 .. Len(q) : i = 1 \/ i - 1 \in 1 .. Len(q) - 1
  BY <1>1
<1>3. \A i \in 1 .. Len(q) : i = 1 \/ q[i] = Tail(q)[i - 1]
  BY <1>1, <1>2
<1>4. Range(q) = {Head(q)} \cup Range(Tail(q))
  <2>1. ASSUME NEW i \in DOMAIN q
        PROVE  q[i] = Head(q) \/ \E j \in DOMAIN Tail(q) : q[i] = Tail(q)[j]
    BY <1>1, <1>2, <1>3
  <2>2. ASSUME NEW j \in DOMAIN Tail(q)
        PROVE  j + 1 \in DOMAIN q /\ Tail(q)[j] = q[j + 1]
    BY <1>1
  <2>3. 1 \in DOMAIN q
    BY <1>1
  <2>4. \A x \in Range(q) : x = Head(q) \/ x \in Range(Tail(q))
    BY <2>1, Zenon DEF Range
  <2>5. \A x \in Range(Tail(q)) : x \in Range(q)
    BY <2>2, Zenon DEF Range
  <2>6. q[1] \in Range(q)
    BY <2>3, Zenon DEF Range
  <2>7. Head(q) \in Range(q)
    BY <1>1, <2>6
  <2>8. QED
    BY <2>4, <2>5, <2>7
<1>5. QED
  BY <1>1, <1>4

LEMMA Added ==
  ASSUME NEW S, NEW q \in Seq(S), NEW m \in S
  PROVE  /\ Append(q, m) \in Seq(S)
         /\ DOMAIN q \subseteq Nat \ {0}
         /\ DOMAIN Append(q, m) = DOMAIN q \cup {Len(q) + 1}
         /\ \A i \in DOMAIN q : i < Len(q) + 1 /\ Append(q, m)[i] = q[i]
         /\ Append(q, m)[Len(q) + 1] = m
         /\ Range(Append(q, m)) = Range(q) \cup {m}
<1>1. /\ Len(q) \in Nat /\ DOMAIN q = 1 .. Len(q)
      /\ Append(q, m) \in Seq(S)
      /\ DOMAIN Append(q, m) = 1 .. Len(q) + 1
      /\ \A i \in 1 .. Len(q) : Append(q, m)[i] = q[i]
      /\ Append(q, m)[Len(q) + 1] = m
  BY AppendProperties, LenProperties
<1>2. DOMAIN Append(q, m) = DOMAIN q \cup {Len(q) + 1}
  BY <1>1
<1>3. Range(Append(q, m)) = Range(q) \cup {m}
  BY <1>1, <1>2 DEF Range
<1>4. QED
  BY <1>1, <1>2, <1>3

LEMMA MentionsTaken ==
  ASSUME NEW S, NEW q \in Seq(S), q # <<>>, NEW cmd
  PROVE  /\ Head(q).cmd = cmd => Mentions(q, cmd) = {Head(q)} \cup Mentions(Tail(q), cmd)
         /\ Head(q).cmd # cmd => Mentions(Tail(q), cmd) = Mentions(q, cmd)
BY Taken DEF Mentions

LEMMA MentionsAdded ==
  ASSUME NEW S, NEW q \in Seq(S), NEW m \in S, NEW cmd
  PROVE  /\ m.cmd = cmd => Mentions(Append(q, m), cmd) = Mentions(q, cmd) \cup {m}
         /\ m.cmd # cmd => Mentions(Append(q, m), cmd) = Mentions(q, cmd)
BY Added DEF Mentions

(* The types of messages. *)
LEMMA MsgType ==
  ASSUME NEW cmd \in {"BEGIN", "CONNECTED", "DATA", "END"}, NEW id \in Nat, NEW k \in 0 .. MaxConns
  PROVE  /\ Msg(cmd, id, k) \in Messages
         /\ Msg(cmd, id, k).cmd = cmd /\ Msg(cmd, id, k).stream_id = id /\ Msg(cmd, id, k).conn = k
BY StreamsAssumption, EmptySeq DEF Msg, Messages, ByteSeqs

LEMMA MentionsType ==
  ASSUME NEW q \in Seq(Messages), NEW cmd, NEW m \in Mentions(q, cmd)
  PROVE  m \in Messages /\ m.cmd = cmd
BY LenProperties, ElementOfSeq DEF Mentions, Range

(* The values of the two tables. *)
ClientValues == [conn : Conns, recv : ByteSeqs] \cup {NoValue}
RelayValues == Conns \cup {NoValue}

LEMMA TablesTyped ==
  ASSUME TypeOK
  PROVE  clientMap \in Tables(ClientValues) /\ relayMap \in Tables(RelayValues)
BY DEF TypeOK, EntriesOf, Tables, ClientValues, RelayValues

LEMMA ConnsBound ==
  ASSUME TypeOK
  PROVE  /\ conns \in Nat /\ 1 .. conns \subseteq Conns
         /\ \A k \in Conns : k \in Nat \ {0}
BY StreamsAssumption DEF TypeOK, Conns

(* At the client. *)
LEMMA ClientFinds ==
  ASSUME TypeOK, TablesOK, NEW id \in Nat
  PROVE  /\ Consistent(clientMap)
         /\ Found(clientMap, id) <=> IsHeld(clientMap, id)
         /\ Found(clientMap, id) => FoundValue(clientMap, id) \in [conn : 1 .. conns, recv : ByteSeqs]
<1>1. clientMap \in Tables(ClientValues)
  BY TablesTyped
<1>2. Consistent(clientMap)
  BY <1>1, HomeOnlyConsistent DEF TablesOK, ClientTable
<1>3. ASSUME Found(clientMap, id)
      PROVE  FoundValue(clientMap, id) \in [conn : 1 .. conns, recv : ByteSeqs]
  BY <1>3, FoundHolds DEF FoundValue, TablesOK, ClientTable, Filled, Holds
<1>4. QED
  BY <1>2, <1>3, FoundIsHeld

(* At the relay every entry's identifier is found, if not in this entry. *)
LEMMA RelayFinds ==
  ASSUME TypeOK, TablesOK, NEW id \in Nat
  PROVE  /\ Found(relayMap, id) <=> IsHeld(relayMap, id)
         /\ Found(relayMap, id) => /\ FoundSlot(relayMap, id) \in Filled(relayMap)
                                   /\ relayMap[FoundSlot(relayMap, id)].stream_id = id
                                   /\ FoundValue(relayMap, id) = relayMap[FoundSlot(relayMap, id)].value
                                   /\ FoundValue(relayMap, id) \in 1 .. conns
<1>1. ASSUME Found(relayMap, id)
      PROVE  FoundSlot(relayMap, id) \in Filled(relayMap) /\ Holds(relayMap, FoundSlot(relayMap, id), id)
  BY <1>1, FoundHolds DEF Filled, Holds
<1>2. ASSUME NEW i \in Slots, Holds(relayMap, i, id)
      PROVE  Found(relayMap, id)
  <2>1. PICK k \in Turns : Slot(id, k) = i /\ Reaches(relayMap, id, k)
    BY <1>2 DEF TablesOK, RelayTable, Reachable, Holds
  <2>2. k \in Hits(relayMap, id)
    BY <1>2, <2>1 DEF Hits
  <2>3. QED
    BY <2>2 DEF Found
<1>3. QED
  BY <1>1, <1>2 DEF FoundValue, TablesOK, RelayTable, IsHeld, Filled, Holds

-----------------------------------------------------------------------------
(* Bytes. *)
LEMMA BytesType ==
  ASSUME NEW k \in Conns, NEW first \in Nat, NEW last \in Int, first <= last + 1
  PROVE  /\ Bytes(k, first, last) \in ByteSeqs
         /\ Len(Bytes(k, first, last)) = last - first + 1
         /\ DOMAIN Bytes(k, first, last) = 1 .. last - first + 1
         /\ \A i \in 1 .. last - first + 1 : Bytes(k, first, last)[i] = <<k, first + i - 1>>
<1>1. last - first + 1 \in Nat
  OBVIOUS
<1>2. \A i \in 1 .. last - first + 1 : <<k, first + i - 1>> \in (Conns \X Nat) \cup {Stale}
  OBVIOUS
<1>3. Bytes(k, first, last) \in [1 .. last - first + 1 -> (Conns \X Nat) \cup {Stale}]
  BY <1>2 DEF Bytes
<1>4. Bytes(k, first, last) \in ByteSeqs
  BY <1>1, <1>3, SeqDef DEF ByteSeqs
<1>5. QED
  BY <1>1, <1>3, <1>4 DEF Bytes, ByteSeqs

(* The pieces of handle_input_send: how many there are, where each begins, *)
(* and that they cover what is sent. *)
LEMMA Multiples ==
  ASSUME NEW a \in Nat, NEW b \in Nat, NEW r \in Nat, a <= b
  PROVE  a * r \in Nat /\ b * r \in Nat /\ a * r <= b * r
<1>1. PICK d \in Nat : b = a + d
  <2>1. b - a \in Nat /\ b = a + (b - a)
    OBVIOUS
  <2>2. QED
    BY <2>1
<1>2. d * r \in Nat /\ a * r \in Nat
  OBVIOUS
<1>3. b * r = a * r + d * r
  BY <1>1
<1>4. QED
  BY <1>2, <1>3

LEMMA Pieces ==
  ASSUME NEW L \in Nat
  PROVE  LET R == RELAY_DATA_MSG_SIZE
             p == (L + R - 1) \div R
         IN  /\ p \in Nat
             /\ \A n \in 1 .. p : PieceStart(n) \in Nat /\ PieceStart(n) < L
             /\ \A b \in 1 .. L : \E n \in 1 .. p : PieceStart(n) < b /\ b <= PieceStart(n) + R
             /\ \A n, m \in 1 .. p : n < m => PieceStart(n) + R <= PieceStart(m)
<1> DEFINE R == RELAY_DATA_MSG_SIZE
           p == (L + R - 1) \div R
<1>1. R \in Nat \ {0}
  BY StreamsAssumption
<1>2. p \in Nat /\ p * R <= L + R - 1 /\ L + R - 1 < p * R + R
  <2>1. L + R - 1 \in Nat
    BY <1>1
  <2>2. /\ p \in Int
        /\ L + R - 1 = R * p + ((L + R - 1) % R)
        /\ (L + R - 1) % R \in 0 .. R - 1
    BY <1>1, <2>1
  <2>3. p >= 0
    <3>1. SUFFICES ASSUME p <= -1 PROVE FALSE
      BY <2>2
    <3>2. R * p <= -R
      BY <1>1, <2>2, <3>1
    <3>3. QED
      BY <1>1, <2>1, <2>2, <3>2
  <2>4. QED
    BY <1>1, <2>2, <2>3
<1> HIDE DEF p
<1>3. \A n \in 1 .. p : PieceStart(n) \in Nat /\ PieceStart(n) < L
  <2> SUFFICES ASSUME NEW n \in 1 .. p PROVE PieceStart(n) \in Nat /\ PieceStart(n) < L
    OBVIOUS
  <2>1. n - 1 \in Nat /\ p - 1 \in Nat /\ n - 1 <= p - 1
    BY <1>2
  <2>2. (n - 1) * R \in Nat /\ (n - 1) * R <= (p - 1) * R
    BY <1>1, <2>1, Multiples
  <2>3. (p - 1) * R = p * R - R
    BY <1>1, <1>2
  <2>4. QED
    BY <1>1, <1>2, <2>2, <2>3 DEF PieceStart
<1>4. ASSUME NEW b \in 1 .. L
      PROVE  \E n \in 1 .. p : PieceStart(n) < b /\ b <= PieceStart(n) + R
  <2> DEFINE q == (b - 1) \div R
  <2>1. q \in Nat /\ q * R <= b - 1 /\ b - 1 < q * R + R
    <3>1. /\ q \in Int
          /\ b - 1 = R * q + ((b - 1) % R)
          /\ (b - 1) % R \in 0 .. R - 1
      BY <1>1
    <3>2. q >= 0
      <4>1. SUFFICES ASSUME q <= -1 PROVE FALSE
        BY <3>1
      <4>2. R * q <= -R
        BY <1>1, <3>1, <4>1
      <4>3. QED
        BY <1>1, <3>1, <4>2
    <3>3. QED
      BY <1>1, <3>1, <3>2
  <2> HIDE DEF q
  <2>2. q < p
    <3>1. SUFFICES ASSUME p <= q PROVE FALSE
      BY <1>2, <2>1
    <3>2. p * R <= q * R
      BY <1>1, <1>2, <2>1, <3>1, Multiples
    <3>3. p * R \in Int /\ q * R \in Int
      BY <1>1, <1>2, <2>1
    <3>4. QED
      BY <1>1, <1>2, <2>1, <3>2, <3>3
  <2>3. q + 1 \in 1 .. p /\ PieceStart(q + 1) = q * R
    BY <1>2, <2>1, <2>2 DEF PieceStart
  <2>4. q * R \in Int
    BY <1>1, <2>1
  <2>5. QED
    BY <1>1, <2>1, <2>3, <2>4
<1>5. ASSUME NEW n \in 1 .. p, NEW m \in 1 .. p, n < m
      PROVE  PieceStart(n) + R <= PieceStart(m)
  <2>1. n \in Nat /\ m - 1 \in Nat /\ n <= m - 1
    BY <1>2, <1>5
  <2>2. n * R <= (m - 1) * R
    BY <1>1, <2>1, Multiples
  <2>3. (n - 1) * R + R = n * R
    BY <1>1, <2>1
  <2>4. QED
    BY <2>2, <2>3 DEF PieceStart
<1>6. QED
  BY <1>2, <1>3, <1>4, <1>5 DEF p

LEMMA PieceBounds ==
  ASSUME NEW n \in Nat
  PROVE  /\ Piece(n) \in 0 .. RELAY_DATA_MSG_SIZE /\ Piece(n) <= n
         /\ n > 0 => Piece(n) > 0
         /\ Piece(n) = n \/ Piece(n) = RELAY_DATA_MSG_SIZE
BY StreamsAssumption DEF Piece

-----------------------------------------------------------------------------
(* What a send adds to the queue: messages of the stream, which cover the  *)
(* bytes that are sent, in order. *)
Sent(added, id, k, first, last) ==
    /\ added \in Seq(Messages)
    /\ \A n \in DOMAIN added :
          /\ added[n].cmd = "DATA" /\ added[n].stream_id = id /\ added[n].conn = k
          /\ IsUp(added[n])
          /\ first <= From(added[n]) /\ To(added[n]) <= last
    /\ \A n, m \in DOMAIN added : n < m => To(added[n]) < From(added[m])
    /\ \A b \in first .. last : \E n \in DOMAIN added : b \in From(added[n]) .. To(added[n])

LEMMA Sending ==
  ASSUME TypeOK, TablesOK, NEW id \in Nat, NEW length \in Lengths, Send(id, length)
  PROVE  \E i \in Filled(clientMap), L \in Nat, added \in Seq(Messages) :
            LET k == clientMap[i].value.conn
            IN  /\ clientMap[i].stream_id = id
                /\ k \in 1 .. conns
                /\ sent[k] + L <= MaxSent
                /\ sent' = [sent EXCEPT ![k] = sent[k] + L]
                /\ toRelay' = toRelay \o added
                /\ Sent(added, id, k, sent[k] + 1, sent[k] + L)
<1> DEFINE i == FoundSlot(clientMap, id)
           k == FoundValue(clientMap, id).conn
           L == length - 1
           p == (L + RELAY_DATA_MSG_SIZE - 1) \div RELAY_DATA_MSG_SIZE
           index(n) == sent[k] + PieceStart(n)
           size(n)  == Piece(L - PieceStart(n))
           Message(n) == [Msg("DATA", id, k) EXCEPT
                            !.data = Bytes(k, index(n) + 1, index(n) + size(n)),
                            !.length = size(n)]
           added == [n \in 1 .. p |-> Message(n)]
<1>1. /\ Found(clientMap, id)
      /\ sent[k] + L <= MaxSent
      /\ sent' = [sent EXCEPT ![k] = sent[k] + L]
      /\ toRelay' = toRelay \o added
  BY DEF Send
<1>2. L \in Nat
  BY StreamsAssumption, SMTT(30)
<1>3. i \in Filled(clientMap) /\ clientMap[i].stream_id = id /\ k = clientMap[i].value.conn
  BY <1>1, FoundHolds DEF FoundValue, Filled, Holds
<1>4. k \in 1 .. conns /\ k \in Conns /\ k \in Nat \ {0} /\ sent[k] \in Nat
  <2>1. k \in 1 .. conns
    BY <1>1, ClientFinds
  <2>2. conns \in 0 .. MaxConns /\ sent \in [Conns -> 0 .. MaxSent]
    BY DEF TypeOK
  <2>3. QED
    BY <2>1, <2>2, StreamsAssumption, SMTT(30) DEF Conns
<1> HIDE DEF i, k, L
<1>5. /\ p \in Nat
      /\ \A n \in 1 .. p : PieceStart(n) \in Nat /\ PieceStart(n) < L
      /\ \A b \in 1 .. L : \E n \in 1 .. p : PieceStart(n) < b /\ b <= PieceStart(n) + RELAY_DATA_MSG_SIZE
      /\ \A n, m \in 1 .. p : n < m => PieceStart(n) + RELAY_DATA_MSG_SIZE <= PieceStart(m)
  BY <1>2, Pieces
<1> HIDE DEF p
<1>6. ASSUME NEW n \in 1 .. p
      PROVE  /\ size(n) \in 1 .. RELAY_DATA_MSG_SIZE
             /\ PieceStart(n) + size(n) <= L
             /\ PieceStart(n) + size(n) = L \/ size(n) = RELAY_DATA_MSG_SIZE
             /\ index(n) \in Nat
  <2>1. PieceStart(n) \in Nat /\ L - PieceStart(n) \in Nat /\ L - PieceStart(n) > 0
    BY <1>2, <1>5
  <2>2. QED
    BY <1>2, <1>4, <2>1, PieceBounds, StreamsAssumption
<1>7. ASSUME NEW n \in 1 .. p
      PROVE  /\ Message(n) \in Messages
             /\ Message(n).cmd = "DATA" /\ Message(n).stream_id = id /\ Message(n).conn = k
             /\ IsUp(Message(n))
             /\ From(Message(n)) = index(n) + 1 /\ To(Message(n)) = index(n) + size(n)
  <2>1. /\ size(n) \in 1 .. RELAY_DATA_MSG_SIZE /\ index(n) \in Nat
        /\ RELAY_DATA_MSG_SIZE \in Nat
    BY <1>6, StreamsAssumption
  <2> HIDE DEF index, size
  <2> DEFINE first == index(n) + 1
             last  == index(n) + size(n)
  <2>2. first \in Nat /\ last \in Int /\ first <= last + 1 /\ 1 \in 1 .. last - first + 1
    BY <2>1
  <2>3. Bytes(k, first, last) \in ByteSeqs /\ Bytes(k, first, last)[1] = <<k, first>>
    <3> HIDE DEF first, last
    <3>1. Bytes(k, first, last)[1] = <<k, first + 1 - 1>>
      BY <1>4, <2>2, BytesType
    <3>2. QED
      BY <1>4, <2>2, <3>1, BytesType
  <2>4. /\ Message(n).cmd = "DATA" /\ Message(n).stream_id = id /\ Message(n).conn = k
        /\ Message(n).length = size(n)
        /\ Message(n).data = Bytes(k, index(n) + 1, index(n) + size(n))
        /\ Message(n) \in [cmd : {"DATA"}, stream_id : {id}, conn : {k}, length : {size(n)},
                           data : {Bytes(k, index(n) + 1, index(n) + size(n))}]
    BY DEF Msg
  <2> HIDE DEF Message
  <2>5. Message(n) \in Messages
    <3>1. k \in 0 .. MaxConns /\ size(n) \in 0 .. RELAY_DATA_MSG_SIZE
      BY <1>4, <2>1 DEF Conns
    <3>2. QED
      BY <2>3, <2>4, <3>1 DEF Messages
  <2>6. From(Message(n)) = index(n) + 1
    BY <2>1, <2>3, <2>4 DEF From
  <2>7. To(Message(n)) = index(n) + size(n)
    BY <2>1, <2>4, <2>6 DEF To
  <2>8. IsUp(Message(n))
    BY <1>4, <2>1, <2>4, <2>6, <2>7 DEF IsUp
  <2>9. QED
    BY <2>4, <2>5, <2>6, <2>7, <2>8
<1>8. /\ added \in [1 .. p -> Messages] /\ DOMAIN added = 1 .. p
      /\ \A n \in 1 .. p : added[n] = Message(n)
  BY <1>7
<1>9. added \in Seq(Messages)
  BY <1>5, <1>8, SeqDef
<1> HIDE DEF Message, added
<1>10. Sent(added, id, k, sent[k] + 1, sent[k] + L)
  <2>1. ASSUME NEW n \in DOMAIN added
        PROVE  /\ added[n].cmd = "DATA" /\ added[n].stream_id = id /\ added[n].conn = k
               /\ IsUp(added[n])
               /\ sent[k] + 1 <= From(added[n]) /\ To(added[n]) <= sent[k] + L
               /\ From(added[n]) = sent[k] + PieceStart(n) + 1
               /\ To(added[n]) = sent[k] + PieceStart(n) + size(n)
    <3>1. n \in 1 .. p /\ added[n] = Message(n)
      BY <1>8
    <3>2. PieceStart(n) \in Nat
      BY <1>5, <3>1
    <3>3. QED
      BY <1>2, <1>4, <1>6, <1>7, <3>1, <3>2
  <2>2. ASSUME NEW n \in DOMAIN added, NEW m \in DOMAIN added, n < m
        PROVE  To(added[n]) < From(added[m])
    <3>1. n \in 1 .. p /\ m \in 1 .. p
      BY <1>8
    <3>2. PieceStart(n) + RELAY_DATA_MSG_SIZE <= PieceStart(m) /\ PieceStart(n) \in Nat
          /\ PieceStart(m) \in Nat /\ size(n) \in 1 .. RELAY_DATA_MSG_SIZE
      BY <1>5, <1>6, <2>2, <3>1
    <3> HIDE DEF size
    <3>3. QED
      BY <1>4, <2>1, <3>2, StreamsAssumption
  <2>3. ASSUME NEW b \in sent[k] + 1 .. sent[k] + L
        PROVE  \E n \in DOMAIN added : b \in From(added[n]) .. To(added[n])
    <3>1. b \in Int /\ b - sent[k] \in 1 .. L
      BY <1>2, <1>4
    <3>2. PICK n \in 1 .. p : /\ PieceStart(n) < b - sent[k]
                              /\ b - sent[k] <= PieceStart(n) + RELAY_DATA_MSG_SIZE
      BY <1>5, <3>1
    <3>3. n \in DOMAIN added /\ PieceStart(n) \in Nat /\ size(n) \in Nat
      BY <1>5, <1>6, <1>8, <3>2, StreamsAssumption
    <3>4. b - sent[k] <= PieceStart(n) + size(n)
      BY <1>2, <1>6, <3>1, <3>2, <3>3
    <3> HIDE DEF size
    <3>5. QED
      BY <1>4, <2>1, <3>1, <3>2, <3>3, <3>4
  <2>4. QED
    BY <1>9, <2>1, <2>2, <2>3 DEF Sent
<1>11. QED
  BY <1>1, <1>2, <1>3, <1>4, <1>9, <1>10

-----------------------------------------------------------------------------
(* Joined sequences, and the two parts a sequence is cut into. *)
LEMMA Joined ==
  ASSUME NEW S, NEW s \in Seq(S), NEW t \in Seq(S)
  PROVE  /\ s \o t \in Seq(S)
         /\ Len(s) \in Nat /\ DOMAIN s = 1 .. Len(s)
         /\ Len(t) \in Nat /\ DOMAIN t = 1 .. Len(t)
         /\ Len(s \o t) = Len(s) + Len(t) /\ DOMAIN (s \o t) = 1 .. Len(s) + Len(t)
         /\ \A i \in DOMAIN s : i \in DOMAIN (s \o t) /\ (s \o t)[i] = s[i]
         /\ \A j \in DOMAIN t : Len(s) + j \in DOMAIN (s \o t) /\ (s \o t)[Len(s) + j] = t[j]
         /\ \A i \in DOMAIN (s \o t) : i > Len(s) => i - Len(s) \in DOMAIN t /\ (s \o t)[i] = t[i - Len(s)]
         /\ Range(s \o t) = Range(s) \cup Range(t)
<1>1. /\ s \o t \in Seq(S)
      /\ Len(s) \in Nat /\ DOMAIN s = 1 .. Len(s)
      /\ Len(t) \in Nat /\ DOMAIN t = 1 .. Len(t)
      /\ Len(s \o t) = Len(s) + Len(t) /\ DOMAIN (s \o t) = 1 .. Len(s) + Len(t)
  BY ConcatProperties, LenProperties
<1>2. \A i \in 1 .. Len(s) + Len(t) : (s \o t)[i] = IF i <= Len(s) THEN s[i] ELSE t[i - Len(s)]
  BY ConcatProperties
<1> DEFINE u == s \o t
<1> HIDE DEF u
<1>3. \A i \in DOMAIN s : i \in DOMAIN u /\ u[i] = s[i]
  BY <1>1, <1>2 DEF u
<1>4. \A j \in DOMAIN t : Len(s) + j \in DOMAIN u /\ u[Len(s) + j] = t[j]
  <2> SUFFICES ASSUME NEW j \in DOMAIN t
               PROVE  Len(s) + j \in DOMAIN u /\ u[Len(s) + j] = t[j]
    OBVIOUS
  <2>1. j \in Nat /\ Len(s) + j \in 1 .. Len(s) + Len(t) /\ ~(Len(s) + j <= Len(s))
        /\ Len(s) + j - Len(s) = j
    BY <1>1
  <2>2. u[Len(s) + j] = t[Len(s) + j - Len(s)]
    BY <1>2, <2>1 DEF u
  <2>3. QED
    BY <1>1, <2>1, <2>2 DEF u
<1>5. \A i \in DOMAIN u : i > Len(s) => i - Len(s) \in DOMAIN t /\ u[i] = t[i - Len(s)]
  BY <1>1, <1>2 DEF u
<1>6. Range(u) = Range(s) \cup Range(t)
  <2>1. ASSUME NEW i \in DOMAIN u
        PROVE  (\E j \in DOMAIN s : u[i] = s[j]) \/ (\E j \in DOMAIN t : u[i] = t[j])
    <3>1. CASE i <= Len(s)
      BY <1>1, <1>2, <3>1 DEF u
    <3>2. CASE i > Len(s)
      BY <1>5, <3>2
    <3>3. QED
      BY <1>1, <3>1, <3>2 DEF u
  <2>2. \A x \in Range(u) : x \in Range(s) \/ x \in Range(t)
    BY <2>1, Zenon DEF Range
  <2>3. \A x \in Range(s) : x \in Range(u)
    BY <1>3, Zenon DEF Range
  <2>4. \A x \in Range(t) : x \in Range(u)
    BY <1>4, Zenon DEF Range
  <2>5. QED
    BY <2>2, <2>3, <2>4
<1>7. QED
  BY <1>1, <1>3, <1>4, <1>5, <1>6 DEF u

LEMMA MentionsJoined ==
  ASSUME NEW S, NEW s \in Seq(S), NEW t \in Seq(S), NEW cmd
  PROVE  Mentions(s \o t, cmd) = Mentions(s, cmd) \cup Mentions(t, cmd)
BY Joined DEF Mentions

LEMMA CutOff ==
  ASSUME NEW S, NEW s \in Seq(S), NEW n \in 0 .. Len(s)
  PROVE  /\ SubSeq(s, 1, n) \in Seq(S) /\ Rest(s, n) \in Seq(S)
         /\ Len(SubSeq(s, 1, n)) = n /\ Len(Rest(s, n)) = Len(s) - n
         /\ \A i \in 1 .. n : SubSeq(s, 1, n)[i] = s[i]
         /\ \A i \in 1 .. Len(s) - n : Rest(s, n)[i] = s[n + i]
         /\ SubSeq(s, 1, n) \o Rest(s, n) = s
<1>1. Len(s) \in Nat /\ \A i \in 1 .. Len(s) : s[i] \in S
  BY ElementOfSeq, LenProperties
<1>2. /\ SubSeq(s, 1, n) \in Seq(S)
      /\ Len(SubSeq(s, 1, n)) = n
      /\ \A i \in 1 .. n : SubSeq(s, 1, n)[i] = s[i]
  <2>1. \A i \in 1 .. n : s[i] \in S
    BY <1>1
  <2>2. /\ SubSeq(s, 1, n) \in Seq(S)
        /\ Len(SubSeq(s, 1, n)) = IF 1 <= n THEN n - 1 + 1 ELSE 0
        /\ \A i \in 1 .. n - 1 + 1 : SubSeq(s, 1, n)[i] = s[1 + i - 1]
    BY <1>1, <2>1, SubSeqProperties
  <2>3. QED
    BY <1>1, <2>2
<1>3. /\ Rest(s, n) \in Seq(S)
      /\ Len(Rest(s, n)) = Len(s) - n
      /\ \A i \in 1 .. Len(s) - n : Rest(s, n)[i] = s[n + i]
  <2>1. \A i \in n + 1 .. Len(s) : s[i] \in S
    BY <1>1
  <2>2. n + 1 \in Int /\ Len(s) \in Int
    BY <1>1
  <2>3. /\ SubSeq(s, n + 1, Len(s)) \in Seq(S)
        /\ Len(SubSeq(s, n + 1, Len(s))) = IF n + 1 <= Len(s) THEN Len(s) - (n + 1) + 1 ELSE 0
        /\ \A i \in 1 .. Len(s) - (n + 1) + 1 : SubSeq(s, n + 1, Len(s))[i] = s[(n + 1) + i - 1]
    BY <2>1, <2>2, SubSeqProperties
  <2>4. \A i \in Int : (n + 1) + i - 1 = n + i
    OBVIOUS
  <2>5. Len(s) - (n + 1) + 1 = Len(s) - n
    BY <1>1
  <2>6. \A i \in 1 .. Len(s) - n : SubSeq(s, n + 1, Len(s))[i] = s[n + i]
    BY <1>1, <2>3, <2>4, <2>5
  <2>7. QED
    BY <1>1, <2>3, <2>6 DEF Rest
<1>4. SubSeq(s, 1, n) \o Rest(s, n) = s
  <2> DEFINE a == SubSeq(s, 1, n)
             b == Rest(s, n)
  <2>1. /\ a \in Seq(S) /\ b \in Seq(S) /\ Len(a) = n /\ Len(b) = Len(s) - n
        /\ \A i \in 1 .. n : a[i] = s[i]
        /\ \A i \in 1 .. Len(s) - n : b[i] = s[n + i]
    BY <1>2, <1>3
  <2> HIDE DEF a, b
  <2>2. a \o b \in Seq(S) /\ Len(a \o b) = Len(s)
    BY <1>1, <2>1, ConcatProperties
  <2>3. ASSUME NEW i \in 1 .. Len(s)
        PROVE  (a \o b)[i] = s[i]
    <3>1. (a \o b)[i] = IF i <= n THEN a[i] ELSE b[i - n]
      BY <1>1, <2>1, ConcatProperties
    <3>2. CASE i <= n
      BY <2>1, <3>1, <3>2
    <3>3. CASE ~(i <= n)
      <4>1. i - n \in 1 .. Len(s) - n /\ n + (i - n) = i
        BY <1>1, <3>3
      <4>2. QED
        BY <2>1, <3>1, <3>3, <4>1
    <3>4. QED
      BY <3>2, <3>3
  <2>4. QED
    BY <2>2, <2>3, SeqEqual DEF a, b
<1>5. QED
  BY <1>2, <1>3, <1>4

(* The numbers of the bytes in a sequence, and their order. *)
LEMMA ByteParts ==
  ASSUME NEW s \in ByteSeqs, NEW i \in DOMAIN s
  PROVE  s[i] # Stale => s[i] \in Conns \X Nat /\ s[i][1] \in Conns /\ s[i][2] \in Nat
<1>1. s[i] \in (Conns \X Nat) \cup {Stale}
  BY ElementOfSeq, LenProperties DEF ByteSeqs
<1>2. QED
  BY <1>1

LEMMA NumbersType ==
  ASSUME NEW s \in ByteSeqs
  PROVE  /\ Numbers(s) \subseteq Nat
         /\ \A i \in DOMAIN s : s[i] # Stale => s[i][2] \in Numbers(s)
         /\ \A x \in Numbers(s) : \E i \in DOMAIN s : s[i] # Stale /\ s[i][2] = x
<1>1. \A b \in Range(s) \ {Stale} : \E i \in DOMAIN s : s[i] # Stale /\ s[i] = b
  BY Zenon DEF Range
<1>2. \A i \in DOMAIN s : s[i] # Stale => s[i] \in Range(s) \ {Stale}
  BY Zenon DEF Range
<1>3. \A x \in Numbers(s) : \E b \in Range(s) \ {Stale} : b[2] = x
  BY DEF Numbers
<1>4. \A b \in Range(s) \ {Stale} : b[2] \in Numbers(s)
  BY DEF Numbers
<1>5. ASSUME NEW x \in Numbers(s)
      PROVE  \E i \in DOMAIN s : s[i] # Stale /\ s[i][2] = x
  <2>1. PICK b \in Range(s) \ {Stale} : b[2] = x
    BY <1>3
  <2>2. PICK i \in DOMAIN s : s[i] # Stale /\ s[i] = b
    BY <1>1
  <2>3. QED
    BY <2>1, <2>2
<1>6. \A i \in DOMAIN s : s[i] # Stale => s[i][2] \in Numbers(s)
  BY <1>2, <1>4
<1>7. \A x \in Numbers(s) : x \in Nat
  BY <1>5, ByteParts
<1>8. QED
  BY <1>5, <1>6, <1>7

LEMMA NumbersJoined ==
  ASSUME NEW s \in ByteSeqs, NEW t \in ByteSeqs
  PROVE  /\ s \o t \in ByteSeqs
         /\ Numbers(s \o t) = Numbers(s) \cup Numbers(t)
<1>1. s \o t \in ByteSeqs /\ Range(s \o t) = Range(s) \cup Range(t)
  BY Joined DEF ByteSeqs
<1>2. QED
  BY <1>1 DEF Numbers

LEMMA NoBytes ==
  /\ <<>> \in ByteSeqs /\ Len(<<>>) = 0 /\ Numbers(<<>>) = {}
  /\ \A k : InOrder(k, <<>>)
<1>1. <<>> \in ByteSeqs /\ Len(<<>>) = 0 /\ DOMAIN <<>> = {}
  BY EmptySeq, LenProperties DEF ByteSeqs
<1>2. Range(<<>>) = {}
  BY <1>1, Zenon DEF Range
<1>3. QED
  BY <1>1, <1>2 DEF Numbers, InOrder

LEMMA InOrderJoined ==
  ASSUME NEW k, NEW s \in ByteSeqs, NEW t \in ByteSeqs
  PROVE  InOrder(k, s \o t) <=> InOrder(k, s) /\ InOrder(k, t) /\ Below(s, t)
<1> DEFINE u == s \o t
           n == Len(s)
<1>1. /\ n \in Nat /\ DOMAIN s = 1 .. n /\ DOMAIN t = 1 .. Len(t) /\ Len(t) \in Nat
      /\ u \in ByteSeqs /\ DOMAIN u = 1 .. n + Len(t)
      /\ \A i \in DOMAIN s : i \in DOMAIN u /\ u[i] = s[i]
      /\ \A j \in DOMAIN t : n + j \in DOMAIN u /\ u[n + j] = t[j]
      /\ \A i \in DOMAIN u : i > n => i - n \in DOMAIN t /\ u[i] = t[i - n]
  BY Joined DEF ByteSeqs
<1> HIDE DEF u, n
<1>2. ASSUME InOrder(k, u)
      PROVE  InOrder(k, s)
  BY <1>1, <1>2 DEF InOrder
<1>a. ASSUME NEW j \in DOMAIN t
      PROVE  \E b \in DOMAIN u : b = n + j /\ u[b] = t[j] /\ u[b][1] = t[j][1] /\ u[b][2] = t[j][2]
  BY <1>1
<1>3. ASSUME InOrder(k, u)
      PROVE  InOrder(k, t)
  <2> SUFFICES ASSUME NEW i \in DOMAIN t, t[i] # Stale
               PROVE  /\ t[i][1] = k
                      /\ \A j \in 1 .. i - 1 : t[j] # Stale => t[j][2] < t[i][2]
    BY DEF InOrder
  <2>1. PICK b \in DOMAIN u : b = n + i /\ u[b] = t[i] /\ u[b][1] = t[i][1] /\ u[b][2] = t[i][2]
    BY <1>a
  <2>2. u[b][1] = k /\ \A j \in 1 .. b - 1 : u[j] # Stale => u[j][2] < u[b][2]
    BY <1>3, <2>1 DEF InOrder
  <2>3. ASSUME NEW j \in 1 .. i - 1, t[j] # Stale
        PROVE  t[j][2] < t[i][2]
    <3>1. j \in DOMAIN t
      BY <1>1
    <3>2. PICK a \in DOMAIN u : a = n + j /\ u[a] = t[j] /\ u[a][2] = t[j][2]
      BY <1>a, <3>1
    <3>3. a \in 1 .. b - 1 /\ u[a] # Stale
      BY <1>1, <2>1, <2>3, <3>2
    <3>4. u[a][2] < u[b][2]
      BY <2>2, <3>3
    <3>5. QED
      BY <2>1, <3>2, <3>4, Zenon
  <2>4. QED
    BY <2>1, <2>2, <2>3
<1>4. ASSUME InOrder(k, u)
      PROVE  Below(s, t)
  <2> SUFFICES ASSUME NEW x \in Numbers(s), NEW y \in Numbers(t)
               PROVE  x < y
    BY DEF Below
  <2>1. PICK i \in DOMAIN s : s[i] # Stale /\ s[i][2] = x
    BY NumbersType
  <2>2. PICK j \in DOMAIN t : t[j] # Stale /\ t[j][2] = y
    BY NumbersType
  <2>3. PICK b \in DOMAIN u : b = n + j /\ u[b] = t[j] /\ u[b][2] = t[j][2]
    BY <1>a
  <2>4. i \in 1 .. b - 1 /\ u[i] = s[i] /\ u[b] # Stale
    BY <1>1, <2>2, <2>3
  <2>5. \A a \in 1 .. b - 1 : u[a] # Stale => u[a][2] < u[b][2]
    BY <1>4, <2>4 DEF InOrder
  <2>6. u[i] # Stale /\ u[i][2] = x /\ u[b][2] = y
    BY <2>1, <2>2, <2>3, <2>4
  <2>7. u[i][2] < u[b][2]
    BY <2>4, <2>5, <2>6
  <2>8. QED
    BY <2>6, <2>7, Zenon
<1>5. ASSUME InOrder(k, s), InOrder(k, t), Below(s, t)
      PROVE  InOrder(k, u)
  <2> SUFFICES ASSUME NEW i \in DOMAIN u, u[i] # Stale
               PROVE  /\ u[i][1] = k
                      /\ \A j \in 1 .. i - 1 : u[j] # Stale => u[j][2] < u[i][2]
    BY DEF InOrder
  <2>1. CASE i <= n
    <3>1. i \in DOMAIN s /\ u[i] = s[i] /\ \A j \in 1 .. i - 1 : u[j] = s[j]
      BY <1>1, <2>1
    <3>2. QED
      BY <1>5, <3>1 DEF InOrder
  <2>2. CASE i > n
    <3>1. i - n \in DOMAIN t /\ u[i] = t[i - n]
      BY <1>1, <2>2
    <3>2. u[i][1] = k
      BY <1>5, <3>1 DEF InOrder
    <3>3. ASSUME NEW j \in 1 .. i - 1, u[j] # Stale
          PROVE  u[j][2] < u[i][2]
      <4>1. CASE j <= n
        <5>1. j \in DOMAIN s /\ u[j] = s[j]
          BY <1>1, <4>1
        <5>2. u[j][2] \in Numbers(s) /\ u[i][2] \in Numbers(t)
          BY <3>1, <3>3, <5>1, NumbersType
        <5>3. QED
          BY <1>5, <5>2 DEF Below
      <4>2. CASE j > n
        <5>1. j \in DOMAIN u
          BY <1>1
        <5>2. u[j] = t[j - n]
          BY <1>1, <4>2, <5>1
        <5>3. j - n \in 1 .. (i - n) - 1
          BY <1>1, <4>2
        <5>4. QED
          BY <1>5, <3>1, <3>3, <5>2, <5>3 DEF InOrder
      <4>3. QED
        BY <1>1, <4>1, <4>2
    <3>4. QED
      BY <3>2, <3>3
  <2>3. QED
    BY <1>1, <2>1, <2>2
<1>6. QED
  BY <1>2, <1>3, <1>4, <1>5 DEF u

(* A part of a connection's bytes. *)
LEMMA BytesInOrder ==
  ASSUME NEW k \in Conns, NEW first \in Nat, NEW last \in Int, first <= last + 1
  PROVE  InOrder(k, Bytes(k, first, last)) /\ Numbers(Bytes(k, first, last)) = first .. last
<1> DEFINE s == Bytes(k, first, last)
<1>1. /\ s \in ByteSeqs /\ DOMAIN s = 1 .. last - first + 1
      /\ \A i \in 1 .. last - first + 1 : s[i] = <<k, first + i - 1>>
  BY BytesType
<1> HIDE DEF s
<1>2. k # 0
  BY StreamsAssumption DEF Conns
<1>3. \A i \in DOMAIN s : s[i] # Stale /\ s[i][1] = k /\ s[i][2] = first + i - 1
  <2>1. \A i \in DOMAIN s : s[i][1] = k /\ s[i][2] = first + i - 1
    BY <1>1
  <2>2. Stale[1] = 0
    BY DEF Stale
  <2>3. QED
    BY <1>2, <2>1, <2>2
<1>4. InOrder(k, s)
  BY <1>1, <1>3 DEF InOrder
<1>5. \A x \in Numbers(s) : x \in first .. last
  <2> SUFFICES ASSUME NEW x \in Numbers(s) PROVE x \in first .. last
    OBVIOUS
  <2>1. PICK i \in DOMAIN s : s[i][2] = x
    BY <1>1, NumbersType
  <2>2. QED
    BY <1>1, <1>3, <2>1
<1>6. \A x \in first .. last : x \in Numbers(s)
  <2> SUFFICES ASSUME NEW x \in first .. last PROVE x \in Numbers(s)
    OBVIOUS
  <2>1. x - first + 1 \in DOMAIN s
    BY <1>1
  <2>2. s[x - first + 1][2] = x
    BY <1>3, <2>1
  <2>3. QED
    BY <1>1, <1>3, <2>1, <2>2, NumbersType
<1>7. QED
  BY <1>4, <1>5, <1>6 DEF s

LEMMA OneStale ==
  /\ <<Stale>> \in ByteSeqs
  /\ Numbers(<<Stale>>) = {}
  /\ \A k : InOrder(k, <<Stale>>)
<1>1. <<Stale>> \in ByteSeqs
  BY SeqDef, SMT DEF ByteSeqs
<1>2. Range(<<Stale>>) = {Stale}
  BY DEF Range
<1>3. QED
  BY <1>1, <1>2 DEF Numbers, InOrder

-----------------------------------------------------------------------------
(* What the operations do to the two tables. *)
LEMMA NoValuesIn == NoValue \in ClientValues /\ NoValue \in RelayValues
BY DEF ClientValues, RelayValues

LEMMA TypedTables ==
  ASSUME NEW map
  PROVE  /\ map \in Tables(ClientValues) => map \in [Slots -> EntriesOf([conn : Conns, recv : ByteSeqs])]
         /\ map \in Tables(RelayValues) => map \in [Slots -> EntriesOf(Conns)]
BY DEF EntriesOf, Tables, ClientValues, RelayValues

(* A connect puts the new connection in the free home slot. *)
LEMMA ClientInserts ==
  ASSUME TypeOK, TablesOK, Connect
  PROVE  LET id == stream_id'
             s  == id % HASHMAP_AMOUNT
         IN  /\ id \in Nat /\ conns' = conns + 1 /\ conns' \in Conns /\ conns \in Nat
             /\ ~IsHeld(clientMap, id)
             /\ clientMap' \in Tables(ClientValues)
             /\ s \notin Filled(clientMap)
             /\ Filled(clientMap') = Filled(clientMap) \cup {s}
             /\ clientMap'[s].stream_id = id
             /\ clientMap'[s].value = [conn |-> conns', recv |-> <<>>]
             /\ \A i \in Filled(clientMap) : clientMap'[i] = clientMap[i]
             /\ ClientTable'
<1> DEFINE id == stream_id'
           s  == id % HASHMAP_AMOUNT
           v  == [conn |-> conns', recv |-> <<>>]
<1>1. /\ ~Full(clientMap) /\ conns' = conns + 1 /\ conns < MaxConns
      /\ id = gen_stream_id(clientMap, stream_id)
      /\ clientMap' = IF Insertable(clientMap, id) THEN Insert(clientMap, id, v) ELSE clientMap
  BY DEF Connect
<1>2. conns \in 0 .. MaxConns /\ MaxConns \in Nat /\ stream_id \in Nat
  BY StreamsAssumption DEF TypeOK
<1>3. conns' \in Conns /\ conns \in Nat
  BY <1>1, <1>2 DEF Conns
<1>4. id \in Nat /\ clientMap[id % HASHMAP_AMOUNT].entry_type # FILLED
  BY <1>1, <1>2, GenStreamId
<1> HIDE DEF id, v
<1>5. /\ ~IsHeld(clientMap, id) /\ Insertable(clientMap, id)
      /\ InsertSlot(clientMap, id) = s
  BY <1>4, FreeHome DEF TablesOK, ClientTable
<1>6. v \in ClientValues /\ v.conn = conns' /\ v \in [conn : 1 .. conns', recv : ByteSeqs]
  BY <1>1, <1>3, NoBytes DEF v, ClientValues
<1>7. clientMap \in Tables(ClientValues)
  BY TablesTyped
<1> HIDE DEF s
<1>8. /\ clientMap' = Insert(clientMap, id, v)
      /\ clientMap' \in Tables(ClientValues)
      /\ s \in Slots /\ s \notin Filled(clientMap)
      /\ Filled(clientMap') = Filled(clientMap) \cup {s}
      /\ clientMap'[s].stream_id = id /\ clientMap'[s].value = v
      /\ \A i \in Filled(clientMap) : clientMap'[i] = clientMap[i]
  BY <1>1, <1>4, <1>5, <1>6, <1>7, InsertFills
<1>9. HomeOnly(clientMap')
  BY <1>8 DEF HomeOnly, TablesOK, ClientTable, s
<1>10. \A i \in Filled(clientMap') : clientMap'[i].value \in [conn : 1 .. conns', recv : ByteSeqs]
  <2>1. 1 .. conns \subseteq 1 .. conns'
    BY <1>1, <1>3
  <2>2. \A i \in Filled(clientMap) : clientMap[i].value \in [conn : 1 .. conns, recv : ByteSeqs]
    BY DEF TablesOK, ClientTable
  <2>3. QED
    BY <1>6, <1>8, <2>1, <2>2
<1>11. \A i, j \in Filled(clientMap') : clientMap'[i].value.conn = clientMap'[j].value.conn => i = j
  <2>1. \A i \in Filled(clientMap) : clientMap[i].value.conn \in 1 .. conns
    BY DEF TablesOK, ClientTable
  <2>2. \A i \in Filled(clientMap) : clientMap[i].value.conn # conns'
    BY <1>1, <1>3, <2>1
  <2>3. \A i, j \in Filled(clientMap) : clientMap[i].value.conn = clientMap[j].value.conn => i = j
    BY DEF TablesOK, ClientTable
  <2>4. QED
    BY <1>6, <1>8, <2>2, <2>3
<1>12. ClientTable'
  BY <1>9, <1>10, <1>11 DEF ClientTable
<1>13. QED
  BY <1>1, <1>3, <1>4, <1>5, <1>8, <1>12 DEF id, s, v

LEMMA ClientRemoves ==
  ASSUME TypeOK, TablesOK, NEW id \in Nat, clientMap' = Remove(clientMap, id), conns' = conns
  PROVE  /\ clientMap' \in Tables(ClientValues)
         /\ Filled(clientMap') = {i \in Filled(clientMap) : clientMap[i].stream_id # id}
         /\ \A i \in Filled(clientMap') : clientMap'[i] = clientMap[i]
         /\ ClientTable'
<1>1. clientMap \in Tables(ClientValues) /\ Consistent(clientMap)
  BY TablesTyped, ClientFinds
<1>2. /\ clientMap' \in Tables(ClientValues)
      /\ \A i \in Slots, x \in Nat : Holds(clientMap', i, x) <=> Holds(clientMap, i, x) /\ x # id
      /\ \A i \in Slots : clientMap[i].entry_type = FILLED /\ clientMap[i].stream_id # id =>
                             clientMap'[i] = clientMap[i]
  BY <1>1, NoValuesIn, RemoveConsistent
<1>3. \A i \in Slots : clientMap[i].stream_id \in Nat /\ clientMap'[i].stream_id \in Nat
  BY <1>1, <1>2 DEF Tables
<1>4. Filled(clientMap') = {i \in Filled(clientMap) : clientMap[i].stream_id # id}
  <2>1. ASSUME NEW i \in Filled(clientMap')
        PROVE  i \in Filled(clientMap) /\ clientMap[i].stream_id # id
    <3>1. i \in Slots /\ Holds(clientMap', i, clientMap'[i].stream_id)
      BY DEF Filled, Holds
    <3>2. Holds(clientMap, i, clientMap'[i].stream_id) /\ clientMap'[i].stream_id # id
      BY <1>2, <1>3, <3>1
    <3>3. QED
      BY <3>1, <3>2 DEF Filled, Holds
  <2>2. ASSUME NEW i \in Filled(clientMap), clientMap[i].stream_id # id
        PROVE  i \in Filled(clientMap')
    BY <1>2, <2>2 DEF Filled
  <2>3. QED
    BY <2>1, <2>2
<1>5. \A i \in Filled(clientMap') : clientMap'[i] = clientMap[i]
  BY <1>2, <1>4 DEF Filled
<1>6. ClientTable'
  BY <1>4, <1>5 DEF ClientTable, TablesOK, HomeOnly
<1>7. QED
  BY <1>2, <1>4, <1>5, <1>6

LEMMA ClientSets ==
  ASSUME TypeOK, TablesOK, NEW id \in Nat, Found(clientMap, id),
         NEW bytes \in ByteSeqs,
         clientMap' = SetValue(clientMap, id, [FoundValue(clientMap, id) EXCEPT !.recv = bytes]),
         conns' = conns
  PROVE  LET s == FoundSlot(clientMap, id)
         IN  /\ clientMap' \in Tables(ClientValues)
             /\ s \in Filled(clientMap) /\ clientMap[s].stream_id = id
             /\ FoundValue(clientMap, id) = clientMap[s].value
             /\ clientMap[s].value.conn \in Conns
             /\ Filled(clientMap') = Filled(clientMap)
             /\ clientMap'[s].value.recv = bytes
             /\ \A i \in Filled(clientMap) :
                   /\ clientMap'[i].stream_id = clientMap[i].stream_id
                   /\ clientMap'[i].value.conn = clientMap[i].value.conn
                   /\ i # s => clientMap'[i] = clientMap[i]
             /\ ClientTable'
<1> DEFINE s == FoundSlot(clientMap, id)
           v == [FoundValue(clientMap, id) EXCEPT !.recv = bytes]
<1>1. FoundValue(clientMap, id) \in [conn : 1 .. conns, recv : ByteSeqs]
  BY ClientFinds
<1>2. /\ v.recv = bytes /\ v.conn = FoundValue(clientMap, id).conn
      /\ v \in [conn : 1 .. conns, recv : ByteSeqs]
      /\ v.conn \in 1 .. conns
  BY <1>1
<1>3. conns \in 0 .. MaxConns /\ MaxConns \in Nat
  BY StreamsAssumption DEF TypeOK
<1>4. 1 .. conns \subseteq Conns
  BY <1>3 DEF Conns
<1>5. v \in ClientValues
  BY <1>2, <1>4 DEF ClientValues
<1>6. FoundValue(clientMap, id) = clientMap[s].value
  BY DEF FoundValue
<1> HIDE DEF s, v
<1>7. /\ clientMap' \in Tables(ClientValues)
      /\ s \in Filled(clientMap) /\ clientMap[s].stream_id = id
      /\ Filled(clientMap') = Filled(clientMap)
      /\ clientMap'[s].value = v
      /\ \A i \in Slots : /\ clientMap'[i].stream_id = clientMap[i].stream_id
                          /\ i # s => clientMap'[i] = clientMap[i]
  <2>1. clientMap' = SetValue(clientMap, id, v)
    BY DEF v
  <2>2. clientMap \in Tables(ClientValues)
    BY TablesTyped
  <2> DEFINE new == SetValue(clientMap, id, v)
  <2>3. /\ new \in Tables(ClientValues)
        /\ s \in Filled(clientMap) /\ clientMap[s].stream_id = id
        /\ Filled(new) = Filled(clientMap)
        /\ new[s].value = v
        /\ \A i \in Slots : /\ new[i].stream_id = clientMap[i].stream_id
                            /\ i # s => new[i] = clientMap[i]
    BY <1>5, <2>2, SetValueKeeps DEF s
  <2> HIDE DEF new
  <2>4. clientMap' = new
    BY <2>1 DEF new
  <2>5. QED
    BY <2>3, <2>4
<1>8. \A i \in Filled(clientMap) : i \in Slots
  BY DEF Filled
<1>9. \A i \in Filled(clientMap) :
         /\ clientMap'[i].stream_id = clientMap[i].stream_id
         /\ clientMap'[i].value.conn = clientMap[i].value.conn
         /\ i # s => clientMap'[i] = clientMap[i]
  BY <1>2, <1>6, <1>7, <1>8
<1>10. ClientTable'
  <2>1. HomeOnly(clientMap')
    BY <1>7, <1>9 DEF TablesOK, ClientTable, HomeOnly
  <2>2. \A i \in Filled(clientMap') : clientMap'[i].value \in [conn : 1 .. conns', recv : ByteSeqs]
    <3>1. \A i \in Filled(clientMap) : clientMap[i].value \in [conn : 1 .. conns, recv : ByteSeqs]
      BY DEF TablesOK, ClientTable
    <3>2. ASSUME NEW i \in Filled(clientMap)
          PROVE  clientMap'[i].value = v \/ clientMap'[i].value = clientMap[i].value
      BY <1>7, <1>9
    <3>3. v \in [conn : 1 .. conns', recv : ByteSeqs] /\ conns' = conns
      BY <1>2
    <3>4. QED
      BY <1>7, <3>1, <3>2, <3>3
  <2>3. \A i, j \in Filled(clientMap') :
           clientMap'[i].value.conn = clientMap'[j].value.conn => i = j
    BY <1>7, <1>9 DEF TablesOK, ClientTable
  <2>4. QED
    BY <2>1, <2>2, <2>3 DEF ClientTable
<1>11. QED
  BY <1>1, <1>2, <1>4, <1>6, <1>7, <1>9, <1>10 DEF s

(* handle_relay_begin's entry: the socket is new. *)
LEMMA RelayInserts ==
  ASSUME TypeOK, TablesOK, NEW id \in Nat, NEW k \in 1 .. conns, server[k] = "none",
         Insertable(relayMap, id), relayMap' = Insert(relayMap, id, k),
         epoll' = epoll \cup {[sock |-> k, stream_id |-> id]},
         server' = [server EXCEPT ![k] = "open"], conns' = conns
  PROVE  LET s == InsertSlot(relayMap, id)
         IN  /\ relayMap' \in Tables(RelayValues)
             /\ s \notin Filled(relayMap)
             /\ Filled(relayMap') = Filled(relayMap) \cup {s}
             /\ relayMap'[s].stream_id = id /\ relayMap'[s].value = k
             /\ \A i \in Filled(relayMap) : relayMap'[i] = relayMap[i] /\ relayMap[i].value # k
             /\ RelayTable' /\ Waiting'
<1> DEFINE s == InsertSlot(relayMap, id)
<1>1. k \in Conns /\ server \in [Conns -> {"none", "open", "fin", "reset", "closed"}]
      /\ 1 .. conns \subseteq Conns
  BY StreamsAssumption DEF TypeOK, Conns
<1>2. k \in RelayValues /\ relayMap \in Tables(RelayValues)
  BY <1>1, TablesTyped DEF RelayValues
<1>3. /\ relayMap' \in Tables(RelayValues)
      /\ s \notin Filled(relayMap)
      /\ Filled(relayMap') = Filled(relayMap) \cup {s}
      /\ relayMap'[s].stream_id = id /\ relayMap'[s].value = k
      /\ \A i \in Filled(relayMap) : relayMap'[i] = relayMap[i]
  BY <1>2, InsertFills
<1>4. Reachable(relayMap')
  BY <1>2, InsertReachable DEF TablesOK, RelayTable
<1> HIDE DEF s
<1>5. \A i \in Filled(relayMap) :
         /\ relayMap[i].value \in 1 .. conns
         /\ server[relayMap[i].value] \in {"open", "fin", "reset"}
         /\ relayMap[i].value # k
  BY DEF TablesOK, RelayTable
<1>6. \A i \in Filled(relayMap') :
         /\ relayMap'[i].value \in 1 .. conns'
         /\ server'[relayMap'[i].value] \in {"open", "fin", "reset"}
  BY <1>1, <1>3, <1>5
<1>7. \A i, j \in Filled(relayMap') : relayMap'[i].value = relayMap'[j].value => i = j
  BY <1>3, <1>5 DEF TablesOK, RelayTable
<1>8. Waiting'
  <2> DEFINE E(map, i) == [sock |-> map[i].value, stream_id |-> map[i].stream_id]
  <2>1. epoll = {E(relayMap, i) : i \in Filled(relayMap)}
    BY DEF TablesOK, Waiting
  <2>2. E(relayMap', s) = [sock |-> k, stream_id |-> id]
    BY <1>3
  <2>3. \A i \in Filled(relayMap) : E(relayMap', i) = E(relayMap, i)
    BY <1>3
  <2> HIDE DEF E
  <2>4. epoll' = {E(relayMap', i) : i \in Filled(relayMap')}
    BY <1>3, <2>1, <2>2, <2>3
  <2>5. QED
    BY <2>4 DEF Waiting, E
<1>9. QED
  BY <1>3, <1>4, <1>5, <1>6, <1>7, <1>8 DEF RelayTable, s

(* Closing the socket that is found for a stream: one entry goes, with its *)
(* socket. *)
LEMMA RelayCloses ==
  ASSUME TypeOK, TablesOK, NEW id \in Nat, Found(relayMap, id), CloseSocket(id), conns' = conns
  PROVE  LET s == FoundSlot(relayMap, id)
             k == FoundValue(relayMap, id)
         IN  /\ relayMap' \in Tables(RelayValues)
             /\ s \in Filled(relayMap) /\ relayMap[s].stream_id = id /\ relayMap[s].value = k
             /\ k \in 1 .. conns /\ k \in Conns
             /\ Filled(relayMap') = Filled(relayMap) \ {s}
             /\ \A i \in Filled(relayMap') :
                   /\ relayMap'[i] = relayMap[i]
                   /\ relayMap[i].value # k
                   /\ server'[relayMap[i].value] = server[relayMap[i].value]
             /\ server' \in [Conns -> {"none", "open", "fin", "reset", "closed"}]
             /\ server[k] \in {"open", "fin", "reset"} /\ server'[k] = "closed"
             /\ \A j \in Conns : j # k => server'[j] = server[j] /\ inbox'[j] = inbox[j]
             /\ inbox' \in [Conns -> ByteSeqs] /\ inbox'[k] = <<>>
             /\ epoll' \subseteq epoll
             /\ RelayTable' /\ Waiting'
<1> DEFINE s == FoundSlot(relayMap, id)
           k == FoundValue(relayMap, id)
<1>1. /\ epoll' = {entry \in epoll : entry.sock # k}
      /\ server' = [server EXCEPT ![k] = "closed"]
      /\ inbox' = [inbox EXCEPT ![k] = <<>>]
      /\ relayMap' = Remove(relayMap, id)
  BY DEF CloseSocket
<1>2. /\ 1 .. conns \subseteq Conns
      /\ server \in [Conns -> {"none", "open", "fin", "reset", "closed"}]
      /\ inbox \in [Conns -> ByteSeqs]
  BY StreamsAssumption DEF TypeOK, Conns
<1>3. /\ s \in Filled(relayMap) /\ relayMap[s].stream_id = id /\ relayMap[s].value = k
      /\ k \in 1 .. conns /\ k \in Conns
  BY <1>2, RelayFinds
<1>4. relayMap \in Tables(RelayValues)
  BY TablesTyped
<1>5. /\ relayMap' \in Tables(RelayValues)
      /\ Filled(relayMap') = Filled(relayMap) \ {s}
      /\ \A i \in Filled(relayMap') : relayMap'[i] = relayMap[i]
  BY <1>1, <1>4, NoValuesIn, RemoveFrees
<1>6. Reachable(relayMap')
  BY <1>1, <1>4, NoValuesIn, RemoveReachable DEF TablesOK, RelayTable
<1> HIDE DEF s, k
<1>7. \A i \in Filled(relayMap) :
         /\ relayMap[i].value \in 1 .. conns
         /\ server[relayMap[i].value] \in {"open", "fin", "reset"}
         /\ relayMap[i].value = k => i = s
  BY <1>3 DEF TablesOK, RelayTable
<1>8. /\ server' \in [Conns -> {"none", "open", "fin", "reset", "closed"}]
      /\ server'[k] = "closed" /\ inbox' \in [Conns -> ByteSeqs] /\ inbox'[k] = <<>>
      /\ \A j \in Conns : j # k => server'[j] = server[j] /\ inbox'[j] = inbox[j]
  BY <1>1, <1>2, <1>3, NoBytes
<1>9. \A i \in Filled(relayMap') :
         /\ relayMap'[i] = relayMap[i]
         /\ relayMap[i].value # k
         /\ server'[relayMap[i].value] = server[relayMap[i].value]
  BY <1>2, <1>5, <1>7, <1>8
<1>10. RelayTable'
  <2>1. \A i \in Filled(relayMap') :
           /\ relayMap'[i].value \in 1 .. conns'
           /\ server'[relayMap'[i].value] \in {"open", "fin", "reset"}
    BY <1>5, <1>7, <1>9
  <2>2. \A i, j \in Filled(relayMap') : relayMap'[i].value = relayMap'[j].value => i = j
    BY <1>5 DEF TablesOK, RelayTable
  <2>3. QED
    BY <1>6, <2>1, <2>2 DEF RelayTable
<1>11. Waiting'
  <2> DEFINE E(map, i) == [sock |-> map[i].value, stream_id |-> map[i].stream_id]
  <2>1. epoll = {E(relayMap, i) : i \in Filled(relayMap)}
    BY DEF TablesOK, Waiting
  <2>2. \A i \in Filled(relayMap') : E(relayMap', i) = E(relayMap, i)
    BY <1>5
  <2>3. \A i \in Filled(relayMap) : E(relayMap, i).sock = relayMap[i].value
    OBVIOUS
  <2> HIDE DEF E
  <2>4. \A i \in Filled(relayMap) : E(relayMap, i).sock # k <=> i # s
    BY <1>3, <1>7, <2>3
  <2>5. epoll' = {E(relayMap', i) : i \in Filled(relayMap')}
    BY <1>1, <1>5, <2>1, <2>2, <2>4
  <2>6. QED
    BY <2>5 DEF Waiting, E
<1>12. QED
  BY <1>1, <1>3, <1>5, <1>7, <1>8, <1>9, <1>10, <1>11 DEF s, k

-----------------------------------------------------------------------------
(* Every step keeps the types, and no message is longer than its data. *)
LEMMA MsgIsWhole ==
  ASSUME NEW cmd \in {"BEGIN", "CONNECTED", "DATA", "END"}, NEW id \in Nat, NEW k \in 0 .. MaxConns
  PROVE  Msg(cmd, id, k) \in Messages /\ Msg(cmd, id, k).length <= Len(Msg(cmd, id, k).data)
<1>1. Msg(cmd, id, k).length = 0 /\ Msg(cmd, id, k).data = <<>>
  BY DEF Msg
<1>2. QED
  BY <1>1, MsgType, NoBytes

LEMMA MessageParts ==
  ASSUME NEW m \in Messages
  PROVE  /\ m.cmd \in {"BEGIN", "CONNECTED", "DATA", "END"}
         /\ m.stream_id \in Nat /\ m.conn \in 0 .. MaxConns
         /\ m.length \in Nat /\ m.data \in ByteSeqs /\ Len(m.data) \in Nat
<1>1. RELAY_DATA_MSG_SIZE \in Nat
  BY StreamsAssumption
<1>2. m.data \in ByteSeqs /\ m.length \in 0 .. RELAY_DATA_MSG_SIZE
      /\ m.cmd \in {"BEGIN", "CONNECTED", "DATA", "END"}
      /\ m.stream_id \in Nat /\ m.conn \in 0 .. MaxConns
  BY DEF Messages
<1>3. Len(m.data) \in Nat
  BY <1>2, LenProperties DEF ByteSeqs
<1>4. QED
  BY <1>1, <1>2, <1>3

LEMMA QueueTaken ==
  ASSUME NEW q \in Seq(Messages), q # <<>>, Whole(q)
  PROVE  /\ Tail(q) \in Seq(Messages) /\ Whole(Tail(q))
         /\ Head(q) \in Messages /\ Head(q).length <= Len(Head(q).data)
BY Taken DEF Whole

LEMMA QueueAdded ==
  ASSUME NEW q \in Seq(Messages), Whole(q), NEW m \in Messages, m.length <= Len(m.data)
  PROVE  Append(q, m) \in Seq(Messages) /\ Whole(Append(q, m))
BY Added DEF Whole

LEMMA RelayReadsTypes ==
  ASSUME TypeOK, TablesOK, NEW cmd, RelayReads(cmd)
  PROVE  LET m == Head(toRelay)
         IN  /\ toRelay' \in Seq(Messages) /\ Whole(toRelay')
             /\ m \in Messages /\ m.stream_id \in Nat /\ m.conn \in 0 .. MaxConns
             /\ m.length \in Nat /\ m.length <= Len(m.data) /\ m.data \in ByteSeqs
             /\ m.cmd = cmd /\ m \in Mentions(toRelay, cmd)
<1>1. toRelay \in Seq(Messages) /\ Whole(toRelay)
  BY DEF TypeOK, TablesOK
<1>2. toRelay # <<>> /\ Head(toRelay).cmd = cmd /\ toRelay' = Tail(toRelay)
  BY DEF RelayReads
<1>3. /\ Tail(toRelay) \in Seq(Messages) /\ Whole(Tail(toRelay))
      /\ Head(toRelay) \in Messages /\ Head(toRelay).length <= Len(Head(toRelay).data)
  BY <1>1, <1>2, QueueTaken
<1>4. Head(toRelay) \in Mentions(toRelay, cmd)
  BY <1>1, <1>2, Taken DEF Mentions
<1>5. QED
  BY <1>2, <1>3, <1>4, MessageParts

LEMMA ReplyTypes ==
  ASSUME TypeOK, TablesOK, NEW m \in Messages, m.length <= Len(m.data), Replies(m)
  PROVE  toClient' \in Seq(Messages) /\ Whole(toClient')
BY QueueAdded, SMTT(30) DEF Replies, TypeOK, TablesOK

(* What the user takes from a stream's buffer. *)
LEMMA Receiving ==
  ASSUME TypeOK, TablesOK, NEW id \in Nat, NEW length \in Lengths, Recv(id, length)
  PROVE  \E s \in Filled(clientMap), taken \in ByteSeqs, rest \in ByteSeqs :
            LET k == clientMap[s].value.conn
            IN  /\ k \in 1 .. conns /\ k \in Conns
                /\ clientMap[s].value.recv = taken \o rest
                /\ got' = [got EXCEPT ![k] = got[k] \o taken]
                /\ clientMap' \in Tables(ClientValues)
                /\ Filled(clientMap') = Filled(clientMap)
                /\ clientMap'[s].value.recv = rest
                /\ \A i \in Filled(clientMap) :
                      /\ clientMap'[i].stream_id = clientMap[i].stream_id
                      /\ clientMap'[i].value.conn = clientMap[i].value.conn
                      /\ i # s => clientMap'[i] = clientMap[i]
                /\ ClientTable'
                /\ UNCHANGED <<client, stream_id, conns, sent, hasty, toRelay, toClient,
                               relay, relayMap, epoll, server, inbox, produced, served>>
<1> DEFINE entry == FoundValue(clientMap, id)
           amount == IF Len(entry.recv) < length THEN Len(entry.recv) ELSE length
           s == FoundSlot(clientMap, id)
<1>1. length \in Nat
  BY StreamsAssumption
<1>2. /\ Found(clientMap, id)
      /\ got' = [got EXCEPT ![entry.conn] = got[entry.conn] \o SubSeq(entry.recv, 1, amount)]
      /\ clientMap' = SetValue(clientMap, id, [entry EXCEPT !.recv = Rest(entry.recv, amount)])
      /\ UNCHANGED <<client, stream_id, conns, sent, hasty, toRelay, toClient,
                     relay, relayMap, epoll, server, inbox, produced, served>>
  <2>1. [entry EXCEPT !.recv = Rest(@, amount)] = [entry EXCEPT !.recv = Rest(entry.recv, amount)]
    OBVIOUS
  <2>2. QED
    BY <2>1 DEF Recv, relayVars, serverVars
<1>3. entry.recv \in ByteSeqs /\ entry.conn \in 1 .. conns /\ entry.conn \in Conns
  BY <1>2, ClientFinds, ConnsBound
<1>4. amount \in 0 .. Len(entry.recv)
  <2>1. Len(entry.recv) \in Nat
    BY <1>3, LenProperties DEF ByteSeqs
  <2>2. QED
    BY <1>1, <2>1
<1> HIDE DEF amount
<1>5. /\ SubSeq(entry.recv, 1, amount) \in ByteSeqs /\ Rest(entry.recv, amount) \in ByteSeqs
      /\ SubSeq(entry.recv, 1, amount) \o Rest(entry.recv, amount) = entry.recv
  BY <1>3, <1>4, CutOff DEF ByteSeqs
<1>6. /\ clientMap' \in Tables(ClientValues)
      /\ s \in Filled(clientMap) /\ entry = clientMap[s].value
      /\ Filled(clientMap') = Filled(clientMap)
      /\ clientMap'[s].value.recv = Rest(entry.recv, amount)
      /\ \A i \in Filled(clientMap) :
            /\ clientMap'[i].stream_id = clientMap[i].stream_id
            /\ clientMap'[i].value.conn = clientMap[i].value.conn
            /\ i # s => clientMap'[i] = clientMap[i]
      /\ ClientTable'
  BY <1>2, <1>5, ClientSets
<1> HIDE DEF entry, s
<1>7. QED
  BY <1>2, <1>3, <1>5, <1>6

LEMMA UserTypesKept ==
  ASSUME TypeOK, TablesOK, UserStep
  PROVE  TypeOK' /\ Whole(toRelay') /\ Whole(toClient')
<1>1. stream_id \in Nat /\ toRelay \in Seq(Messages) /\ toClient \in Seq(Messages)
      /\ Whole(toRelay) /\ Whole(toClient) /\ MaxConns \in Nat /\ conns \in 0 .. MaxConns
  BY StreamsAssumption DEF TypeOK, TablesOK
<1>2. CASE Connect
  <2>1. /\ stream_id' \in Nat /\ conns' \in Conns
        /\ clientMap' \in [Slots -> EntriesOf([conn : Conns, recv : ByteSeqs])]
    BY <1>2, ClientInserts, TypedTables
  <2>2. conns' \in 0 .. MaxConns
    BY <2>1, <1>1 DEF Conns
  <2>3. toRelay' \in Seq(Messages) /\ Whole(toRelay')
    <3>1. toRelay' = Append(toRelay, Msg("BEGIN", stream_id', conns'))
      BY <1>2 DEF Connect
    <3>2. QED
      BY <1>1, <2>1, <2>2, <3>1, MsgIsWhole, QueueAdded
  <2>4. /\ UNCHANGED <<client, sent, got, toClient, relay, relayMap, epoll, server, inbox,
                       produced, served>>
        /\ hasty' \in 0 .. MaxHasty
    <3>1. hasty \in 0 .. MaxHasty /\ MaxHasty \in Nat
      BY StreamsAssumption DEF TypeOK
    <3>2. hasty' = (IF Quiet THEN hasty ELSE hasty + 1) /\ hasty' <= MaxHasty
      BY <1>2 DEF Connect
    <3>3. hasty' \in 0 .. MaxHasty
      BY <3>1, <3>2
    <3>4. QED
      BY <1>2, <3>3 DEF Connect, relayVars, serverVars
  <2>5. QED
    BY <1>1, <2>1, <2>2, <2>3, <2>4 DEF TypeOK
<1>3. CASE ConnectHangs
  BY <1>1, <1>3 DEF ConnectHangs, TypeOK, relayVars, serverVars
<1>4. ASSUME NEW id \in Issued, Close(id)
      PROVE  TypeOK' /\ Whole(toRelay') /\ Whole(toClient')
  <2>1. id \in Nat
    BY <1>1 DEF Issued
  <2>2. /\ toRelay' = Append(toRelay, Msg("END", id, 0))
        /\ clientMap' = Remove(clientMap, id)
        /\ UNCHANGED <<client, stream_id, conns, sent, got, hasty, toClient,
                       relay, relayMap, epoll, server, inbox, produced, served>>
    BY <1>4 DEF Close, relayVars, serverVars
  <2>3. toRelay' \in Seq(Messages) /\ Whole(toRelay')
    <3>1. 0 \in 0 .. MaxConns
      BY <1>1
    <3>2. Msg("END", id, 0) \in Messages /\ Msg("END", id, 0).length <= Len(Msg("END", id, 0).data)
      BY <2>1, <3>1, MsgIsWhole
    <3>3. QED
      BY <1>1, <2>2, <3>2, QueueAdded
  <2>4. clientMap' \in [Slots -> EntriesOf([conn : Conns, recv : ByteSeqs])]
    BY <2>1, <2>2, ClientRemoves, TypedTables
  <2>5. QED
    BY <1>1, <2>2, <2>3, <2>4 DEF TypeOK
<1>5. ASSUME NEW id \in Issued, NEW length \in Lengths, Send(id, length)
      PROVE  TypeOK' /\ Whole(toRelay') /\ Whole(toClient')
  <2>1. id \in Nat
    BY <1>1 DEF Issued
  <2>2. PICK i \in Filled(clientMap), L \in Nat, added \in Seq(Messages) :
            LET k == clientMap[i].value.conn
            IN  /\ k \in 1 .. conns
                /\ sent[k] + L <= MaxSent
                /\ sent' = [sent EXCEPT ![k] = sent[k] + L]
                /\ toRelay' = toRelay \o added
                /\ Sent(added, id, k, sent[k] + 1, sent[k] + L)
    BY <1>5, <2>1, Sending
  <2> DEFINE k == clientMap[i].value.conn
  <2>3. k \in Conns
    BY <1>1, <2>2 DEF Conns
  <2>4. sent' \in [Conns -> 0 .. MaxSent]
    <3>1. sent \in [Conns -> 0 .. MaxSent] /\ MaxSent \in Nat
      BY StreamsAssumption DEF TypeOK
    <3>2. sent[k] + L \in 0 .. MaxSent
      BY <2>2, <2>3, <3>1
    <3>3. QED
      BY <2>2, <2>3, <3>1, <3>2
  <2>5. Whole(added)
    <3>1. ASSUME NEW n \in DOMAIN added
          PROVE  added[n].length <= Len(added[n].data)
      <4> DEFINE m == added[n]
      <4>1. m \in Messages /\ IsUp(m)
        BY <2>2, ElementOfSeq, LenProperties DEF Sent
      <4> HIDE DEF m
      <4>2. /\ m.conn \in Conns /\ m.length \in Nat /\ m.length >= 1 /\ From(m) \in Nat
            /\ m.data = Bytes(m.conn, From(m), To(m)) /\ To(m) = From(m) + m.length - 1
        BY <4>1, MessageParts DEF IsUp, To
      <4>3. Len(m.data) = To(m) - From(m) + 1
        <5>1. To(m) \in Int /\ From(m) <= To(m) + 1
          BY <4>2
        <5>2. Len(Bytes(m.conn, From(m), To(m))) = To(m) - From(m) + 1
          BY <4>2, <5>1, BytesType
        <5>3. QED
          BY <4>2, <5>2, Zenon
      <4>4. m.length <= Len(m.data)
        BY <4>2, <4>3
      <4>5. QED
        BY <4>4 DEF m
    <3>2. QED
      BY <3>1 DEF Whole, Range
  <2>6. toRelay' \in Seq(Messages) /\ Whole(toRelay')
    BY <1>1, <2>2, <2>5, Joined, SMTT(30) DEF Whole
  <2>7. UNCHANGED <<client, clientMap, stream_id, conns, got, hasty, toClient,
                    relay, relayMap, epoll, server, inbox, produced, served>>
    BY <1>5 DEF Send, relayVars, serverVars
  <2>8. QED
    BY <1>1, <2>4, <2>6, <2>7 DEF TypeOK
<1>6. ASSUME NEW id \in Issued, NEW length \in Lengths, Recv(id, length)
      PROVE  TypeOK' /\ Whole(toRelay') /\ Whole(toClient')
  <2>1. id \in Nat
    BY <1>1 DEF Issued
  <2>2. PICK s \in Filled(clientMap), taken \in ByteSeqs, rest \in ByteSeqs :
            /\ clientMap[s].value.conn \in Conns
            /\ got' = [got EXCEPT ![clientMap[s].value.conn] = got[clientMap[s].value.conn] \o taken]
            /\ clientMap' \in Tables(ClientValues)
            /\ UNCHANGED <<client, stream_id, conns, sent, hasty, toRelay, toClient,
                           relay, relayMap, epoll, server, inbox, produced, served>>
    BY <1>6, <2>1, Receiving
  <2>3. got' \in [Conns -> ByteSeqs]
    <3>1. got \in [Conns -> ByteSeqs]
      BY DEF TypeOK
    <3>2. got[clientMap[s].value.conn] \o taken \in ByteSeqs
      BY <2>2, <3>1, NumbersJoined
    <3>3. QED
      BY <2>2, <3>1, <3>2
  <2>4. clientMap' \in [Slots -> EntriesOf([conn : Conns, recv : ByteSeqs])]
    BY <2>2, TypedTables
  <2>5. QED
    BY <1>1, <2>2, <2>3, <2>4 DEF TypeOK
<1>7. QED
  BY <1>2, <1>3, <1>4, <1>5, <1>6 DEF UserStep

(* The client's reading of a message, by what it is. *)
ClientHears(m) ==
    \/ /\ m.cmd = "CONNECTED" \/ (m.cmd = "DATA" /\ ~Found(clientMap, m.stream_id))
       /\ UNCHANGED clientMap
    \/ /\ m.cmd = "END"
       /\ clientMap' = Remove(clientMap, m.stream_id)
    \/ /\ m.cmd = "DATA" /\ Found(clientMap, m.stream_id)
       /\ clientMap' = SetValue(clientMap, m.stream_id,
             [FoundValue(clientMap, m.stream_id) EXCEPT !.recv =
                FoundValue(clientMap, m.stream_id).recv \o SubSeq(m.data, 1, m.length)])

LEMMA ClientReceiving ==
  ASSUME TypeOK, TablesOK, ClientReceives
  PROVE  LET m == Head(toClient)
         IN  /\ toClient # <<>> /\ toClient' = Tail(toClient)
             /\ toClient' \in Seq(Messages) /\ Whole(toClient')
             /\ m \in Messages /\ m.stream_id \in Nat /\ m.length \in 0 .. Len(m.data)
             /\ m.data \in ByteSeqs /\ SubSeq(m.data, 1, m.length) \in ByteSeqs
             /\ ClientHears(m)
             /\ m.cmd = "DATA" /\ Found(clientMap, m.stream_id) =>
                   FoundValue(clientMap, m.stream_id).recv \o SubSeq(m.data, 1, m.length) \in ByteSeqs
             /\ client' \in {client, "ended"}
             /\ UNCHANGED <<stream_id, conns, sent, got, hasty, toRelay, relay, relayMap, epoll,
                            server, inbox, produced, served>>
<1> DEFINE m == Head(toClient)
<1>1. /\ toClient \in Seq(Messages) /\ Whole(toClient)
      /\ toClient # <<>> /\ toClient' = Tail(toClient)
  BY DEF TypeOK, TablesOK, ClientReceives
<1>2. /\ toClient' \in Seq(Messages) /\ Whole(toClient')
      /\ m \in Messages /\ m.length <= Len(m.data)
  BY <1>1, QueueTaken
<1>3. /\ m.stream_id \in Nat /\ m.data \in ByteSeqs /\ m.length \in 0 .. Len(m.data)
  BY <1>2, MessageParts
<1>4. SubSeq(m.data, 1, m.length) \in ByteSeqs
  BY <1>3, CutOff DEF ByteSeqs
<1>5. Found(clientMap, m.stream_id) =>
         FoundValue(clientMap, m.stream_id).recv \o SubSeq(m.data, 1, m.length) \in ByteSeqs
  <2>1. Found(clientMap, m.stream_id) => FoundValue(clientMap, m.stream_id).recv \in ByteSeqs
    BY <1>3, ClientFinds
  <2>2. QED
    BY <1>4, <2>1, NumbersJoined
<1>6. ClientHears(m) /\ client' \in {client, "ended"}
  <2> DEFINE entry == FoundValue(clientMap, m.stream_id)
  <2>1. [entry EXCEPT !.recv = @ \o SubSeq(m.data, 1, m.length)]
           = [entry EXCEPT !.recv = entry.recv \o SubSeq(m.data, 1, m.length)]
    OBVIOUS
  <2>2. QED
    BY <2>1 DEF ClientReceives, ClientHears
<1>7. UNCHANGED <<stream_id, conns, sent, got, hasty, toRelay, relay, relayMap, epoll,
                  server, inbox, produced, served>>
  BY DEF ClientReceives, relayVars, serverVars
<1>8. QED
  BY <1>1, <1>2, <1>3, <1>4, <1>5, <1>6, <1>7

LEMMA ClientTypesKept ==
  ASSUME TypeOK, TablesOK, ClientStep
  PROVE  TypeOK' /\ Whole(toRelay') /\ Whole(toClient')
<1> DEFINE m == Head(toClient)
<1>1. /\ toClient' \in Seq(Messages) /\ Whole(toClient')
      /\ m.stream_id \in Nat
      /\ ClientHears(m)
      /\ m.cmd = "DATA" /\ Found(clientMap, m.stream_id) =>
            FoundValue(clientMap, m.stream_id).recv \o SubSeq(m.data, 1, m.length) \in ByteSeqs
      /\ client' \in {client, "ended"}
      /\ UNCHANGED <<stream_id, conns, sent, got, hasty, toRelay, relay, relayMap, epoll,
                     server, inbox, produced, served>>
  BY ClientReceiving DEF ClientStep
<1> HIDE DEF m
<1>2. clientMap' \in Tables(ClientValues)
  <2>1. CASE UNCHANGED clientMap
    BY <2>1, TablesTyped
  <2>2. CASE clientMap' = Remove(clientMap, m.stream_id)
    BY <1>1, <2>2, ClientRemoves
  <2>3. CASE /\ m.cmd = "DATA" /\ Found(clientMap, m.stream_id)
             /\ clientMap' = SetValue(clientMap, m.stream_id,
                   [FoundValue(clientMap, m.stream_id) EXCEPT !.recv =
                      FoundValue(clientMap, m.stream_id).recv \o SubSeq(m.data, 1, m.length)])
    BY <1>1, <2>3, ClientSets
  <2>4. QED
    BY <1>1, <2>1, <2>2, <2>3 DEF ClientHears
<1>3. clientMap' \in [Slots -> EntriesOf([conn : Conns, recv : ByteSeqs])]
  BY <1>2, TypedTables
<1>4. client' \in {"running", "ended", "hung"} /\ Whole(toRelay')
  BY <1>1 DEF TypeOK, TablesOK
<1>5. QED
  BY <1>1, <1>3, <1>4 DEF TypeOK

(* The socket of an entry, and what the relay replies. *)
LEMMA RelayBeginEffect ==
  ASSUME TypeOK, TablesOK, RelayBegin
  PROVE  LET id == Head(toRelay).stream_id
             k  == Head(toRelay).conn
         IN  /\ id \in Nat /\ k \in 1 .. conns /\ k \in Conns /\ server[k] = "none"
             /\ \/ /\ toClient' = Append(toClient, Msg("END", id, k))
                   /\ server' \in {server, [server EXCEPT ![k] = "open"]}
                   /\ UNCHANGED <<relayMap, epoll>>
                \/ /\ toClient' = Append(toClient, Msg("CONNECTED", id, k))
                   /\ server' = [server EXCEPT ![k] = "open"]
                   /\ Insertable(relayMap, id)
                   /\ relayMap' = Insert(relayMap, id, k)
                   /\ epoll' = epoll \cup {[sock |-> k, stream_id |-> id]}
             /\ UNCHANGED <<client, clientMap, stream_id, conns, sent, got, hasty,
                            relay, inbox, produced, served>>
<1> DEFINE b == Head(toRelay)
<1>1. b \in Mentions(toRelay, "BEGIN") /\ b.stream_id \in Nat
  BY RelayReadsTypes DEF RelayBegin
<1>2. b.conn \in 1 .. conns /\ server[b.conn] = "none"
  BY <1>1 DEF TablesOK, BeginsNew
<1>3. b.conn \in Conns
  BY <1>2, StreamsAssumption DEF TypeOK, Conns
<1>4. QED
  BY <1>1, <1>2, <1>3 DEF RelayBegin, Replies, clientVars

(* An event's identifier is always in the table; what was read goes to the *)
(* client behind one byte that does not belong to the stream. *)
DataMsg(id, k, bytes, size) ==
    [Msg("DATA", id, k) EXCEPT !.data = <<Stale>> \o bytes, !.length = size]

LEMMA RelayInternetEffect ==
  ASSUME TypeOK, TablesOK, NEW event \in epoll, RelayInternet(event)
  PROVE  LET id   == event.stream_id
             k    == FoundValue(relayMap, id)
             size == Piece(Len(inbox[k]))
             m    == DataMsg(id, k, SubSeq(inbox[k], 1, size), size)
         IN  /\ id \in Nat /\ Found(relayMap, id) /\ k \in 1 .. conns /\ k \in Conns
             /\ \/ /\ size \in 1 .. Len(inbox[k]) /\ Len(inbox[k]) \in Nat
                   /\ inbox' = [inbox EXCEPT ![k] = Rest(inbox[k], size)]
                   /\ toClient' = Append(toClient, m)
                   /\ m \in Messages /\ m.length <= Len(m.data)
                   /\ m.cmd = "DATA" /\ m.stream_id = id /\ m.conn = k
                   /\ m.data = <<Stale>> \o SubSeq(inbox[k], 1, size)
                   /\ SubSeq(inbox[k], 1, size) \in ByteSeqs
                   /\ UNCHANGED <<relayMap, epoll, server>>
                \/ /\ inbox[k] = <<>>
                   /\ CloseSocket(id)
                   /\ toClient' = Append(toClient, Msg("END", id, k))
             /\ UNCHANGED <<client, clientMap, stream_id, conns, sent, got, hasty, toRelay,
                            relay, produced, served>>
<1> DEFINE id   == event.stream_id
           k    == FoundValue(relayMap, id)
           size == Piece(Len(inbox[k]))
           m    == DataMsg(id, k, SubSeq(inbox[k], 1, size), size)
<1>1. /\ 1 .. conns \subseteq Conns /\ Conns \subseteq 0 .. MaxConns
      /\ inbox \in [Conns -> ByteSeqs] /\ epoll \subseteq [sock : Conns, stream_id : Nat]
      /\ RELAY_DATA_MSG_SIZE \in Nat
  BY StreamsAssumption, SMTT(30) DEF TypeOK, Conns
<1>2. id \in Nat
  BY <1>1
<1>3. Found(relayMap, id)
  <2>1. PICK i \in Filled(relayMap) :
           event = [sock |-> relayMap[i].value, stream_id |-> relayMap[i].stream_id]
    BY DEF TablesOK, Waiting
  <2>2. relayMap[i].stream_id = id
    BY <2>1
  <2>3. IsHeld(relayMap, id)
    BY <2>2, HeldIsFilled
  <2>4. QED
    BY <1>2, <2>3, RelayFinds
<1>4. k \in 1 .. conns /\ k \in Conns
  BY <1>1, <1>2, <1>3, RelayFinds
<1>5. inbox[k] \in ByteSeqs /\ Len(inbox[k]) \in Nat
  BY <1>1, <1>4, LenProperties DEF ByteSeqs
<1>6. /\ \/ /\ inbox[k] # <<>>
            /\ inbox' = [inbox EXCEPT ![k] = Rest(inbox[k], size)]
            /\ toClient' = Append(toClient, m)
            /\ UNCHANGED <<relayMap, epoll, server, relay>>
         \/ /\ inbox[k] = <<>>
            /\ CloseSocket(id)
            /\ toClient' = Append(toClient, Msg("END", id, k))
            /\ UNCHANGED relay
      /\ UNCHANGED <<client, clientMap, stream_id, conns, sent, got, hasty, toRelay,
                     produced, served>>
  BY <1>3 DEF RelayInternet, Replies, clientVars, DataMsg
<1>7. ASSUME inbox[k] # <<>>
      PROVE  /\ size \in 1 .. Len(inbox[k])
             /\ m \in Messages /\ m.length <= Len(m.data)
             /\ m.cmd = "DATA" /\ m.stream_id = id /\ m.conn = k
             /\ m.data = <<Stale>> \o SubSeq(inbox[k], 1, size)
             /\ SubSeq(inbox[k], 1, size) \in ByteSeqs
  <2>1. Len(inbox[k]) > 0
    BY <1>5, <1>7, EmptySeq DEF ByteSeqs
  <2>2. size \in 0 .. RELAY_DATA_MSG_SIZE /\ size \in 1 .. Len(inbox[k]) /\ size \in 0 .. Len(inbox[k])
    BY <1>1, <1>5, <2>1, PieceBounds
  <2> HIDE DEF size
  <2> DEFINE bytes == SubSeq(inbox[k], 1, size)
             data  == <<Stale>> \o bytes
  <2>3. bytes \in ByteSeqs /\ Len(bytes) = size
    BY <1>5, <2>2, CutOff DEF ByteSeqs
  <2>4. data \in ByteSeqs
    BY <2>3, OneStale, NumbersJoined
  <2>5. Len(<<Stale>>) = 1
    OBVIOUS
  <2>6. Len(data) = 1 + size
    BY <2>3, <2>5, OneStale, Joined DEF ByteSeqs
  <2> HIDE DEF k, id
  <2>7. /\ m.cmd = "DATA" /\ m.stream_id = id /\ m.conn = k /\ m.length = size /\ m.data = data
        /\ m \in [cmd : {"DATA"}, stream_id : {id}, conn : {k}, length : {size}, data : {data}]
    BY DEF DataMsg, Msg
  <2> HIDE DEF m, data
  <2>8. k \in 0 .. MaxConns
    BY <1>1, <1>4
  <2>9. m \in Messages
    BY <1>2, <2>2, <2>4, <2>7, <2>8 DEF Messages
  <2>10. m.length <= Len(m.data)
    BY <1>1, <2>2, <2>6, <2>7
  <2>11. QED
    BY <2>2, <2>3, <2>7, <2>9, <2>10 DEF data
<1>8. QED
  BY <1>2, <1>3, <1>4, <1>5, <1>6, <1>7

LEMMA RelayTypesKept ==
  ASSUME TypeOK, TablesOK, RelayStep
  PROVE  TypeOK' /\ Whole(toRelay') /\ Whole(toClient')
<1>1. /\ toRelay \in Seq(Messages) /\ toClient \in Seq(Messages)
      /\ Whole(toRelay) /\ Whole(toClient) /\ MaxConns \in Nat /\ conns \in 0 .. MaxConns
      /\ 1 .. conns \subseteq Conns /\ Conns \subseteq 0 .. MaxConns
      /\ server \in [Conns -> {"none", "open", "fin", "reset", "closed"}]
      /\ inbox \in [Conns -> ByteSeqs] /\ served \in [Conns -> ByteSeqs]
      /\ epoll \subseteq [sock : Conns, stream_id : Nat]
      /\ relay \in {"serving", "ended"}
  BY StreamsAssumption DEF TypeOK, TablesOK, Conns
<1>2. CASE RelayBegin
  <2> DEFINE id == Head(toRelay).stream_id
             k  == Head(toRelay).conn
  <2>1. toRelay' \in Seq(Messages) /\ Whole(toRelay')
    BY <1>2, RelayReadsTypes DEF RelayBegin
  <2>2. /\ id \in Nat /\ k \in 1 .. conns /\ k \in Conns /\ server[k] = "none"
        /\ \/ /\ toClient' = Append(toClient, Msg("END", id, k))
              /\ server' \in {server, [server EXCEPT ![k] = "open"]}
              /\ UNCHANGED <<relayMap, epoll>>
           \/ /\ toClient' = Append(toClient, Msg("CONNECTED", id, k))
              /\ server' = [server EXCEPT ![k] = "open"]
              /\ Insertable(relayMap, id)
              /\ relayMap' = Insert(relayMap, id, k)
              /\ epoll' = epoll \cup {[sock |-> k, stream_id |-> id]}
        /\ UNCHANGED <<client, clientMap, stream_id, conns, sent, got, hasty,
                       relay, inbox, produced, served>>
    BY <1>2, RelayBeginEffect
  <2> HIDE DEF id, k
  <2>3. toClient' \in Seq(Messages) /\ Whole(toClient')
    <3>1. k \in 0 .. MaxConns
      BY <1>1, <2>2
    <3>2. ASSUME NEW cmd \in {"END", "CONNECTED"}
          PROVE  Msg(cmd, id, k) \in Messages /\ Msg(cmd, id, k).length <= Len(Msg(cmd, id, k).data)
      BY <2>2, <3>1, MsgIsWhole
    <3>3. \A cmd \in {"END", "CONNECTED"} :
             Append(toClient, Msg(cmd, id, k)) \in Seq(Messages) /\ Whole(Append(toClient, Msg(cmd, id, k)))
      BY <1>1, <3>2, QueueAdded
    <3>4. QED
      BY <2>2, <3>3
  <2>4. server' \in [Conns -> {"none", "open", "fin", "reset", "closed"}]
    BY <1>1, <2>2
  <2>5. epoll' \subseteq [sock : Conns, stream_id : Nat]
    BY <1>1, <2>2
  <2>6. relayMap' \in Tables(RelayValues)
    BY <2>2, RelayInserts, TablesTyped
  <2>7. relayMap' \in [Slots -> EntriesOf(Conns)]
    BY <2>6, TypedTables
  <2>8. QED
    BY <2>1, <2>2, <2>3, <2>4, <2>5, <2>7 DEF TypeOK
<1>3. CASE RelayData
  <2> DEFINE m == Head(toRelay)
             k == FoundValue(relayMap, m.stream_id)
  <2>1. /\ toRelay' \in Seq(Messages) /\ Whole(toRelay')
        /\ m.stream_id \in Nat /\ m.conn \in 0 .. MaxConns
        /\ m.length \in 0 .. Len(m.data) /\ m.data \in ByteSeqs
    <3>1. /\ m.length \in Nat /\ m.length <= Len(m.data) /\ m.data \in ByteSeqs
          /\ toRelay' \in Seq(Messages) /\ Whole(toRelay')
          /\ m.stream_id \in Nat /\ m.conn \in 0 .. MaxConns
      BY <1>3, RelayReadsTypes DEF RelayData
    <3>2. Len(m.data) \in Nat
      BY <3>1, LenProperties DEF ByteSeqs
    <3>3. QED
      BY <3>1, <3>2
  <2>2. toClient' \in {toClient, Append(toClient, Msg("END", m.stream_id, m.conn))}
    BY <1>3 DEF RelayData, Replies
  <2>3. toClient' \in Seq(Messages) /\ Whole(toClient')
    BY <1>1, <2>1, <2>2, MsgIsWhole, QueueAdded
  <2>4. served' \in [Conns -> ByteSeqs]
    <3>1. CASE UNCHANGED served
      BY <1>1, <3>1
    <3>2. CASE /\ Found(relayMap, m.stream_id)
               /\ served' = [served EXCEPT ![k] = IF server[k] = "open"
                                THEN @ \o SubSeq(m.data, 1, m.length) ELSE @]
      <4>1. k \in Conns
        BY <1>1, <2>1, <3>2, RelayFinds
      <4>2. served[k] \in ByteSeqs
        BY <1>1, <4>1
      <4>3. SubSeq(m.data, 1, m.length) \in ByteSeqs
        BY <2>1, CutOff DEF ByteSeqs
      <4>4. served[k] \o SubSeq(m.data, 1, m.length) \in ByteSeqs
        BY <4>2, <4>3, NumbersJoined
      <4>5. QED
        BY <1>1, <3>2, <4>1, <4>2, <4>4
    <3>3. QED
      BY <1>3, <3>1, <3>2 DEF RelayData
  <2>5. relay' \in {"serving", "ended"}
    BY <1>1, <1>3 DEF RelayData
  <2>6. UNCHANGED <<client, clientMap, stream_id, conns, sent, got, hasty,
                    relayMap, epoll, server, inbox, produced>>
    BY <1>3 DEF RelayData, clientVars
  <2>7. QED
    BY <2>1, <2>3, <2>4, <2>5, <2>6 DEF TypeOK
<1>4. CASE RelayEnd
  <2> DEFINE id == Head(toRelay).stream_id
  <2>1. toRelay' \in Seq(Messages) /\ Whole(toRelay') /\ id \in Nat
    BY <1>4, RelayReadsTypes DEF RelayEnd
  <2>2. /\ \/ Found(relayMap, id) /\ CloseSocket(id)
           \/ UNCHANGED <<epoll, server, inbox, relayMap>>
        /\ toClient' = Append(toClient, Msg("END", id, 0))
        /\ UNCHANGED <<client, clientMap, stream_id, conns, sent, got, hasty,
                       relay, produced, served>>
    BY <1>4 DEF RelayEnd, Replies, clientVars
  <2> HIDE DEF id
  <2>3. toClient' \in Seq(Messages) /\ Whole(toClient')
    <3>1. 0 \in 0 .. MaxConns
      BY <1>1
    <3>2. Msg("END", id, 0) \in Messages /\ Msg("END", id, 0).length <= Len(Msg("END", id, 0).data)
      BY <2>1, <3>1, MsgIsWhole
    <3>3. QED
      BY <1>1, <2>2, <3>2, QueueAdded
  <2>4. CASE Found(relayMap, id) /\ CloseSocket(id)
    <3>1. /\ server' \in [Conns -> {"none", "open", "fin", "reset", "closed"}]
          /\ inbox' \in [Conns -> ByteSeqs] /\ epoll' \subseteq epoll
          /\ relayMap' \in Tables(RelayValues)
      BY <2>1, <2>2, <2>4, RelayCloses
    <3>2. relayMap' \in [Slots -> EntriesOf(Conns)]
      BY <3>1, TypedTables
    <3>3. epoll' \subseteq [sock : Conns, stream_id : Nat]
      BY <1>1, <3>1
    <3>4. QED
      BY <2>1, <2>2, <2>3, <3>1, <3>2, <3>3 DEF TypeOK
  <2>5. CASE UNCHANGED <<epoll, server, inbox, relayMap>>
    BY <2>1, <2>2, <2>3, <2>5 DEF TypeOK
  <2>6. QED
    BY <2>2, <2>4, <2>5
<1>5. ASSUME NEW event \in epoll, RelayInternet(event)
      PROVE  TypeOK' /\ Whole(toRelay') /\ Whole(toClient')
  <2> DEFINE id   == event.stream_id
             k    == FoundValue(relayMap, id)
             size == Piece(Len(inbox[k]))
             m    == DataMsg(id, k, SubSeq(inbox[k], 1, size), size)
  <2>1. /\ id \in Nat /\ Found(relayMap, id) /\ k \in 1 .. conns /\ k \in Conns
        /\ \/ /\ size \in 1 .. Len(inbox[k]) /\ Len(inbox[k]) \in Nat
              /\ inbox' = [inbox EXCEPT ![k] = Rest(inbox[k], size)]
              /\ toClient' = Append(toClient, m)
              /\ m \in Messages /\ m.length <= Len(m.data)
              /\ UNCHANGED <<relayMap, epoll, server>>
           \/ /\ CloseSocket(id)
              /\ toClient' = Append(toClient, Msg("END", id, k))
        /\ UNCHANGED <<client, clientMap, stream_id, conns, sent, got, hasty, toRelay,
                       relay, produced, served>>
    BY <1>5, RelayInternetEffect
  <2> HIDE DEF id, k, m, size
  <2>2. CASE /\ size \in 1 .. Len(inbox[k]) /\ Len(inbox[k]) \in Nat
             /\ inbox' = [inbox EXCEPT ![k] = Rest(inbox[k], size)]
             /\ toClient' = Append(toClient, m)
             /\ m \in Messages /\ m.length <= Len(m.data)
             /\ UNCHANGED <<relayMap, epoll, server>>
    <3>1. toClient' \in Seq(Messages) /\ Whole(toClient')
      BY <1>1, <2>2, QueueAdded
    <3>2. inbox[k] \in ByteSeqs /\ size \in 0 .. Len(inbox[k])
      BY <1>1, <2>1, <2>2
    <3>3. Rest(inbox[k], size) \in ByteSeqs
      BY <3>2, CutOff DEF ByteSeqs
    <3>4. inbox' \in [Conns -> ByteSeqs]
      BY <1>1, <2>1, <2>2, <3>3
    <3>5. QED
      BY <1>1, <2>1, <2>2, <3>1, <3>4 DEF TypeOK
  <2>3. CASE CloseSocket(id) /\ toClient' = Append(toClient, Msg("END", id, k))
    <3>1. /\ server' \in [Conns -> {"none", "open", "fin", "reset", "closed"}]
          /\ inbox' \in [Conns -> ByteSeqs] /\ epoll' \subseteq epoll
          /\ relayMap' \in Tables(RelayValues)
      BY <2>1, <2>3, RelayCloses
    <3>2. relayMap' \in [Slots -> EntriesOf(Conns)]
      BY <3>1, TypedTables
    <3>3. epoll' \subseteq [sock : Conns, stream_id : Nat]
      BY <1>1, <3>1
    <3>4. toClient' \in Seq(Messages) /\ Whole(toClient')
      <4>1. k \in 0 .. MaxConns
        BY <1>1, <2>1
      <4>2. Msg("END", id, k) \in Messages /\ Msg("END", id, k).length <= Len(Msg("END", id, k).data)
        BY <2>1, <4>1, MsgIsWhole
      <4>3. QED
        BY <1>1, <2>3, <4>2, QueueAdded
    <3>5. QED
      BY <1>1, <2>1, <3>1, <3>2, <3>3, <3>4 DEF TypeOK
  <2>4. QED
    BY <2>1, <2>2, <2>3
<1>6. QED
  BY <1>2, <1>3, <1>4, <1>5 DEF RelayStep

LEMMA ServerTypesKept ==
  ASSUME TypeOK, TablesOK, ServerStep
  PROVE  TypeOK' /\ Whole(toRelay') /\ Whole(toClient')
<1>1. /\ server \in [Conns -> {"none", "open", "fin", "reset", "closed"}]
      /\ inbox \in [Conns -> ByteSeqs] /\ produced \in [Conns -> Nat]
      /\ Whole(toRelay) /\ Whole(toClient)
  BY DEF TypeOK, TablesOK
<1>2. ASSUME NEW k \in Conns, ServerSends(k)
      PROVE  TypeOK' /\ Whole(toRelay') /\ Whole(toClient')
  <2>1. /\ produced' = [produced EXCEPT ![k] = produced[k] + 1]
        /\ inbox' = [inbox EXCEPT ![k] = Append(inbox[k], <<k, produced'[k]>>)]
        /\ UNCHANGED <<client, clientMap, stream_id, conns, sent, got, hasty, toRelay, toClient,
                       relay, relayMap, epoll, server, served>>
    BY <1>2 DEF ServerSends, clientVars, relayVars
  <2>2. produced' \in [Conns -> Nat] /\ produced'[k] \in Nat
    BY <1>1, <2>1
  <2>3. <<k, produced'[k]>> \in (Conns \X Nat) \cup {Stale} /\ inbox[k] \in ByteSeqs
    BY <1>1, <2>2
  <2>4. Append(inbox[k], <<k, produced'[k]>>) \in ByteSeqs
    BY <2>3, AppendProperties DEF ByteSeqs
  <2>5. inbox' \in [Conns -> ByteSeqs]
    BY <1>1, <2>1, <2>4
  <2>6. QED
    BY <1>1, <2>1, <2>2, <2>5 DEF TypeOK
<1>3. ASSUME NEW k \in Conns, ServerCloses(k)
      PROVE  TypeOK' /\ Whole(toRelay') /\ Whole(toClient')
  <2>1. /\ server' \in {[server EXCEPT ![k] = "fin"], [server EXCEPT ![k] = "reset"]}
        /\ inbox' \in {inbox, [inbox EXCEPT ![k] = <<>>]}
        /\ UNCHANGED <<client, clientMap, stream_id, conns, sent, got, hasty, toRelay, toClient,
                       relay, relayMap, epoll, produced, served>>
    BY <1>3 DEF ServerCloses, clientVars, relayVars
  <2>2. inbox' \in [Conns -> ByteSeqs]
    BY <1>1, <2>1, NoBytes
  <2>3. server' \in [Conns -> {"none", "open", "fin", "reset", "closed"}]
    BY <1>1, <2>1
  <2>4. QED
    BY <1>1, <2>1, <2>2, <2>3 DEF TypeOK
<1>4. QED
  BY <1>2, <1>3 DEF ServerStep

LEMMA TypesKept ==
  ASSUME TypeOK, TablesOK, [Next]_vars
  PROVE  TypeOK' /\ Whole(toRelay') /\ Whole(toClient')
<1>1. CASE UNCHANGED vars
  BY <1>1 DEF vars, clientVars, relayVars, serverVars, TypeOK, TablesOK
<1>2. QED
  BY <1>1, ClientTypesKept, UserTypesKept, RelayTypesKept, ServerTypesKept DEF Next

-----------------------------------------------------------------------------
(* Every step keeps the tables. *)
LEMMA BeginsTaken ==
  ASSUME TypeOK, BeginsNew, toRelay # <<>>, toRelay' = Tail(toRelay), conns' = conns,
         \A m \in Mentions(toRelay', "BEGIN") : server'[m.conn] = server[m.conn]
  PROVE  BeginsNew'
<1>1. toRelay \in Seq(Messages)
  BY DEF TypeOK
<1>2. Mentions(toRelay', "BEGIN") \subseteq Mentions(toRelay, "BEGIN")
  BY <1>1, MentionsTaken
<1>3. \A i \in DOMAIN toRelay' : i \in Nat /\ i + 1 \in DOMAIN toRelay /\ toRelay'[i] = toRelay[i + 1]
  BY <1>1, Taken
<1>4. ASSUME NEW i \in DOMAIN toRelay', NEW j \in DOMAIN toRelay',
             toRelay'[i].cmd = "BEGIN", toRelay'[j].cmd = "BEGIN", toRelay'[i].conn = toRelay'[j].conn
      PROVE  i = j
  <2>1. i + 1 = j + 1
    BY <1>3, <1>4 DEF BeginsNew
  <2>2. QED
    BY <1>3, <2>1
<1>5. QED
  BY <1>2, <1>4 DEF BeginsNew

LEMMA BeginsAlone ==
  ASSUME TypeOK, BeginsNew, toRelay # <<>>, Head(toRelay).cmd = "BEGIN",
         NEW m \in Mentions(Tail(toRelay), "BEGIN")
  PROVE  m.conn # Head(toRelay).conn
<1>1. toRelay \in Seq(Messages)
  BY DEF TypeOK
<1>2. PICK i \in DOMAIN Tail(toRelay) : Tail(toRelay)[i] = m
  BY Zenon DEF Mentions, Range
<1>3. /\ i \in Nat \ {0} /\ i + 1 \in DOMAIN toRelay /\ toRelay[i + 1] = m
      /\ 1 \in DOMAIN toRelay /\ toRelay[1] = Head(toRelay)
  BY <1>1, <1>2, Taken
<1>4. m.cmd = "BEGIN"
  BY DEF Mentions
<1>5. m.conn = Head(toRelay).conn => i + 1 = 1
  BY <1>3, <1>4 DEF BeginsNew
<1>6. QED
  BY <1>3, <1>5

LEMMA UserTablesKept ==
  ASSUME TypeOK, TablesOK, UserStep
  PROVE  ClientTable' /\ RelayTable' /\ Waiting' /\ BeginsNew' /\ Unused'
<1>1. /\ stream_id \in Nat /\ toRelay \in Seq(Messages) /\ conns \in Nat
      /\ 1 .. conns \subseteq Conns
  BY ConnsBound DEF TypeOK
<1>2. CASE Connect
  <2>1. /\ stream_id' \in Nat /\ conns' = conns + 1 /\ conns' \in Conns /\ ClientTable'
    BY <1>2, ClientInserts
  <2>2. /\ toRelay' = Append(toRelay, Msg("BEGIN", stream_id', conns'))
        /\ UNCHANGED <<relayMap, epoll, server, sent, got>>
    BY <1>2 DEF Connect, relayVars, serverVars
  <2>3. RelayTable' /\ Waiting'
    <3>1. 1 .. conns \subseteq 1 .. conns'
      BY <1>1, <2>1
    <3>2. QED
      BY <2>2, <3>1 DEF TablesOK, RelayTable, Waiting
  <2>4. Unused'
    <3>1. \A k \in Conns : k > conns' => k > conns
      BY <1>1, <2>1, ConnsBound
    <3>2. QED
      BY <2>2, <3>1 DEF TablesOK, Unused
  <2>5. BeginsNew'
    <3> DEFINE b == Msg("BEGIN", stream_id', conns')
    <3>1. b \in Messages /\ b.cmd = "BEGIN" /\ b.conn = conns'
      <4>1. conns' \in 0 .. MaxConns
        BY <2>1 DEF Conns
      <4>2. QED
        BY <2>1, <4>1, MsgType
    <3> HIDE DEF b
    <3>2. toRelay' = Append(toRelay, b)
      BY <2>2 DEF b
    <3>3. /\ DOMAIN toRelay' = DOMAIN toRelay \cup {Len(toRelay) + 1}
          /\ \A i \in DOMAIN toRelay : toRelay'[i] = toRelay[i]
          /\ toRelay'[Len(toRelay) + 1] = b
      BY <1>1, <3>1, <3>2, Added
    <3>4. Mentions(toRelay', "BEGIN") = Mentions(toRelay, "BEGIN") \cup {b}
      BY <1>1, <3>1, <3>2, MentionsAdded
    <3>5. \A i \in DOMAIN toRelay : toRelay[i].cmd = "BEGIN" => toRelay[i].conn \in 1 .. conns
      BY DEF TablesOK, BeginsNew, Mentions, Range
    <3>6. server'[conns'] = "none"
      BY <1>1, <2>1, <2>2 DEF TablesOK, Unused
    <3>7. \A m \in Mentions(toRelay', "BEGIN") : m.conn \in 1 .. conns' /\ server'[m.conn] = "none"
      <4>1. \A m \in Mentions(toRelay, "BEGIN") : m.conn \in 1 .. conns' /\ server'[m.conn] = "none"
        BY <1>1, <2>1, <2>2 DEF TablesOK, BeginsNew
      <4>2. b.conn \in 1 .. conns' /\ server'[b.conn] = "none"
        BY <1>1, <2>1, <3>1, <3>6
      <4>3. QED
        BY <3>4, <4>1, <4>2
    <3>8. ASSUME NEW i \in DOMAIN toRelay', NEW j \in DOMAIN toRelay',
                 toRelay'[i].cmd = "BEGIN", toRelay'[j].cmd = "BEGIN", toRelay'[i].conn = toRelay'[j].conn
          PROVE  i = j
      <4>1. conns' \notin 1 .. conns
        BY <1>1, <2>1
      <4>2. CASE i \in DOMAIN toRelay /\ j \in DOMAIN toRelay
        BY <3>3, <3>8, <4>2 DEF TablesOK, BeginsNew
      <4>3. CASE i = Len(toRelay) + 1 /\ j \in DOMAIN toRelay
        BY <3>1, <3>3, <3>5, <3>8, <4>1, <4>3
      <4>4. CASE j = Len(toRelay) + 1 /\ i \in DOMAIN toRelay
        BY <3>1, <3>3, <3>5, <3>8, <4>1, <4>4
      <4>5. QED
        BY <3>3, <4>2, <4>3, <4>4
    <3>9. QED
      BY <3>7, <3>8 DEF BeginsNew
  <2>6. QED
    BY <2>1, <2>3, <2>4, <2>5
<1>3. CASE ConnectHangs
  BY <1>3 DEF ConnectHangs, relayVars, serverVars, TablesOK, ClientTable, RelayTable, Waiting,
              BeginsNew, Unused, Mentions
<1>4. ASSUME NEW id \in Issued, Close(id)
      PROVE  ClientTable' /\ RelayTable' /\ Waiting' /\ BeginsNew' /\ Unused'
  <2>1. id \in Nat
    BY <1>1 DEF Issued
  <2>2. /\ toRelay' = Append(toRelay, Msg("END", id, 0))
        /\ clientMap' = Remove(clientMap, id)
        /\ UNCHANGED <<conns, sent, got, relayMap, epoll, server>>
    BY <1>4 DEF Close, relayVars, serverVars
  <2>3. ClientTable'
    BY <2>1, <2>2, ClientRemoves
  <2>4. RelayTable' /\ Waiting' /\ Unused'
    BY <2>2 DEF TablesOK, RelayTable, Waiting, Unused
  <2>5. BeginsNew'
    <3> DEFINE e == Msg("END", id, 0)
    <3>1. e \in Messages /\ e.cmd = "END"
      <4>1. 0 \in 0 .. MaxConns
        BY StreamsAssumption
      <4>2. QED
        BY <2>1, <4>1, MsgType
    <3> HIDE DEF e
    <3>2. toRelay' = Append(toRelay, e)
      BY <2>2 DEF e
    <3>3. /\ DOMAIN toRelay' = DOMAIN toRelay \cup {Len(toRelay) + 1}
          /\ \A i \in DOMAIN toRelay : toRelay'[i] = toRelay[i]
          /\ toRelay'[Len(toRelay) + 1] = e
      BY <1>1, <3>1, <3>2, Added
    <3>4. Mentions(toRelay', "BEGIN") = Mentions(toRelay, "BEGIN")
      BY <1>1, <3>1, <3>2, MentionsAdded
    <3>5. QED
      BY <2>2, <3>1, <3>3, <3>4 DEF TablesOK, BeginsNew
  <2>6. QED
    BY <2>3, <2>4, <2>5
<1>5. ASSUME NEW id \in Issued, NEW length \in Lengths, Send(id, length)
      PROVE  ClientTable' /\ RelayTable' /\ Waiting' /\ BeginsNew' /\ Unused'
  <2>1. id \in Nat
    BY <1>1 DEF Issued
  <2>2. PICK i \in Filled(clientMap), L \in Nat, added \in Seq(Messages) :
            LET k == clientMap[i].value.conn
            IN  /\ k \in 1 .. conns
                /\ sent' = [sent EXCEPT ![k] = sent[k] + L]
                /\ toRelay' = toRelay \o added
                /\ Sent(added, id, k, sent[k] + 1, sent[k] + L)
    BY <1>5, <2>1, Sending, SMTT(30)
  <2>3. UNCHANGED <<clientMap, conns, got, relayMap, epoll, server>>
    BY <1>5 DEF Send, relayVars, serverVars
  <2>4. ClientTable' /\ RelayTable' /\ Waiting'
    BY <2>3 DEF TablesOK, ClientTable, RelayTable, Waiting
  <2>5. Unused'
    <3>1. sent \in [Conns -> 0 .. MaxSent]
      BY DEF TypeOK
    <3>2. \A k \in Conns : k > conns => k \notin 1 .. conns
      BY <1>1
    <3>3. \A k \in Conns : k > conns => sent'[k] = sent[k]
      BY <2>2, <3>1, <3>2
    <3>4. QED
      BY <2>3, <3>3 DEF TablesOK, Unused
  <2>6. BeginsNew'
    <3>1. \A n \in DOMAIN added : added[n].cmd = "DATA"
      BY <2>2 DEF Sent
    <3>2. Mentions(added, "BEGIN") = {}
      <4>1. \A m \in Range(added) : m.cmd = "DATA"
        BY <3>1, Zenon DEF Range
      <4>2. QED
        BY <4>1 DEF Mentions
    <3>3. Mentions(toRelay', "BEGIN") = Mentions(toRelay, "BEGIN")
      <4>1. toRelay' = toRelay \o added
        BY <2>2
      <4>2. Mentions(toRelay \o added, "BEGIN") = Mentions(toRelay, "BEGIN") \cup Mentions(added, "BEGIN")
        BY <1>1, MentionsJoined
      <4>3. QED
        BY <3>2, <4>1, <4>2
    <3>4. /\ DOMAIN toRelay = 1 .. Len(toRelay) /\ Len(toRelay) \in Nat
          /\ DOMAIN toRelay' = 1 .. Len(toRelay) + Len(added) /\ Len(added) \in Nat
          /\ \A n \in DOMAIN toRelay : toRelay'[n] = toRelay[n]
          /\ \A n \in DOMAIN toRelay' : n > Len(toRelay) =>
                n - Len(toRelay) \in DOMAIN added /\ toRelay'[n] = added[n - Len(toRelay)]
      BY <1>1, <2>2, Joined
    <3>5. \A n \in DOMAIN toRelay' : toRelay'[n].cmd = "BEGIN" =>
             n \in DOMAIN toRelay /\ toRelay'[n] = toRelay[n]
      <4> SUFFICES ASSUME NEW n \in DOMAIN toRelay', toRelay'[n].cmd = "BEGIN"
                   PROVE  n \in DOMAIN toRelay /\ toRelay'[n] = toRelay[n]
        OBVIOUS
      <4>1. ~(n > Len(toRelay))
        <5>1. SUFFICES ASSUME n > Len(toRelay) PROVE FALSE
          OBVIOUS
        <5>2. n - Len(toRelay) \in DOMAIN added /\ toRelay'[n] = added[n - Len(toRelay)]
          BY <3>4, <5>1
        <5>3. added[n - Len(toRelay)].cmd = "DATA"
          BY <3>1, <5>2
        <5>4. toRelay'[n].cmd = "DATA"
          BY <5>2, <5>3
        <5>5. QED
          BY <5>4
      <4>2. QED
        BY <3>4, <4>1
    <3>6. QED
      BY <2>3, <3>3, <3>5 DEF TablesOK, BeginsNew
  <2>7. QED
    BY <2>4, <2>5, <2>6
<1>6. ASSUME NEW id \in Issued, NEW length \in Lengths, Recv(id, length)
      PROVE  ClientTable' /\ RelayTable' /\ Waiting' /\ BeginsNew' /\ Unused'
  <2>1. id \in Nat
    BY <1>1 DEF Issued
  <2>2. PICK s \in Filled(clientMap), taken \in ByteSeqs, rest \in ByteSeqs :
            /\ clientMap[s].value.conn \in 1 .. conns
            /\ got' = [got EXCEPT ![clientMap[s].value.conn] = got[clientMap[s].value.conn] \o taken]
            /\ ClientTable'
            /\ UNCHANGED <<conns, sent, toRelay, relayMap, epoll, server>>
    BY <1>6, <2>1, Receiving
  <2>3. Unused'
    <3>1. got \in [Conns -> ByteSeqs]
      BY DEF TypeOK
    <3>2. \A k \in Conns : k > conns => k \notin 1 .. conns
      BY <1>1
    <3>3. \A k \in Conns : k > conns => got'[k] = got[k]
      BY <2>2, <3>1, <3>2
    <3>4. QED
      BY <2>2, <3>3 DEF TablesOK, Unused
  <2>4. QED
    BY <2>2, <2>3 DEF TablesOK, RelayTable, Waiting, BeginsNew
<1>7. QED
  BY <1>2, <1>3, <1>4, <1>5, <1>6 DEF UserStep

LEMMA ClientTablesKept ==
  ASSUME TypeOK, TablesOK, ClientStep
  PROVE  ClientTable' /\ RelayTable' /\ Waiting' /\ BeginsNew' /\ Unused'
<1> DEFINE m == Head(toClient)
<1>1. /\ m.stream_id \in Nat
      /\ ClientHears(m)
      /\ m.cmd = "DATA" /\ Found(clientMap, m.stream_id) =>
            FoundValue(clientMap, m.stream_id).recv \o SubSeq(m.data, 1, m.length) \in ByteSeqs
      /\ UNCHANGED <<conns, sent, got, toRelay, relayMap, epoll, server>>
  BY ClientReceiving DEF ClientStep
<1> HIDE DEF m
<1>2. CASE UNCHANGED clientMap
  BY <1>1, <1>2 DEF TablesOK, ClientTable, RelayTable, Waiting, BeginsNew, Unused
<1>3. RelayTable' /\ Waiting' /\ BeginsNew' /\ Unused'
  BY <1>1 DEF TablesOK, RelayTable, Waiting, BeginsNew, Unused
<1>4. CASE clientMap' = Remove(clientMap, m.stream_id)
  BY <1>1, <1>3, <1>4, ClientRemoves
<1>5. CASE /\ m.cmd = "DATA" /\ Found(clientMap, m.stream_id)
           /\ clientMap' = SetValue(clientMap, m.stream_id,
                 [FoundValue(clientMap, m.stream_id) EXCEPT !.recv =
                    FoundValue(clientMap, m.stream_id).recv \o SubSeq(m.data, 1, m.length)])
  BY <1>1, <1>3, <1>5, ClientSets
<1>6. QED
  BY <1>1, <1>2, <1>4, <1>5 DEF ClientHears

LEMMA RelayTablesKept ==
  ASSUME TypeOK, TablesOK, RelayStep
  PROVE  ClientTable' /\ RelayTable' /\ Waiting' /\ BeginsNew' /\ Unused'
<1>1. /\ toRelay \in Seq(Messages) /\ conns \in Nat /\ 1 .. conns \subseteq Conns
      /\ server \in [Conns -> {"none", "open", "fin", "reset", "closed"}]
      /\ BeginsNew
  BY ConnsBound DEF TypeOK, TablesOK
<1>2. CASE RelayBegin
  <2> DEFINE id == Head(toRelay).stream_id
             k  == Head(toRelay).conn
  <2>1. /\ id \in Nat /\ k \in 1 .. conns /\ k \in Conns /\ server[k] = "none"
        /\ \/ /\ server' \in {server, [server EXCEPT ![k] = "open"]}
              /\ UNCHANGED <<relayMap, epoll>>
           \/ /\ server' = [server EXCEPT ![k] = "open"]
              /\ Insertable(relayMap, id)
              /\ relayMap' = Insert(relayMap, id, k)
              /\ epoll' = epoll \cup {[sock |-> k, stream_id |-> id]}
        /\ UNCHANGED <<clientMap, conns, sent, got>>
    BY <1>2, RelayBeginEffect
  <2>2. toRelay # <<>> /\ Head(toRelay).cmd = "BEGIN" /\ toRelay' = Tail(toRelay)
    BY <1>2 DEF RelayBegin, RelayReads
  <2>3. \A m \in Mentions(toRelay', "BEGIN") : m.conn # k /\ m.conn \in 1 .. conns
    <3>1. Mentions(toRelay', "BEGIN") \subseteq Mentions(toRelay, "BEGIN")
      BY <1>1, <2>2, MentionsTaken
    <3>2. QED
      BY <1>1, <2>2, <3>1, BeginsAlone DEF BeginsNew
  <2> HIDE DEF id, k
  <2>4. \A j \in Conns : j # k => server'[j] = server[j]
    BY <1>1, <2>1
  <2>5. BeginsNew'
    BY <1>1, <2>1, <2>2, <2>3, <2>4, BeginsTaken
  <2>6. ClientTable'
    BY <2>1 DEF TablesOK, ClientTable
  <2>7. Unused'
    <3>1. ~(k > conns)
      BY <1>1, <2>1
    <3>2. QED
      BY <2>1, <2>4, <3>1 DEF TablesOK, Unused
  <2>8. RelayTable' /\ Waiting'
    <3>1. CASE /\ server' \in {server, [server EXCEPT ![k] = "open"]}
               /\ UNCHANGED <<relayMap, epoll>>
      <4>1. \A i \in Filled(relayMap) :
               /\ relayMap[i].value \in 1 .. conns
               /\ server[relayMap[i].value] \in {"open", "fin", "reset"}
               /\ relayMap[i].value # k
        BY <2>1 DEF TablesOK, RelayTable
      <4>2. \A i \in Filled(relayMap) : server'[relayMap[i].value] = server[relayMap[i].value]
        BY <1>1, <2>4, <4>1
      <4>3. QED
        BY <2>1, <3>1, <4>1, <4>2 DEF TablesOK, RelayTable, Waiting
    <3>2. CASE /\ server' = [server EXCEPT ![k] = "open"]
               /\ Insertable(relayMap, id)
               /\ relayMap' = Insert(relayMap, id, k)
               /\ epoll' = epoll \cup {[sock |-> k, stream_id |-> id]}
      BY <2>1, <3>2, RelayInserts
    <3>3. QED
      BY <2>1, <3>1, <3>2
  <2>9. QED
    BY <2>5, <2>6, <2>7, <2>8
<1>3. CASE RelayData
  <2>1. /\ toRelay # <<>> /\ toRelay' = Tail(toRelay)
        /\ UNCHANGED <<clientMap, conns, sent, got, relayMap, epoll, server>>
    BY <1>3 DEF RelayData, RelayReads, clientVars
  <2>2. BeginsNew'
    BY <1>1, <2>1, BeginsTaken
  <2>3. QED
    BY <2>1, <2>2 DEF TablesOK, ClientTable, RelayTable, Waiting, Unused
<1>4. ASSUME NEW id \in Nat, Found(relayMap, id), CloseSocket(id),
             UNCHANGED <<clientMap, conns, sent, got>>
      PROVE  /\ ClientTable' /\ RelayTable' /\ Waiting' /\ Unused'
             /\ \A m \in Mentions(toRelay, "BEGIN") : server'[m.conn] = server[m.conn]
  <2> DEFINE k == FoundValue(relayMap, id)
  <2>1. /\ RelayTable' /\ Waiting' /\ k \in 1 .. conns
        /\ server[k] \in {"open", "fin", "reset"}
        /\ \A j \in Conns : j # k => server'[j] = server[j]
    BY <1>4, RelayCloses
  <2> HIDE DEF k
  <2>2. \A m \in Mentions(toRelay, "BEGIN") : server'[m.conn] = server[m.conn]
    <3>1. \A m \in Mentions(toRelay, "BEGIN") : m.conn \in Conns /\ m.conn # k
      BY <1>1, <2>1 DEF BeginsNew
    <3>2. QED
      BY <2>1, <3>1
  <2>3. Unused'
    <3>1. ~(k > conns)
      BY <1>1, <2>1
    <3>2. QED
      BY <1>4, <2>1, <3>1 DEF TablesOK, Unused
  <2>4. ClientTable'
    BY <1>4 DEF TablesOK, ClientTable
  <2>5. QED
    BY <2>1, <2>2, <2>3, <2>4
<1>5. CASE RelayEnd
  <2> DEFINE id == Head(toRelay).stream_id
  <2>1. id \in Nat
    BY <1>5, RelayReadsTypes DEF RelayEnd
  <2>2. /\ toRelay # <<>> /\ toRelay' = Tail(toRelay)
        /\ \/ Found(relayMap, id) /\ CloseSocket(id)
           \/ UNCHANGED <<epoll, server, inbox, relayMap>>
        /\ UNCHANGED <<clientMap, conns, sent, got>>
    BY <1>5 DEF RelayEnd, RelayReads, clientVars
  <2> HIDE DEF id
  <2>3. Mentions(toRelay', "BEGIN") \subseteq Mentions(toRelay, "BEGIN")
    BY <1>1, <2>2, MentionsTaken
  <2>4. CASE Found(relayMap, id) /\ CloseSocket(id)
    <3>1. /\ ClientTable' /\ RelayTable' /\ Waiting' /\ Unused'
          /\ \A m \in Mentions(toRelay, "BEGIN") : server'[m.conn] = server[m.conn]
      BY <1>4, <2>1, <2>2, <2>4
    <3>2. BeginsNew'
      BY <1>1, <2>2, <2>3, <3>1, BeginsTaken
    <3>3. QED
      BY <3>1, <3>2
  <2>5. CASE UNCHANGED <<epoll, server, inbox, relayMap>>
    <3>1. BeginsNew'
      BY <1>1, <2>2, <2>5, BeginsTaken
    <3>2. QED
      BY <2>2, <2>5, <3>1 DEF TablesOK, ClientTable, RelayTable, Waiting, Unused
  <2>6. QED
    BY <2>2, <2>4, <2>5
<1>6. ASSUME NEW event \in epoll, RelayInternet(event)
      PROVE  ClientTable' /\ RelayTable' /\ Waiting' /\ BeginsNew' /\ Unused'
  <2> DEFINE id == event.stream_id
  <2>1. /\ id \in Nat /\ Found(relayMap, id)
        /\ UNCHANGED <<relayMap, epoll, server>> \/ CloseSocket(id)
        /\ UNCHANGED <<clientMap, conns, sent, got, toRelay>>
    BY <1>6, RelayInternetEffect
  <2> HIDE DEF id
  <2>2. CASE UNCHANGED <<relayMap, epoll, server>>
    BY <2>1, <2>2 DEF TablesOK, ClientTable, RelayTable, Waiting, BeginsNew, Unused
  <2>3. CASE CloseSocket(id)
    <3>1. /\ ClientTable' /\ RelayTable' /\ Waiting' /\ Unused'
          /\ \A m \in Mentions(toRelay, "BEGIN") : server'[m.conn] = server[m.conn]
      BY <1>4, <2>1, <2>3
    <3>2. BeginsNew'
      BY <1>1, <2>1, <3>1 DEF BeginsNew
    <3>3. QED
      BY <3>1, <3>2
  <2>4. QED
    BY <2>1, <2>2, <2>3
<1>7. QED
  BY <1>2, <1>3, <1>5, <1>6 DEF RelayStep

LEMMA ServerTablesKept ==
  ASSUME TypeOK, TablesOK, ServerStep
  PROVE  ClientTable' /\ RelayTable' /\ Waiting' /\ BeginsNew' /\ Unused'
<1>1. /\ server \in [Conns -> {"none", "open", "fin", "reset", "closed"}]
      /\ conns \in Nat /\ 1 .. conns \subseteq Conns
  BY ConnsBound DEF TypeOK
<1>2. ASSUME NEW k \in Conns, ServerSends(k)
      PROVE  ClientTable' /\ RelayTable' /\ Waiting' /\ BeginsNew' /\ Unused'
  BY <1>2, ZenonT(30) DEF ServerSends, clientVars, relayVars, TablesOK, ClientTable, RelayTable, Waiting,
              BeginsNew, Unused
<1>3. ASSUME NEW k \in Conns, ServerCloses(k)
      PROVE  ClientTable' /\ RelayTable' /\ Waiting' /\ BeginsNew' /\ Unused'
  <2>1. /\ server[k] = "open"
        /\ server' \in {[server EXCEPT ![k] = "fin"], [server EXCEPT ![k] = "reset"]}
        /\ UNCHANGED <<clientMap, conns, sent, got, toRelay, relayMap, epoll>>
    BY <1>3 DEF ServerCloses, clientVars, relayVars
  <2>2. /\ server'[k] \in {"fin", "reset"}
        /\ \A j \in Conns : j # k => server'[j] = server[j]
    BY <1>1, <2>1
  <2>3. \A j \in Conns : server[j] = "none" => server'[j] = "none"
    BY <2>1, <2>2
  <2>4. \A j \in Conns : server[j] \in {"open", "fin", "reset"} => server'[j] \in {"open", "fin", "reset"}
    BY <2>1, <2>2
  <2>5. ClientTable' /\ Waiting'
    BY <2>1 DEF TablesOK, ClientTable, Waiting
  <2>6. RelayTable'
    BY <1>1, <2>1, <2>4 DEF TablesOK, RelayTable
  <2>7. BeginsNew' /\ Unused'
    BY <1>1, <2>1, <2>3 DEF TablesOK, BeginsNew, Unused
  <2>8. QED
    BY <2>5, <2>6, <2>7
<1>4. QED
  BY <1>2, <1>3 DEF ServerStep

LEMMA TablesKept ==
  ASSUME TypeOK, TablesOK, [Next]_vars
  PROVE  TypeOK' /\ TablesOK'
<1>1. CASE UNCHANGED vars
  <2>1. ClientTable' /\ RelayTable' /\ Waiting' /\ BeginsNew' /\ Unused'
    BY <1>1 DEF vars, clientVars, relayVars, serverVars, TablesOK, ClientTable, RelayTable,
                Waiting, BeginsNew, Unused
  <2>2. QED
    BY <2>1, TypesKept DEF TablesOK
<1>2. CASE Next
  <2>1. ClientTable' /\ RelayTable' /\ Waiting' /\ BeginsNew' /\ Unused'
    BY <1>2, ClientTablesKept, UserTablesKept, RelayTablesKept, ServerTablesKept DEF Next
  <2>2. QED
    BY <2>1, TypesKept DEF TablesOK
<1>3. QED
  BY <1>1, <1>2

-----------------------------------------------------------------------------
(* Every step that is not a hasty connect keeps the agreement. *)
LEMMA HeldAnywhere ==
  ASSUME NEW map
  PROVE  \A x : IsHeld(map, x) <=> \E i \in Filled(map) : map[i].stream_id = x
BY HeldIsFilled

LEMMA NoMessages ==
  /\ <<>> \in Seq(Messages) /\ Len(<<>>) = 0 /\ DOMAIN <<>> = {}
  /\ \A cmd : Mentions(<<>>, cmd) = {}
<1>1. <<>> \in Seq(Messages) /\ Len(<<>>) = 0 /\ DOMAIN <<>> = {}
  BY EmptySeq, LenProperties
<1>2. Range(<<>>) = {}
  BY <1>1, Zenon DEF Range
<1>3. QED
  BY <1>1, <1>2 DEF Mentions

LEMMA MessageAdded ==
  ASSUME NEW q \in Seq(Messages), NEW m \in Messages
  PROVE  LET new == Append(q, m)
         IN  /\ Mentions(new, m.cmd) = Mentions(q, m.cmd) \cup {m}
             /\ \A other : other # m.cmd => Mentions(new, other) = Mentions(q, other)
             /\ DOMAIN new = DOMAIN q \cup {Len(q) + 1}
             /\ DOMAIN q \subseteq Nat \ {0} /\ \A i \in DOMAIN q : i < Len(q) + 1
             /\ \A i \in DOMAIN q : new[i] = q[i]
             /\ new[Len(q) + 1] = m
<1>1. /\ Mentions(Append(q, m), m.cmd) = Mentions(q, m.cmd) \cup {m}
      /\ \A other : other # m.cmd => Mentions(Append(q, m), other) = Mentions(q, other)
  BY MentionsAdded
<1>2. QED
  BY <1>1, Added

(* A connect when nothing is under way: the relay cannot still have the    *)
(* identifier, since a stream only it knows would have to be closed yet. *)
LEMMA ConnectAgrees ==
  ASSUME TypeOK, TablesOK, Agree, Quiet, Connect
  PROVE  Agree'
<1> DEFINE id == stream_id'
           s  == id % HASHMAP_AMOUNT
           b  == Msg("BEGIN", id, conns')
<1>1. /\ id \in Nat /\ conns' = conns + 1 /\ conns' \in Conns /\ conns \in Nat
      /\ ~IsHeld(clientMap, id)
      /\ Filled(clientMap') = Filled(clientMap) \cup {s}
      /\ clientMap'[s].stream_id = id
      /\ clientMap'[s].value.conn = conns'
      /\ \A i \in Filled(clientMap) : clientMap'[i] = clientMap[i]
      /\ ClientTable'
  BY ClientInserts
<1>2. /\ toRelay' = Append(<<>>, b) /\ toClient = <<>> /\ toClient' = <<>> /\ toRelay = <<>>
      /\ UNCHANGED <<relayMap, server>>
  BY DEF Quiet, Connect, relayVars, serverVars
<1>3. /\ b.cmd = "BEGIN" /\ b.stream_id = id /\ b.conn = conns'
      /\ Mentions(toRelay', "BEGIN") = {b}
      /\ Mentions(toRelay', "DATA") = {} /\ Mentions(toRelay', "END") = {}
      /\ DOMAIN toRelay' = {1}
  <2>1. /\ toRelay \in Seq(Messages) /\ Len(toRelay) = 0 /\ DOMAIN toRelay = {}
        /\ \A cmd : Mentions(toRelay, cmd) = {}
    BY <1>2, NoMessages DEF TypeOK
  <2>2. conns' \in 0 .. MaxConns
    BY <1>1 DEF Conns
  <2>3. toRelay' = Append(toRelay, b)
    BY DEF Connect
  <2> HIDE DEF id
  <2>4. /\ b.cmd = "BEGIN" /\ b.stream_id = id /\ b.conn = conns'
        /\ Mentions(toRelay', "BEGIN") = Mentions(toRelay, "BEGIN") \cup {b}
        /\ Mentions(toRelay', "DATA") = Mentions(toRelay, "DATA")
        /\ Mentions(toRelay', "END") = Mentions(toRelay, "END")
        /\ DOMAIN toRelay' = DOMAIN toRelay \cup {Len(toRelay) + 1}
    <3>1. b \in Messages /\ b.cmd = "BEGIN" /\ b.stream_id = id /\ b.conn = conns'
      <4>1. id \in Nat
        BY <1>1
      <4>2. ASSUME NEW k \in 0 .. MaxConns
            PROVE  LET m == Msg("BEGIN", id, k)
                   IN  m \in Messages /\ m.cmd = "BEGIN" /\ m.stream_id = id /\ m.conn = k
        BY <4>1, MsgType
      <4>3. QED
        BY <2>2, <4>2
    <3> HIDE DEF b
    <3>2. LET new == Append(toRelay, b)
          IN  /\ Mentions(new, b.cmd) = Mentions(toRelay, b.cmd) \cup {b}
              /\ \A other : other # b.cmd => Mentions(new, other) = Mentions(toRelay, other)
              /\ DOMAIN new = DOMAIN toRelay \cup {Len(toRelay) + 1}
      BY <2>1, <3>1, MessageAdded
    <3>3. QED
      BY <2>3, <3>1, <3>2
  <2>5. QED
    BY <2>1, <2>4
<1>4. \A cmd : Mentions(toRelay, cmd) = {} /\ Mentions(toClient, cmd) = {}
  BY <1>2, NoMessages
<1> HIDE DEF id, s, b
<1>5. \A i \in Filled(relayMap) : ~Ending(relayMap[i].value)
  <2> SUFFICES ASSUME NEW i \in Filled(relayMap) PROVE ~Ending(relayMap[i].value)
    OBVIOUS
  <2>1. [sock |-> relayMap[i].value, stream_id |-> relayMap[i].stream_id] \in epoll
    BY DEF TablesOK, Waiting
  <2>2. ~Ready(relayMap[i].value)
    BY <2>1 DEF Quiet
  <2>3. QED
    BY <2>2 DEF Ready, Ending
<1>6. \A i \in Filled(relayMap) : IsHeld(clientMap, relayMap[i].stream_id)
  BY <1>4, <1>5 DEF Agree, RelayKnows
<1>7. \A i \in Filled(relayMap) : relayMap[i].stream_id # id
  BY <1>1, <1>6
<1>8. ~IsHeld(relayMap, id)
  BY <1>7, HeldAnywhere
<1>9. \A i \in Filled(clientMap) : clientMap[i].stream_id # id /\ clientMap[i].value.conn # conns'
  <2>1. \A i \in Filled(clientMap) : clientMap[i].value.conn \in 1 .. conns
    BY DEF TablesOK, ClientTable
  <2>2. QED
    BY <1>1, <2>1, HeldAnywhere
<1>10. \A i \in Filled(relayMap) : relayMap[i].value # conns'
  <2>1. \A i \in Filled(relayMap) : relayMap[i].value \in 1 .. conns
    BY DEF TablesOK, RelayTable
  <2>2. QED
    BY <1>1, <2>1
<1>11. \A x : IsHeld(clientMap, x) => IsHeld(clientMap', x)
  BY <1>1, HeldAnywhere
<1>12. IsHeld(clientMap', id)
  BY <1>1, HeldAnywhere
<1>13. Distinct(relayMap)' /\ BeginFirst' /\ EndMeans' /\ DataUpMeans' /\ DataDownMeans'
  <2>1. Distinct(relayMap)
    BY DEF Agree
  <2>2. QED
    BY <1>2, <1>3, <1>4, <2>1 DEF BeginFirst, EndMeans, DataUpMeans, DataDownMeans
<1>14. BeginMeans'
  BY <1>1, <1>2, <1>3, <1>4, <1>8, <1>9, <1>12 DEF BeginMeans
<1>15. RelayKnows'
  BY <1>2, <1>6, <1>11 DEF RelayKnows
<1>16. ClientKnows'
  <2>1. \A i \in Filled(clientMap) : IsHeld(relayMap, clientMap[i].stream_id)
    BY <1>4 DEF Agree, ClientKnows
  <2>2. QED
    BY <1>1, <1>2, <1>3, <2>1 DEF ClientKnows
<1>17. SameConns'
  BY <1>1, <1>2, <1>7, <1>10 DEF Agree, SameConns
<1>18. QED
  BY <1>13, <1>14, <1>15, <1>16, <1>17 DEF Agree

(* Closing a stream puts its END on the way. *)
LEMMA CloseAgrees ==
  ASSUME TypeOK, TablesOK, Agree, NEW id \in Nat, Close(id)
  PROVE  Agree'
<1> DEFINE e == Msg("END", id, 0)
<1>1. /\ toRelay' = Append(toRelay, e)
      /\ clientMap' = Remove(clientMap, id)
      /\ UNCHANGED <<conns, toClient, relayMap, server>>
  BY DEF Close, relayVars, serverVars
<1>2. /\ Filled(clientMap') = {i \in Filled(clientMap) : clientMap[i].stream_id # id}
      /\ \A i \in Filled(clientMap') : clientMap'[i] = clientMap[i]
  BY <1>1, ClientRemoves
<1>3. /\ e.cmd = "END" /\ e.stream_id = id
      /\ Mentions(toRelay', "END") = Mentions(toRelay, "END") \cup {e}
      /\ Mentions(toRelay', "BEGIN") = Mentions(toRelay, "BEGIN")
      /\ Mentions(toRelay', "DATA") = Mentions(toRelay, "DATA")
      /\ DOMAIN toRelay' = DOMAIN toRelay \cup {Len(toRelay) + 1}
      /\ \A i \in DOMAIN toRelay : toRelay'[i] = toRelay[i]
      /\ toRelay'[Len(toRelay) + 1] = e
  <2>1. 0 \in 0 .. MaxConns /\ toRelay \in Seq(Messages)
    BY StreamsAssumption DEF TypeOK
  <2>2. e \in Messages /\ e.cmd = "END" /\ e.stream_id = id
    BY <2>1, MsgType
  <2> HIDE DEF e
  <2>3. QED
    BY <1>1, <2>1, <2>2, MessageAdded
<1> HIDE DEF e
<1>4. \A x : IsHeld(clientMap', x) <=> IsHeld(clientMap, x) /\ x # id
  BY <1>2, HeldAnywhere
<1>5. Distinct(relayMap)' /\ EndMeans' /\ DataUpMeans' /\ DataDownMeans' /\ SameConns'
  BY <1>1, <1>2, <1>3 DEF Agree, EndMeans, DataUpMeans, DataDownMeans, SameConns, Ending
<1>6. BeginFirst'
  BY <1>3 DEF Agree, BeginFirst
<1>7. BeginMeans'
  BY <1>1, <1>2, <1>3, <1>4 DEF Agree, BeginMeans
<1>8. RelayKnows'
  BY <1>1, <1>3, <1>4 DEF Agree, RelayKnows, Ending
<1>9. ClientKnows'
  BY <1>1, <1>2, <1>3 DEF Agree, ClientKnows
<1>10. QED
  BY <1>5, <1>6, <1>7, <1>8, <1>9 DEF Agree

LEMMA SendAgrees ==
  ASSUME TypeOK, TablesOK, Agree, NEW id \in Nat, NEW length \in Lengths, Send(id, length)
  PROVE  Agree'
<1>1. PICK i \in Filled(clientMap), L \in Nat, added \in Seq(Messages) :
         /\ clientMap[i].stream_id = id
         /\ toRelay' = toRelay \o added
         /\ Sent(added, id, clientMap[i].value.conn,
                 sent[clientMap[i].value.conn] + 1, sent[clientMap[i].value.conn] + L)
  BY Sending, SMTT(30)
<1> DEFINE k == clientMap[i].value.conn
<1>2. UNCHANGED <<clientMap, conns, toClient, relayMap, server>>
  BY DEF Send, relayVars, serverVars
<1>3. \A n \in DOMAIN added : added[n].cmd = "DATA" /\ added[n].stream_id = id /\ added[n].conn = k
  BY <1>1 DEF Sent
<1> HIDE DEF k
<1>4. \A m \in Range(added) : m.cmd = "DATA" /\ m.stream_id = id /\ m.conn = k
  BY <1>3, Zenon DEF Range
<1>5. toRelay \in Seq(Messages)
  BY DEF TypeOK
<1>6. \A cmd : Mentions(toRelay', cmd) = Mentions(toRelay, cmd) \cup Mentions(added, cmd)
  BY <1>1, <1>5, MentionsJoined
<1>7. /\ Mentions(added, "BEGIN") = {} /\ Mentions(added, "END") = {}
      /\ \A m \in Mentions(added, "DATA") : m.stream_id = id /\ m.conn = k
  BY <1>4 DEF Mentions
<1>8. /\ Mentions(toRelay', "BEGIN") = Mentions(toRelay, "BEGIN")
      /\ Mentions(toRelay', "END") = Mentions(toRelay, "END")
      /\ \A m \in Mentions(toRelay', "DATA") :
            m \in Mentions(toRelay, "DATA") \/ (m.stream_id = id /\ m.conn = k)
  BY <1>6, <1>7
<1>9. /\ \A b \in Mentions(toRelay, "BEGIN") : id = b.stream_id <=> k = b.conn
      /\ \A j \in Filled(relayMap) : id = relayMap[j].stream_id <=> k = relayMap[j].value
  BY <1>1 DEF Agree, BeginMeans, SameConns, k
<1>10. BeginFirst'
  <2>1. /\ DOMAIN toRelay = 1 .. Len(toRelay) /\ Len(toRelay) \in Nat
        /\ DOMAIN toRelay' = 1 .. Len(toRelay) + Len(added) /\ Len(added) \in Nat
        /\ \A n \in DOMAIN toRelay : toRelay'[n] = toRelay[n]
        /\ \A n \in DOMAIN toRelay' : n > Len(toRelay) =>
              n - Len(toRelay) \in DOMAIN added /\ toRelay'[n] = added[n - Len(toRelay)]
    BY <1>1, <1>5, Joined
  <2> SUFFICES ASSUME NEW n \in DOMAIN toRelay', toRelay'[n].cmd = "BEGIN"
               PROVE  n = 1
    BY DEF BeginFirst
  <2>2. CASE n > Len(toRelay)
    <3>1. n - Len(toRelay) \in DOMAIN added /\ toRelay'[n] = added[n - Len(toRelay)]
      BY <2>1, <2>2
    <3>2. added[n - Len(toRelay)].cmd = "DATA"
      BY <1>3, <3>1
    <3>3. toRelay'[n].cmd = "DATA"
      BY <3>1, <3>2
    <3>4. QED
      BY <3>3
  <2>3. CASE ~(n > Len(toRelay))
    <3>1. n \in DOMAIN toRelay /\ toRelay[n].cmd = "BEGIN"
      BY <2>1, <2>3
    <3>2. QED
      BY <3>1 DEF Agree, BeginFirst
  <2>4. QED
    BY <2>2, <2>3
<1>11. BeginMeans'
  BY <1>2, <1>8, <1>9 DEF Agree, BeginMeans
<1>12. DataUpMeans'
  BY <1>2, <1>8, <1>9 DEF Agree, DataUpMeans
<1>13. Distinct(relayMap)' /\ RelayKnows' /\ ClientKnows' /\ SameConns' /\ EndMeans' /\ DataDownMeans'
  BY <1>2, <1>8 DEF Agree, RelayKnows, ClientKnows, SameConns, EndMeans, DataDownMeans, Ending
<1>14. QED
  BY <1>10, <1>11, <1>12, <1>13 DEF Agree

(* Buffers are no matter of which streams there are. *)
LEMMA SameStreamsAgree ==
  ASSUME Agree, UNCHANGED <<toRelay, relayMap, server>>,
         Mentions(toClient', "END") = Mentions(toClient, "END"),
         Mentions(toClient', "DATA") \subseteq Mentions(toClient, "DATA"),
         Filled(clientMap') = Filled(clientMap),
         \A i \in Filled(clientMap) : /\ clientMap'[i].stream_id = clientMap[i].stream_id
                                      /\ clientMap'[i].value.conn = clientMap[i].value.conn
  PROVE  Agree'
<1>1. \A x : IsHeld(clientMap', x) <=> IsHeld(clientMap, x)
  BY HeldAnywhere
<1>2. Distinct(relayMap)' /\ BeginFirst' /\ EndMeans' /\ DataUpMeans' /\ DataDownMeans'
  BY DEF Agree, BeginFirst, EndMeans, DataUpMeans, DataDownMeans, Ending
<1>3. BeginMeans'
  BY <1>1 DEF Agree, BeginMeans
<1>4. RelayKnows' /\ ClientKnows' /\ SameConns'
  BY <1>1 DEF Agree, RelayKnows, ClientKnows, SameConns, Ending
<1>5. QED
  BY <1>2, <1>3, <1>4 DEF Agree

LEMMA UserAgrees ==
  ASSUME TypeOK, TablesOK, Agree, UserStep, Connect => Quiet
  PROVE  Agree'
<1>1. stream_id \in Nat
  BY DEF TypeOK
<1>2. \A id \in Issued : id \in Nat
  BY <1>1 DEF Issued
<1>3. CASE ConnectHangs
  BY <1>3, SameStreamsAgree DEF ConnectHangs, relayVars, serverVars
<1>4. ASSUME NEW id \in Issued, NEW length \in Lengths, Recv(id, length)
      PROVE  Agree'
  <2>1. /\ Filled(clientMap') = Filled(clientMap)
        /\ \A i \in Filled(clientMap) : /\ clientMap'[i].stream_id = clientMap[i].stream_id
                                        /\ clientMap'[i].value.conn = clientMap[i].value.conn
        /\ UNCHANGED <<toRelay, toClient, relayMap, server>>
    BY <1>2, <1>4, Receiving
  <2>2. QED
    BY <2>1, SameStreamsAgree
<1>5. QED
  BY <1>2, <1>3, <1>4, ConnectAgrees, CloseAgrees, SendAgrees DEF UserStep

LEMMA ClientAgrees ==
  ASSUME TypeOK, TablesOK, Agree, ClientStep
  PROVE  Agree'
<1> DEFINE m == Head(toClient)
<1>1. /\ toClient # <<>> /\ toClient' = Tail(toClient)
      /\ m \in Messages /\ m.stream_id \in Nat
      /\ ClientHears(m)
      /\ m.cmd = "DATA" /\ Found(clientMap, m.stream_id) =>
            FoundValue(clientMap, m.stream_id).recv \o SubSeq(m.data, 1, m.length) \in ByteSeqs
      /\ UNCHANGED <<conns, toRelay, relayMap, server>>
  BY ClientReceiving DEF ClientStep
<1>2. \A cmd : /\ m.cmd = cmd => Mentions(toClient, cmd) = {m} \cup Mentions(toClient', cmd)
               /\ m.cmd # cmd => Mentions(toClient', cmd) = Mentions(toClient, cmd)
  <2>1. toClient \in Seq(Messages)
    BY DEF TypeOK
  <2>2. QED
    BY <1>1, <2>1, MentionsTaken
<1> HIDE DEF m
<1>3. \A cmd : Mentions(toClient', cmd) \subseteq Mentions(toClient, cmd)
  BY <1>2
<1>4. CASE UNCHANGED clientMap /\ m.cmd # "END"
  BY <1>1, <1>2, <1>3, <1>4, SameStreamsAgree
<1>5. CASE /\ m.cmd = "DATA" /\ Found(clientMap, m.stream_id)
           /\ clientMap' = SetValue(clientMap, m.stream_id,
                 [FoundValue(clientMap, m.stream_id) EXCEPT !.recv =
                    FoundValue(clientMap, m.stream_id).recv \o SubSeq(m.data, 1, m.length)])
  <2>1. /\ Filled(clientMap') = Filled(clientMap)
        /\ \A i \in Filled(clientMap) : /\ clientMap'[i].stream_id = clientMap[i].stream_id
                                        /\ clientMap'[i].value.conn = clientMap[i].value.conn
    BY <1>1, <1>5, ClientSets
  <2>2. QED
    BY <1>1, <1>2, <1>3, <1>5, <2>1, SameStreamsAgree
<1>6. CASE m.cmd = "END" /\ clientMap' = Remove(clientMap, m.stream_id)
  <2>1. /\ Filled(clientMap') = {i \in Filled(clientMap) : clientMap[i].stream_id # m.stream_id}
        /\ \A i \in Filled(clientMap') : clientMap'[i] = clientMap[i]
    BY <1>1, <1>6, ClientRemoves
  <2>2. /\ Mentions(toClient, "END") = {m} \cup Mentions(toClient', "END")
        /\ Mentions(toClient', "DATA") = Mentions(toClient, "DATA")
    BY <1>2, <1>6
  <2>3. \A x : IsHeld(clientMap', x) <=> IsHeld(clientMap, x) /\ x # m.stream_id
    BY <2>1, HeldAnywhere
  <2>4. \A i \in Filled(relayMap) : relayMap[i].stream_id = m.stream_id => Ending(relayMap[i].value)
    BY <2>2 DEF Agree, EndMeans
  <2>5. \A b \in Mentions(toRelay, "BEGIN") : b.stream_id # m.stream_id
    BY <2>2 DEF Agree, BeginMeans
  <2>6. Distinct(relayMap)' /\ BeginFirst' /\ EndMeans' /\ DataUpMeans' /\ DataDownMeans' /\ SameConns'
    BY <1>1, <2>1, <2>2 DEF Agree, BeginFirst, EndMeans, DataUpMeans, DataDownMeans, SameConns, Ending
  <2>7. BeginMeans'
    BY <1>1, <2>1, <2>2, <2>3, <2>5 DEF Agree, BeginMeans
  <2>8. RelayKnows'
    BY <1>1, <2>3, <2>4 DEF Agree, RelayKnows, Ending
  <2>9. ClientKnows'
    BY <1>1, <2>1, <2>2 DEF Agree, ClientKnows
  <2>10. QED
    BY <2>6, <2>7, <2>8, <2>9 DEF Agree
<1>7. QED
  BY <1>1, <1>4, <1>5, <1>6 DEF ClientHears

(* Behind the first message there is no BEGIN. *)
LEMMA NoBeginLeft ==
  ASSUME TypeOK, BeginFirst, toRelay # <<>>, toRelay' = Tail(toRelay)
  PROVE  Mentions(toRelay', "BEGIN") = {} /\ BeginFirst' /\ BeginMeans'
<1>1. \A i \in DOMAIN toRelay' : i \in Nat \ {0} /\ i + 1 \in DOMAIN toRelay /\ toRelay'[i] = toRelay[i + 1]
  BY Taken DEF TypeOK
<1>2. \A i \in DOMAIN toRelay' : toRelay'[i].cmd # "BEGIN"
  <2> SUFFICES ASSUME NEW i \in DOMAIN toRelay', toRelay'[i].cmd = "BEGIN" PROVE FALSE
    OBVIOUS
  <2>1. i \in Nat \ {0} /\ i + 1 \in DOMAIN toRelay /\ toRelay[i + 1].cmd = "BEGIN"
    BY <1>1
  <2>2. i + 1 = 1
    BY <2>1 DEF BeginFirst
  <2>3. QED
    BY <2>1, <2>2
<1>3. \A m \in Range(toRelay') : m.cmd # "BEGIN"
  BY <1>2, Zenon DEF Range
<1>4. Mentions(toRelay', "BEGIN") = {}
  BY <1>3 DEF Mentions
<1>5. QED
  BY <1>2, <1>4 DEF BeginFirst, BeginMeans

LEMMA RelayBeginAgrees ==
  ASSUME TypeOK, TablesOK, Agree, RelayBegin
  PROVE  Agree'
<1> DEFINE b  == Head(toRelay)
           id == b.stream_id
           k  == b.conn
<1>1. /\ id \in Nat /\ k \in 1 .. conns /\ k \in Conns /\ server[k] = "none"
      /\ \/ /\ toClient' = Append(toClient, Msg("END", id, k))
            /\ server' \in {server, [server EXCEPT ![k] = "open"]}
            /\ UNCHANGED <<relayMap, epoll>>
         \/ /\ toClient' = Append(toClient, Msg("CONNECTED", id, k))
            /\ server' = [server EXCEPT ![k] = "open"]
            /\ Insertable(relayMap, id)
            /\ relayMap' = Insert(relayMap, id, k)
            /\ epoll' = epoll \cup {[sock |-> k, stream_id |-> id]}
      /\ UNCHANGED <<clientMap, conns>>
  BY RelayBeginEffect
<1>2. /\ toRelay # <<>> /\ Head(toRelay).cmd = "BEGIN" /\ toRelay' = Tail(toRelay)
      /\ toRelay \in Seq(Messages) /\ toClient \in Seq(Messages)
      /\ server \in [Conns -> {"none", "open", "fin", "reset", "closed"}]
      /\ 1 .. conns \subseteq Conns
  BY ConnsBound DEF RelayBegin, RelayReads, TypeOK
<1>3. Mentions(toRelay', "BEGIN") = {} /\ BeginFirst' /\ BeginMeans'
  BY <1>2, NoBeginLeft DEF Agree
<1>4. /\ Mentions(toRelay, "BEGIN") = {b} /\ b.stream_id = id
      /\ Mentions(toRelay', "END") = Mentions(toRelay, "END")
      /\ Mentions(toRelay', "DATA") = Mentions(toRelay, "DATA")
  BY <1>2, <1>3, MentionsTaken
<1>5. ASSUME NEW cmd \in {"END", "CONNECTED"}
      PROVE  LET m == Msg(cmd, id, k)
             IN  /\ m \in Messages /\ m.cmd = cmd /\ m.stream_id = id
                 /\ Mentions(Append(toClient, m), cmd) = Mentions(toClient, cmd) \cup {m}
                 /\ \A other : other # cmd =>
                       Mentions(Append(toClient, m), other) = Mentions(toClient, other)
  <2> DEFINE m == Msg(cmd, id, k)
  <2>1. k \in 0 .. MaxConns
    BY <1>1 DEF Conns
  <2> HIDE DEF id, k
  <2>2. m \in Messages /\ m.cmd = cmd /\ m.stream_id = id
    BY <1>1, <2>1, MsgType
  <2> HIDE DEF m
  <2>3. /\ Mentions(Append(toClient, m), m.cmd) = Mentions(toClient, m.cmd) \cup {m}
        /\ \A other : other # m.cmd =>
              Mentions(Append(toClient, m), other) = Mentions(toClient, other)
    BY <1>2, <2>2, MessageAdded
  <2>4. QED
    BY <2>2, <2>3 DEF m
<1>6. /\ ~IsHeld(relayMap, id)
      /\ \A m \in Mentions(toClient, "END") : m.stream_id # id
      /\ IsHeld(clientMap, id) \/ \E m \in Mentions(toRelay, "END") : m.stream_id = id
      /\ \A i \in Filled(clientMap) :
            clientMap[i].stream_id = id <=> clientMap[i].value.conn = k
      /\ \A m \in Mentions(toRelay, "DATA") : m.stream_id = id <=> m.conn = k
  BY <1>4 DEF Agree, BeginMeans
<1> HIDE DEF b, id, k
<1>7. \A i \in Filled(relayMap) :
         /\ relayMap[i].stream_id # id /\ relayMap[i].value # k
         /\ Ending(relayMap[i].value) <=> Ending(relayMap[i].value)'
  <2>1. \A i \in Filled(relayMap) : relayMap[i].stream_id # id
    BY <1>6, HeldAnywhere
  <2>2. \A i \in Filled(relayMap) : relayMap[i].value \in Conns /\ relayMap[i].value # k
    BY <1>1, <1>2 DEF TablesOK, RelayTable
  <2>3. \A j \in Conns : j # k => server'[j] = server[j]
    BY <1>1, <1>2
  <2>4. \A i \in Filled(relayMap) : server'[relayMap[i].value] = server[relayMap[i].value]
    BY <2>2, <2>3
  <2>5. CASE UNCHANGED relayMap
    BY <2>1, <2>2, <2>4, <2>5 DEF Ending
  <2>6. CASE Insertable(relayMap, id) /\ relayMap' = Insert(relayMap, id, k)
             /\ epoll' = epoll \cup {[sock |-> k, stream_id |-> id]}
             /\ server' = [server EXCEPT ![k] = "open"]
    <3>1. \A i \in Filled(relayMap) : relayMap'[i] = relayMap[i]
      BY <1>1, <2>6, RelayInserts
    <3>2. QED
      BY <2>1, <2>2, <2>4, <3>1 DEF Ending
  <2>7. QED
    BY <1>1, <2>5, <2>6
<1>8. CASE /\ toClient' = Append(toClient, Msg("END", id, k))
           /\ UNCHANGED relayMap
  <2> DEFINE m == Msg("END", id, k)
  <2>1. /\ m.stream_id = id
        /\ Mentions(toClient', "END") = Mentions(toClient, "END") \cup {m}
        /\ Mentions(toClient', "DATA") = Mentions(toClient, "DATA")
    BY <1>5, <1>8
  <2> HIDE DEF m
  <2>2. Distinct(relayMap)' /\ SameConns' /\ DataUpMeans' /\ DataDownMeans'
    BY <1>1, <1>4, <1>8, <2>1 DEF Agree, SameConns, DataUpMeans, DataDownMeans
  <2>3. RelayKnows'
    BY <1>1, <1>4, <1>7, <1>8 DEF Agree, RelayKnows
  <2>4. ClientKnows'
    BY <1>1, <1>4, <1>8, <2>1 DEF Agree, ClientKnows
  <2>5. EndMeans'
    BY <1>7, <1>8, <2>1 DEF Agree, EndMeans
  <2>6. QED
    BY <1>3, <2>2, <2>3, <2>4, <2>5 DEF Agree
<1>9. CASE /\ toClient' = Append(toClient, Msg("CONNECTED", id, k))
           /\ server' = [server EXCEPT ![k] = "open"]
           /\ Insertable(relayMap, id)
           /\ relayMap' = Insert(relayMap, id, k)
           /\ epoll' = epoll \cup {[sock |-> k, stream_id |-> id]}
  <2> DEFINE s == InsertSlot(relayMap, id)
  <2>1. /\ Mentions(toClient', "END") = Mentions(toClient, "END")
        /\ Mentions(toClient', "DATA") = Mentions(toClient, "DATA")
    BY <1>5, <1>9
  <2>2. /\ Filled(relayMap') = Filled(relayMap) \cup {s}
        /\ relayMap'[s].stream_id = id /\ relayMap'[s].value = k
        /\ \A i \in Filled(relayMap) : relayMap'[i] = relayMap[i]
    BY <1>1, <1>9, RelayInserts
  <2> HIDE DEF s
  <2>3. Distinct(relayMap)'
    <3>1. Distinct(relayMap)
      BY DEF Agree
    <3>2. \A i, j \in Filled(relayMap) : relayMap[i].stream_id = relayMap[j].stream_id => i = j
      BY <3>1 DEF Distinct, Filled
    <3>3. \A i, j \in Filled(relayMap') : relayMap'[i].stream_id = relayMap'[j].stream_id => i = j
      BY <1>7, <2>2, <3>2
    <3>4. QED
      BY <3>3 DEF Distinct, Filled
  <2>4. \A x : IsHeld(relayMap, x) => IsHeld(relayMap', x)
    BY <2>2, HeldAnywhere
  <2>5. IsHeld(relayMap', id)
    BY <2>2, HeldAnywhere
  <2>6. SameConns'
    BY <1>1, <1>6, <2>2 DEF Agree, SameConns
  <2>7. DataUpMeans'
    BY <1>4, <1>6, <2>2 DEF Agree, DataUpMeans
  <2>8. DataDownMeans'
    BY <1>1, <2>1 DEF Agree, DataDownMeans
  <2>9. RelayKnows'
    BY <1>1, <1>4, <1>6, <1>7, <2>2 DEF Agree, RelayKnows
  <2>10. ClientKnows'
    BY <1>1, <1>4, <2>1, <2>4, <2>5 DEF Agree, ClientKnows
  <2>11. EndMeans'
    BY <1>6, <1>7, <2>1, <2>2 DEF Agree, EndMeans
  <2>12. QED
    BY <1>3, <2>3, <2>6, <2>7, <2>8, <2>9, <2>10, <2>11 DEF Agree
<1>10. QED
  BY <1>1, <1>8, <1>9

(* A stream the relay closes is known by its END. *)
LEMMA ClosingAgrees ==
  ASSUME TypeOK, TablesOK, Agree, NEW id \in Nat, Found(relayMap, id), CloseSocket(id),
         UNCHANGED <<clientMap, conns>>,
         NEW m, m.stream_id = id,
         Mentions(toClient', "END") = Mentions(toClient, "END") \cup {m},
         Mentions(toClient', "DATA") = Mentions(toClient, "DATA"),
         Mentions(toRelay', "BEGIN") = Mentions(toRelay, "BEGIN"),
         Mentions(toRelay', "DATA") = Mentions(toRelay, "DATA"),
         \A e \in Mentions(toRelay, "END") : e \in Mentions(toRelay', "END") \/ e.stream_id = id,
         BeginFirst'
  PROVE  Agree'
<1> DEFINE s == FoundSlot(relayMap, id)
<1>1. /\ s \in Filled(relayMap) /\ relayMap[s].stream_id = id
      /\ Filled(relayMap') = Filled(relayMap) \ {s}
      /\ \A i \in Filled(relayMap') :
            /\ relayMap'[i] = relayMap[i]
            /\ server'[relayMap[i].value] = server[relayMap[i].value]
  BY RelayCloses
<1> HIDE DEF s
<1>2. \A i, j \in Filled(relayMap) : relayMap[i].stream_id = relayMap[j].stream_id => i = j
  BY DEF Agree, Distinct, Filled
<1>3. \A i \in Filled(relayMap') : relayMap[i].stream_id # id
  BY <1>1, <1>2
<1>4. \A x : IsHeld(relayMap', x) <=> IsHeld(relayMap, x) /\ x # id
  BY <1>1, <1>3, HeldAnywhere
<1>5. \A b \in Mentions(toRelay, "BEGIN") : b.stream_id # id
  <2>1. IsHeld(relayMap, id)
    BY <1>1, HeldAnywhere
  <2>2. QED
    BY <2>1 DEF Agree, BeginMeans
<1>6. Distinct(relayMap)'
  <2>1. \A i, j \in Filled(relayMap') : relayMap'[i].stream_id = relayMap'[j].stream_id => i = j
    BY <1>1, <1>2
  <2>2. QED
    BY <2>1 DEF Distinct, Filled
<1>7. BeginMeans'
  BY <1>4, <1>5 DEF Agree, BeginMeans
<1>8. RelayKnows'
  BY <1>1, <1>3 DEF Agree, RelayKnows, Ending
<1>9. ClientKnows'
  BY <1>4 DEF Agree, ClientKnows
<1>10. SameConns' /\ DataUpMeans' /\ DataDownMeans'
  BY <1>1 DEF Agree, SameConns, DataUpMeans, DataDownMeans
<1>11. EndMeans'
  BY <1>1, <1>3 DEF Agree, EndMeans, Ending
<1>12. QED
  BY <1>6, <1>7, <1>8, <1>9, <1>10, <1>11 DEF Agree

LEMMA RelayDataAgrees ==
  ASSUME TypeOK, TablesOK, Agree, RelayData
  PROVE  Agree'
<1> DEFINE d == Head(toRelay)
           e == Msg("END", d.stream_id, d.conn)
<1>1. /\ toRelay # <<>> /\ d.cmd = "DATA" /\ toRelay' = Tail(toRelay)
      /\ toRelay \in Seq(Messages) /\ toClient \in Seq(Messages)
      /\ d.stream_id \in Nat /\ d.conn \in 0 .. MaxConns
      /\ UNCHANGED <<clientMap, conns, relayMap, server>>
  BY RelayReadsTypes DEF RelayData, RelayReads, clientVars, TypeOK
<1>2. \/ UNCHANGED toClient
      \/ /\ toClient' = Append(toClient, e)
         /\ \/ ~Found(relayMap, d.stream_id)
            \/ /\ Found(relayMap, d.stream_id)
               /\ server[FoundValue(relayMap, d.stream_id)] # "open"
  BY DEF RelayData, Replies
<1>3. Mentions(toRelay', "BEGIN") = {} /\ BeginFirst' /\ BeginMeans'
  BY <1>1, NoBeginLeft DEF Agree
<1>4. /\ Mentions(toRelay, "BEGIN") = {}
      /\ Mentions(toRelay', "END") = Mentions(toRelay, "END")
      /\ Mentions(toRelay', "DATA") \subseteq Mentions(toRelay, "DATA")
  <2>1. Mentions(toRelay', "DATA") \subseteq Mentions(toRelay, "DATA")
    BY <1>1, MentionsTaken
  <2>2. Mentions(toRelay', "END") = Mentions(toRelay, "END")
    BY <1>1, MentionsTaken
  <2>3. Mentions(toRelay', "BEGIN") = Mentions(toRelay, "BEGIN")
    BY <1>1, MentionsTaken
  <2>4. QED
    BY <1>3, <2>1, <2>2, <2>3
<1>5. \A i \in Filled(relayMap) :
         /\ relayMap[i].stream_id = d.stream_id
         /\ server[FoundValue(relayMap, d.stream_id)] # "open"
         => Ending(relayMap[i].value)
  <2> SUFFICES ASSUME NEW i \in Filled(relayMap), relayMap[i].stream_id = d.stream_id,
                      server[FoundValue(relayMap, d.stream_id)] # "open"
               PROVE  Ending(relayMap[i].value)
    OBVIOUS
  <2>1. i \in Slots /\ Holds(relayMap, i, d.stream_id)
    BY DEF Filled, Holds
  <2>2. Consistent(relayMap)
    BY DEF Agree, TablesOK, RelayTable, Consistent
  <2>3. FoundValue(relayMap, d.stream_id) = relayMap[i].value
    BY <1>1, <2>1, <2>2, HeldIsFound
  <2>4. QED
    BY <2>3 DEF Ending, TablesOK, RelayTable
<1>6. ASSUME NEW i \in Filled(relayMap), relayMap[i].stream_id = d.stream_id
      PROVE  Found(relayMap, d.stream_id)
  BY <1>1, <1>6, HeldAnywhere, RelayFinds
<1>7. \/ UNCHANGED toClient
      \/ /\ e.stream_id = d.stream_id
         /\ Mentions(toClient', "END") = Mentions(toClient, "END") \cup {e}
         /\ Mentions(toClient', "DATA") = Mentions(toClient, "DATA")
         /\ \A i \in Filled(relayMap) : relayMap[i].stream_id = d.stream_id =>
               Ending(relayMap[i].value)
  <2>1. e \in Messages /\ e.cmd = "END" /\ e.stream_id = d.stream_id
    <3> DEFINE id == d.stream_id
               k  == d.conn
    <3>1. id \in Nat /\ k \in 0 .. MaxConns
      BY <1>1
    <3> HIDE DEF d, id, k
    <3>2. LET m == Msg("END", id, k) IN m \in Messages /\ m.cmd = "END" /\ m.stream_id = id
      BY <3>1, MsgType
    <3>3. QED
      BY <3>2 DEF id, k
  <2> HIDE DEF e, d
  <2>2. CASE UNCHANGED toClient
    BY <2>2
  <2>3. CASE toClient' = Append(toClient, e)
    <3>1. /\ Mentions(Append(toClient, e), e.cmd) = Mentions(toClient, e.cmd) \cup {e}
          /\ \A other : other # e.cmd => Mentions(Append(toClient, e), other) = Mentions(toClient, other)
      BY <1>1, <2>1, MessageAdded
    <3>2. CASE ~Found(relayMap, d.stream_id)
      BY <1>6, <2>1, <2>3, <3>1, <3>2
    <3>3. CASE server[FoundValue(relayMap, d.stream_id)] # "open"
      BY <1>5, <2>1, <2>3, <3>1, <3>3
    <3>4. CASE UNCHANGED toClient
      BY <3>4
    <3>5. QED
      BY <1>2, <3>2, <3>3, <3>4
  <2>4. QED
    BY <1>2, <2>2, <2>3
<1> HIDE DEF e, d
<1>8. /\ Mentions(toClient, "END") \subseteq Mentions(toClient', "END")
      /\ Mentions(toClient', "DATA") = Mentions(toClient, "DATA")
  BY <1>7
<1>9. EndMeans'
  BY <1>1, <1>7 DEF Agree, EndMeans, Ending
<1>10. Distinct(relayMap)' /\ RelayKnows' /\ SameConns' /\ DataUpMeans' /\ DataDownMeans'
  BY <1>1, <1>4, <1>8 DEF Agree, RelayKnows, SameConns, DataUpMeans, DataDownMeans, Ending
<1>11. ClientKnows'
  BY <1>1, <1>4, <1>8 DEF Agree, ClientKnows
<1>12. QED
  BY <1>3, <1>9, <1>10, <1>11 DEF Agree

LEMMA RelayEndAgrees ==
  ASSUME TypeOK, TablesOK, Agree, RelayEnd
  PROVE  Agree'
<1> DEFINE h  == Head(toRelay)
           id == h.stream_id
           m  == Msg("END", id, 0)
<1>1. /\ toRelay # <<>> /\ h.cmd = "END" /\ toRelay' = Tail(toRelay)
      /\ toRelay \in Seq(Messages) /\ toClient \in Seq(Messages)
      /\ id \in Nat
      /\ \/ Found(relayMap, id) /\ CloseSocket(id)
         \/ ~Found(relayMap, id) /\ UNCHANGED <<epoll, server, inbox, relayMap>>
      /\ toClient' = Append(toClient, m)
      /\ UNCHANGED <<clientMap, conns>>
  BY RelayReadsTypes DEF RelayEnd, RelayReads, Replies, clientVars, TypeOK
<1>2. Mentions(toRelay', "BEGIN") = {} /\ BeginFirst' /\ BeginMeans'
  BY <1>1, NoBeginLeft DEF Agree
<1>3. /\ Mentions(toRelay, "BEGIN") = {}
      /\ Mentions(toRelay, "END") = {h} \cup Mentions(toRelay', "END")
      /\ Mentions(toRelay', "DATA") = Mentions(toRelay, "DATA")
  BY <1>1, <1>2, MentionsTaken
<1>4. /\ m.stream_id = id
      /\ Mentions(toClient', "END") = Mentions(toClient, "END") \cup {m}
      /\ Mentions(toClient', "DATA") = Mentions(toClient, "DATA")
  <2>1. 0 \in 0 .. MaxConns
    BY StreamsAssumption
  <2> HIDE DEF id
  <2>2. m \in Messages /\ m.cmd = "END" /\ m.stream_id = id
    BY <1>1, <2>1, MsgType
  <2> HIDE DEF m
  <2>3. /\ Mentions(Append(toClient, m), m.cmd) = Mentions(toClient, m.cmd) \cup {m}
        /\ \A other : other # m.cmd => Mentions(Append(toClient, m), other) = Mentions(toClient, other)
    BY <1>1, <2>2, MessageAdded
  <2>4. QED
    BY <1>1, <2>2, <2>3
<1>5. \A e \in Mentions(toRelay, "END") : e \in Mentions(toRelay', "END") \/ e.stream_id = id
  BY <1>3
<1> HIDE DEF m, id, h
<1>6. CASE Found(relayMap, id) /\ CloseSocket(id)
  BY <1>1, <1>2, <1>3, <1>4, <1>5, <1>6, ClosingAgrees
<1>7. CASE ~Found(relayMap, id) /\ UNCHANGED <<epoll, server, inbox, relayMap>>
  <2>1. \A i \in Filled(relayMap) : relayMap[i].stream_id # id
    BY <1>1, <1>7, HeldAnywhere, RelayFinds
  <2>2. Distinct(relayMap)' /\ SameConns' /\ DataUpMeans' /\ DataDownMeans'
    BY <1>1, <1>3, <1>4, <1>7 DEF Agree, SameConns, DataUpMeans, DataDownMeans
  <2>3. RelayKnows'
    BY <1>1, <1>5, <1>7, <2>1 DEF Agree, RelayKnows, Ending
  <2>4. ClientKnows'
    BY <1>1, <1>3, <1>4, <1>7 DEF Agree, ClientKnows
  <2>5. EndMeans'
    BY <1>4, <1>7, <2>1 DEF Agree, EndMeans, Ending
  <2>6. QED
    BY <1>2, <2>2, <2>3, <2>4, <2>5 DEF Agree
<1>8. QED
  BY <1>1, <1>6, <1>7

LEMMA RelayInternetAgrees ==
  ASSUME TypeOK, TablesOK, Agree, NEW event \in epoll, RelayInternet(event)
  PROVE  Agree'
<1> DEFINE id   == event.stream_id
           k    == FoundValue(relayMap, id)
           size == Piece(Len(inbox[k]))
           m    == DataMsg(id, k, SubSeq(inbox[k], 1, size), size)
           e    == Msg("END", id, k)
<1>1. /\ id \in Nat /\ Found(relayMap, id) /\ k \in 1 .. conns /\ k \in Conns
      /\ \/ /\ toClient' = Append(toClient, m)
            /\ m \in Messages /\ m.cmd = "DATA" /\ m.stream_id = id /\ m.conn = k
            /\ UNCHANGED <<relayMap, epoll, server>>
         \/ /\ CloseSocket(id)
            /\ toClient' = Append(toClient, e)
      /\ UNCHANGED <<clientMap, conns, toRelay>>
  BY RelayInternetEffect
<1>2. toClient \in Seq(Messages)
  BY DEF TypeOK
<1> HIDE DEF m
<1>3. CASE /\ toClient' = Append(toClient, m)
           /\ m \in Messages /\ m.cmd = "DATA" /\ m.stream_id = id /\ m.conn = k
           /\ UNCHANGED <<relayMap, epoll, server>>
  <2>1. /\ Mentions(toClient', "DATA") = Mentions(toClient, "DATA") \cup {m}
        /\ Mentions(toClient', "END") = Mentions(toClient, "END")
    BY <1>2, <1>3, MessageAdded, SMTT(30)
  <2>2. PICK s \in Filled(relayMap) : relayMap[s].stream_id = id /\ relayMap[s].value = k
    BY <1>1, RelayFinds
  <2> HIDE DEF id, k
  <2>3. DataDownMeans'
    BY <1>1, <1>3, <2>1, <2>2 DEF Agree, DataDownMeans, SameConns
  <2>4. Distinct(relayMap)' /\ BeginFirst' /\ BeginMeans' /\ RelayKnows' /\ ClientKnows'
    BY <1>1, <1>3, <2>1 DEF Agree, BeginFirst, BeginMeans, RelayKnows, ClientKnows, Ending
  <2>5. SameConns' /\ EndMeans' /\ DataUpMeans'
    BY <1>1, <1>3, <2>1 DEF Agree, SameConns, EndMeans, DataUpMeans, Ending
  <2>6. QED
    BY <2>3, <2>4, <2>5 DEF Agree
<1>4. CASE CloseSocket(id) /\ toClient' = Append(toClient, e)
  <2>1. e \in Messages /\ e.cmd = "END" /\ e.stream_id = id
    <3>1. k \in 0 .. MaxConns
      BY <1>1 DEF Conns
    <3> HIDE DEF id, k
    <3>2. QED
      BY <1>1, <3>1, MsgType
  <2> HIDE DEF e, id, k
  <2>2. /\ Mentions(Append(toClient, e), e.cmd) = Mentions(toClient, e.cmd) \cup {e}
        /\ \A other : other # e.cmd => Mentions(Append(toClient, e), other) = Mentions(toClient, other)
    BY <1>2, <2>1, MessageAdded
  <2>3. /\ Mentions(toClient', "END") = Mentions(toClient, "END") \cup {e}
        /\ Mentions(toClient', "DATA") = Mentions(toClient, "DATA")
    BY <1>4, <2>1, <2>2
  <2>4. BeginFirst' /\ \A cmd : Mentions(toRelay', cmd) = Mentions(toRelay, cmd)
    BY <1>1 DEF Agree, BeginFirst, Mentions
  <2>5. QED
    BY <1>1, <1>4, <2>1, <2>3, <2>4, ClosingAgrees
<1>5. QED
  BY <1>1, <1>3, <1>4

LEMMA RelayAgrees ==
  ASSUME TypeOK, TablesOK, Agree, RelayStep
  PROVE  Agree'
BY RelayBeginAgrees, RelayDataAgrees, RelayEndAgrees, RelayInternetAgrees DEF RelayStep

LEMMA ServerAgrees ==
  ASSUME TypeOK, TablesOK, Agree, ServerStep
  PROVE  Agree'
<1>1. UNCHANGED <<clientMap, toRelay, toClient, relayMap>>
  BY DEF ServerStep, ServerSends, ServerCloses, clientVars, relayVars
<1>2. \A j \in Conns : Ending(j) => Ending(j)'
  <2>1. server \in [Conns -> {"none", "open", "fin", "reset", "closed"}]
    BY DEF TypeOK
  <2>2. ASSUME NEW k \in Conns, ServerCloses(k), NEW j \in Conns, Ending(j)
        PROVE  Ending(j)'
    <3>1. server[k] = "open" /\ server' \in {[server EXCEPT ![k] = "fin"], [server EXCEPT ![k] = "reset"]}
      BY <2>2 DEF ServerCloses
    <3>2. j # k /\ server'[j] = server[j]
      BY <2>1, <2>2, <3>1 DEF Ending
    <3>3. QED
      BY <2>2, <3>2 DEF Ending
  <2>3. ASSUME NEW k \in Conns, ServerSends(k)
        PROVE  UNCHANGED server
    BY <2>3 DEF ServerSends
  <2>4. QED
    BY <2>2, <2>3 DEF ServerStep, Ending
<1>3. \A i \in Filled(relayMap) : relayMap[i].value \in Conns
  BY ConnsBound DEF TablesOK, RelayTable
<1>4. RelayKnows' /\ EndMeans'
  BY <1>1, <1>2, <1>3 DEF Agree, RelayKnows, EndMeans
<1>5. Distinct(relayMap)' /\ BeginFirst' /\ BeginMeans' /\ ClientKnows' /\ SameConns'
      /\ DataUpMeans' /\ DataDownMeans'
  BY <1>1 DEF Agree, BeginFirst, BeginMeans, ClientKnows, SameConns, DataUpMeans, DataDownMeans
<1>6. QED
  BY <1>4, <1>5 DEF Agree

(* No step of a calm run, one without hasty connects, is a hasty connect. *)
LEMMA CalmBefore ==
  ASSUME TypeOK, [Next]_vars, hasty' = 0
  PROVE  hasty = 0 /\ (Connect => Quiet)
<1>1. hasty \in Nat
  BY StreamsAssumption DEF TypeOK
<1>2. CASE Connect
  BY <1>1, <1>2 DEF Connect
<1>3. hasty' = hasty \/ Connect
  <2>1. ASSUME UserStep PROVE hasty' = hasty \/ Connect
    BY <2>1, ZenonT(30) DEF UserStep, ConnectHangs, Close, Send, Recv
  <2>2. ASSUME RelayStep PROVE hasty' = hasty
    BY <2>2 DEF RelayStep, RelayBegin, RelayData, RelayEnd, RelayInternet, clientVars
  <2>3. ASSUME ServerStep PROVE hasty' = hasty
    BY <2>3 DEF ServerStep, ServerSends, ServerCloses, clientVars
  <2>4. ASSUME ClientStep PROVE hasty' = hasty
    BY <2>4 DEF ClientStep, ClientReceives
  <2>5. QED
    BY <2>1, <2>2, <2>3, <2>4, SMTT(30) DEF Next, vars, clientVars
<1>4. QED
  BY <1>2, <1>3

LEMMA AgreeKept ==
  ASSUME TypeOK, TablesOK, Agree, [Next]_vars, Connect => Quiet
  PROVE  Agree'
<1>1. CASE UNCHANGED vars
  <2>1. UNCHANGED <<clientMap, toRelay, toClient, relayMap, server>>
    BY <1>1 DEF vars, clientVars, relayVars, serverVars
  <2>2. QED
    BY <2>1, SameStreamsAgree DEF Mentions
<1>2. QED
  BY <1>1, UserAgrees, ClientAgrees, RelayAgrees, ServerAgrees DEF Next

(* What the first two parts say of the relay's sockets. *)
LEMMA EventsHold ==
  ASSUME TypeOK, TablesOK, hasty = 0 => Agree
  PROVE  EventsHaveEntry
<1>1. \A i \in Filled(relayMap) : relayMap[i].stream_id \in Nat
  BY TablesTyped DEF Tables, Filled
<1>2. ASSUME NEW event \in epoll
      PROVE  /\ server[event.sock] \in {"open", "fin", "reset"}
             /\ Found(relayMap, event.stream_id)
             /\ hasty = 0 => FoundValue(relayMap, event.stream_id) = event.sock
  <2>1. PICK i \in Filled(relayMap) : event.sock = relayMap[i].value
                                      /\ event.stream_id = relayMap[i].stream_id
    BY DEF TablesOK, Waiting
  <2>2. Found(relayMap, event.stream_id)
    BY <1>1, <2>1, HeldAnywhere, RelayFinds
  <2>3. ASSUME hasty = 0
        PROVE  FoundValue(relayMap, event.stream_id) = event.sock
    <3>1. Consistent(relayMap)
      BY <2>3 DEF Agree, TablesOK, RelayTable, Consistent
    <3>2. i \in Slots /\ Holds(relayMap, i, event.stream_id)
      BY <2>1 DEF Filled, Holds
    <3>3. QED
      BY <1>1, <2>1, <3>1, <3>2, HeldIsFound
  <2>4. QED
    BY <2>1, <2>2, <2>3 DEF TablesOK, RelayTable
<1>3. ASSUME NEW id \in Ids(relayMap)
      PROVE  [sock |-> FoundValue(relayMap, id), stream_id |-> id] \in epoll
  <2>1. PICK i \in Filled(relayMap) : relayMap[i].stream_id = id
    BY DEF Ids, Filled
  <2>2. id \in Nat /\ Found(relayMap, id)
    BY <1>1, <2>1, HeldAnywhere, RelayFinds
  <2>3. PICK s \in Filled(relayMap) : relayMap[s].stream_id = id
                                      /\ FoundValue(relayMap, id) = relayMap[s].value
    BY <2>2, RelayFinds
  <2>4. QED
    BY <2>3 DEF TablesOK, Waiting
<1>4. QED
  BY <1>2, <1>3 DEF EventsHaveEntry

(* When nothing is under way no stream can be at one end alone. *)
LEMMA QuietTablesAgree ==
  ASSUME TypeOK, TablesOK, Agree, Quiet
  PROVE  /\ Ids(clientMap) = Ids(relayMap)
         /\ \A id \in Ids(clientMap) : FoundValue(clientMap, id).conn = FoundValue(relayMap, id)
<1>1. \A cmd : Mentions(toRelay, cmd) = {} /\ Mentions(toClient, cmd) = {}
  BY NoMessages DEF Quiet
<1>2. \A i \in Filled(relayMap) : ~Ending(relayMap[i].value)
  <2> SUFFICES ASSUME NEW i \in Filled(relayMap) PROVE ~Ending(relayMap[i].value)
    OBVIOUS
  <2> DEFINE event == [sock |-> relayMap[i].value, stream_id |-> relayMap[i].stream_id]
  <2>1. event \in epoll /\ event.sock = relayMap[i].value
    BY DEF TablesOK, Waiting
  <2>2. QED
    BY <2>1 DEF Quiet, Ready, Ending
<1>3. \A id : IsHeld(clientMap, id) <=> IsHeld(relayMap, id)
  <2>1. \A i \in Filled(clientMap) : IsHeld(relayMap, clientMap[i].stream_id)
    BY <1>1 DEF Agree, ClientKnows
  <2>2. \A i \in Filled(relayMap) : IsHeld(clientMap, relayMap[i].stream_id)
    BY <1>1, <1>2 DEF Agree, RelayKnows
  <2>3. QED
    BY <2>1, <2>2, HeldAnywhere
<1>4. \A map, id : id \in Ids(map) <=> IsHeld(map, id)
  BY DEF Ids, IsHeld, Holds
<1>5. Ids(clientMap) = Ids(relayMap)
  BY <1>3, <1>4
<1>6. ASSUME NEW id \in Ids(clientMap)
      PROVE  FoundValue(clientMap, id).conn = FoundValue(relayMap, id)
  <2>1. IsHeld(clientMap, id) /\ IsHeld(relayMap, id)
    BY <1>3, <1>4
  <2>2. id \in Nat
    BY <2>1, HeldAnywhere, TablesTyped DEF Tables, Filled
  <2>3. Found(clientMap, id) /\ Found(relayMap, id)
    BY <2>1, <2>2, ClientFinds, RelayFinds
  <2>4. /\ FoundSlot(clientMap, id) \in Filled(clientMap)
        /\ clientMap[FoundSlot(clientMap, id)].stream_id = id
    BY <2>2, <2>3, FoundHolds DEF Holds, Filled
  <2>5. /\ FoundSlot(relayMap, id) \in Filled(relayMap)
        /\ relayMap[FoundSlot(relayMap, id)].stream_id = id
    BY <2>2, <2>3, RelayFinds
  <2>6. QED
    BY <2>4, <2>5 DEF Agree, SameConns, FoundValue
<1>7. QED
  BY <1>5, <1>6

-----------------------------------------------------------------------------
(* The bytes to the servers. *)
LEMMA BytesRun ==
  ASSUME NEW k \in Conns, NEW first \in Nat \ {0}, NEW last \in Nat, NEW n \in Nat,
         last = first + n - 1
  PROVE  /\ Bytes(k, first, last) \in ByteSeqs /\ Len(Bytes(k, first, last)) = n
         /\ \A i \in 1 .. n : Bytes(k, first, last)[i] = <<k, first + i - 1>>
<1>1. first \in Nat /\ last \in Int /\ first <= last + 1 /\ last - first + 1 = n
  OBVIOUS
<1>2. QED
  BY <1>1, BytesType, ZenonT(30)

LEMMA BytesJoined ==
  ASSUME NEW k \in Conns, NEW a \in Nat, NEW c \in Nat, NEW b \in Nat, c = a + 1, a <= b
  PROVE  Bytes(k, 1, a) \o Bytes(k, c, b) = Bytes(k, 1, b)
<1> DEFINE s == Bytes(k, 1, a)
           t == Bytes(k, c, b)
           u == Bytes(k, 1, b)
           n == b - a
<1>1. n \in Nat /\ b = c + n - 1 /\ c \in Nat \ {0}
  OBVIOUS
<1> HIDE DEF n
<1>2. s \in ByteSeqs /\ Len(s) = a /\ \A i \in 1 .. a : s[i] = <<k, i>>
  <2>1. ASSUME NEW one, one = 1
        PROVE  Bytes(k, one, a) \in ByteSeqs /\ Len(Bytes(k, one, a)) = a
               /\ \A i \in 1 .. a : Bytes(k, one, a)[i] = <<k, one + i - 1>>
    <3>1. one \in Nat \ {0} /\ a = one + a - 1
      BY <2>1
    <3>2. QED
      BY <3>1, BytesRun
  <2>2. s \in ByteSeqs /\ Len(s) = a /\ \A i \in 1 .. a : s[i] = <<k, 1 + i - 1>>
    BY <2>1
  <2> HIDE DEF s
  <2>3. \A i \in 1 .. a : 1 + i - 1 = i
    OBVIOUS
  <2>4. QED
    BY <2>2, <2>3
<1>3. u \in ByteSeqs /\ Len(u) = b /\ \A i \in 1 .. b : u[i] = <<k, i>>
  <2>1. ASSUME NEW one, one = 1
        PROVE  Bytes(k, one, b) \in ByteSeqs /\ Len(Bytes(k, one, b)) = b
               /\ \A i \in 1 .. b : Bytes(k, one, b)[i] = <<k, one + i - 1>>
    <3>1. one \in Nat \ {0} /\ b = one + b - 1
      BY <2>1
    <3>2. QED
      BY <3>1, BytesRun
  <2>2. u \in ByteSeqs /\ Len(u) = b /\ \A i \in 1 .. b : u[i] = <<k, 1 + i - 1>>
    BY <2>1
  <2> HIDE DEF u
  <2>3. \A i \in 1 .. b : 1 + i - 1 = i
    OBVIOUS
  <2>4. QED
    BY <2>2, <2>3
<1>4. t \in ByteSeqs /\ Len(t) = n /\ \A i \in 1 .. n : t[i] = <<k, c + i - 1>>
  BY <1>1, BytesRun
<1> HIDE DEF s, t, u
<1>5. a + n = b
  BY DEF n
<1>6. /\ s \o t \in ByteSeqs /\ Len(s \o t) = b
      /\ \A i \in 1 .. b : (s \o t)[i] = IF i <= a THEN s[i] ELSE t[i - a]
  <2>1. /\ s \o t \in ByteSeqs /\ Len(s \o t) = Len(s) + Len(t)
        /\ \A i \in 1 .. Len(s) + Len(t) : (s \o t)[i] = IF i <= Len(s) THEN s[i] ELSE t[i - Len(s)]
    <3>1. s \in ByteSeqs /\ t \in ByteSeqs
      BY <1>2, <1>4
    <3>2. QED
      BY ONLY <3>1, ConcatProperties, ZenonT(30) DEF ByteSeqs
  <2>2. Len(s) = a /\ Len(t) = n
    BY <1>2, <1>4
  <2>3. QED
    BY <1>5, <2>1, <2>2, Zenon
<1>7. ASSUME NEW i \in 1 .. b
      PROVE  (s \o t)[i] = u[i]
  <2>1. u[i] = <<k, i>> /\ (s \o t)[i] = IF i <= a THEN s[i] ELSE t[i - a]
    BY <1>3, <1>6, Zenon
  <2>2. CASE i <= a
    <3>1. i \in 1 .. a
      BY <2>2
    <3>2. s[i] = <<k, i>>
      BY <1>2, <3>1, Zenon
    <3>3. QED
      BY <2>1, <2>2, <3>2, Zenon
  <2>3. CASE ~(i <= a)
    <3>1. i - a \in 1 .. n /\ c + (i - a) - 1 = i
      BY <1>1, <1>5, <2>3
    <3>2. t[i - a] = <<k, c + (i - a) - 1>>
      BY <1>4, <3>1, Zenon
    <3>3. QED
      BY <2>1, <2>3, <3>1, <3>2, Zenon
  <2>4. QED
    BY <2>2, <2>3
<1>8. s \o t = u
  BY <1>3, <1>6, <1>7, SeqEqual DEF ByteSeqs
<1>9. QED
  BY <1>8 DEF s, t, u

LEMMA UpBounds ==
  ASSUME TypeOK, NEW m \in Messages, IsUp(m)
  PROVE  /\ m.conn \in Conns /\ From(m) \in Nat \ {0} /\ To(m) \in Nat /\ From(m) <= To(m)
         /\ m.length = To(m) - From(m) + 1 /\ Len(m.data) = m.length
         /\ m.data = Bytes(m.conn, From(m), To(m))
<1>1. /\ m.length \in Nat /\ m.length >= 1 /\ From(m) \in Nat \ {0} /\ m.conn \in Conns
      /\ To(m) = From(m) + m.length - 1 /\ m.data = Bytes(m.conn, From(m), To(m))
  BY MessageParts DEF IsUp, To
<1>2. To(m) \in Nat /\ From(m) <= To(m) /\ m.length = To(m) - From(m) + 1
  BY <1>1
<1>3. Len(m.data) = m.length
  <2>1. ASSUME NEW k \in Conns, NEW first \in Nat \ {0}, NEW last \in Nat, NEW n \in Nat,
               last = first + n - 1
        PROVE  Len(Bytes(k, first, last)) = n
    BY <2>1, BytesRun
  <2> HIDE DEF From, To
  <2>2. Len(Bytes(m.conn, From(m), To(m))) = m.length
    BY <1>1, <1>2, <2>1
  <2>3. QED
    BY <1>1, <2>2, Zenon
<1>4. QED
  BY <1>1, <1>2, <1>3

LEMMA UpTypes ==
  ASSUME TypeOK
  PROVE  /\ toRelay \in Seq(Messages) /\ MaxSent \in Nat
         /\ \A k \in Conns : sent[k] \in Nat /\ served[k] \in ByteSeqs /\ Len(served[k]) \in Nat
BY StreamsAssumption, LenProperties, SMTT(30) DEF TypeOK, ByteSeqs

(* Steps that leave the messages to the relay alone. *)
LEMMA UpUntouched ==
  ASSUME Up, UNCHANGED <<toRelay, served, sent>>,
         \A k \in Conns : Takes(k)' => Takes(k)
  PROVE  Up'
<1>1. UpBytes' /\ UpOrder' /\ UpServed'
  BY DEF Up, UpBytes, UpOrder, UpServed
<1>2. UpComplete'
  <2>1. \A cmd : Mentions(toRelay', cmd) = Mentions(toRelay, cmd)
    BY DEF Mentions
  <2>2. QED
    BY <2>1 DEF Up, UpComplete
<1>3. QED
  BY <1>1, <1>2 DEF Up

(* The messages left when the first was taken are still in order. *)
LEMMA UpOrderTaken ==
  ASSUME TypeOK, UpOrder, toRelay # <<>>, toRelay' = Tail(toRelay)
  PROVE  /\ UpOrder'
         /\ Head(toRelay).cmd = "DATA" =>
               \A m \in Mentions(toRelay', "DATA") :
                  m.conn = Head(toRelay).conn => To(Head(toRelay)) < From(m)
<1> DEFINE q == toRelay
           t == Tail(toRelay)
<1>1. /\ Head(q) = q[1] /\ 1 \in DOMAIN q
      /\ \A i \in DOMAIN t : i \in Nat \ {0} /\ i + 1 \in DOMAIN q /\ t[i] = q[i + 1]
  BY Taken DEF TypeOK
<1>2. \A i, j \in DOMAIN q :
         i < j /\ q[i].cmd = "DATA" /\ q[j].cmd = "DATA" /\ q[i].conn = q[j].conn
            => To(q[i]) < From(q[j])
  BY DEF UpOrder
<1> HIDE DEF q, t
<1>3. ASSUME NEW i \in DOMAIN t, NEW j \in DOMAIN t, i < j, t[i].cmd = "DATA", t[j].cmd = "DATA",
             t[i].conn = t[j].conn
      PROVE  To(t[i]) < From(t[j])
  <2>1. i + 1 \in DOMAIN q /\ j + 1 \in DOMAIN q /\ i + 1 < j + 1
        /\ t[i] = q[i + 1] /\ t[j] = q[j + 1]
    BY <1>1, <1>3
  <2>2. To(q[i + 1]) < From(q[j + 1])
    BY <1>2, <1>3, <2>1
  <2>3. QED
    BY <2>1, <2>2, Zenon
<1>4. UpOrder'
  BY <1>3 DEF UpOrder, t
<1>5. ASSUME Head(q).cmd = "DATA", NEW m \in Mentions(t, "DATA"), m.conn = Head(q).conn
      PROVE  To(Head(q)) < From(m)
  <2>1. PICK i \in DOMAIN t : t[i] = m
    BY Zenon DEF Mentions, Range
  <2>2. m.cmd = "DATA"
    BY Zenon DEF Mentions
  <2>3. i + 1 \in DOMAIN q /\ q[i + 1] = m /\ 1 < i + 1
    BY <1>1, <2>1
  <2>4. To(q[1]) < From(q[i + 1])
    BY <1>1, <1>2, <1>5, <2>2, <2>3
  <2>5. QED
    BY <1>1, <2>3, <2>4, Zenon
<1>6. QED
  BY <1>4, <1>5 DEF q, t

LEMMA UpTaken ==
  ASSUME TypeOK, Up, toRelay # <<>>, toRelay' = Tail(toRelay), UNCHANGED <<served, sent>>,
         \A k \in Conns : Takes(k)' =>
            Takes(k) /\ ~(Head(toRelay).cmd = "DATA" /\ Head(toRelay).conn = k)
  PROVE  Up'
<1>1. toRelay \in Seq(Messages)
  BY DEF TypeOK
<1>2. /\ Mentions(toRelay', "DATA") \subseteq Mentions(toRelay, "DATA")
      /\ \A m \in Mentions(toRelay, "DATA") :
            m \in Mentions(toRelay', "DATA") \/ (m = Head(toRelay) /\ Head(toRelay).cmd = "DATA")
  <2>1. CASE Head(toRelay).cmd = "DATA"
    BY <1>1, <2>1, MentionsTaken
  <2>2. CASE Head(toRelay).cmd # "DATA"
    BY <1>1, <2>2, MentionsTaken
  <2>3. QED
    BY <2>1, <2>2
<1>3. UpOrder'
  BY UpOrderTaken DEF Up
<1>4. UpBytes' /\ UpServed'
  BY <1>2 DEF Up, UpBytes, UpServed
<1>5. UpComplete'
  BY <1>2 DEF Up, UpComplete
<1>6. QED
  BY <1>3, <1>4, <1>5 DEF Up

(* A message without data takes nothing from the order and adds nothing to *)
(* what is on its way. *)
LEMMA UpAdded ==
  ASSUME TypeOK, Up, NEW m \in Messages, m.cmd # "DATA", toRelay' = Append(toRelay, m),
         UNCHANGED <<served, sent>>,
         \A k \in Conns : Takes(k)' => Takes(k) \/ sent[k] = 0
  PROVE  Up'
<1>1. /\ Mentions(toRelay', "DATA") = Mentions(toRelay, "DATA")
      /\ DOMAIN toRelay' = DOMAIN toRelay \cup {Len(toRelay) + 1}
      /\ \A i \in DOMAIN toRelay : toRelay'[i] = toRelay[i]
      /\ toRelay'[Len(toRelay) + 1] = m
  BY UpTypes, MessageAdded
<1>2. UpBytes' /\ UpServed'
  BY <1>1 DEF Up, UpBytes, UpServed
<1>3. UpOrder'
  BY <1>1 DEF Up, UpOrder
<1>4. UpComplete'
  <2>1. ASSUME NEW k \in Conns, Takes(k)', NEW n \in Len(served[k]) + 1 .. sent[k]
        PROVE  \E d \in Mentions(toRelay, "DATA") : d.conn = k /\ n \in From(d) .. To(d)
    <3>1. sent[k] # 0
      BY <2>1, UpTypes
    <3>2. Takes(k)
      BY <2>1, <3>1
    <3>3. QED
      BY <3>2 DEF Up, UpComplete
  <2>2. QED
    BY <1>1, <2>1 DEF UpComplete
<1>5. QED
  BY <1>2, <1>3, <1>4 DEF Up

LEMMA SendUp ==
  ASSUME TypeOK, TablesOK, Up, NEW id \in Nat, NEW length \in Lengths, Send(id, length)
  PROVE  Up'
<1>1. PICK i \in Filled(clientMap), L \in Nat, added \in Seq(Messages) :
         LET k == clientMap[i].value.conn
         IN  /\ clientMap[i].stream_id = id
             /\ k \in 1 .. conns
             /\ sent[k] + L <= MaxSent
             /\ sent' = [sent EXCEPT ![k] = sent[k] + L]
             /\ toRelay' = toRelay \o added
             /\ Sent(added, id, k, sent[k] + 1, sent[k] + L)
  BY Sending, Zenon
<1> DEFINE k == clientMap[i].value.conn
           n == Len(toRelay)
<1>2. k \in Conns /\ sent[k] \in Nat /\ sent \in [Conns -> 0 .. MaxSent]
  BY <1>1, ConnsBound, UpTypes DEF TypeOK
<1>3. /\ sent'[k] = sent[k] + L /\ \A j \in Conns : j # k => sent'[j] = sent[j]
      /\ \A j \in Conns : sent[j] \in Nat /\ sent[j] <= sent'[j]
  BY <1>1, <1>2, UpTypes, SMTT(30)
<1>4. UNCHANGED <<relayMap, server, served>>
  BY DEF Send, relayVars, serverVars
<1>5. /\ toRelay' = toRelay \o added
      /\ \A j \in DOMAIN added :
            /\ added[j].cmd = "DATA" /\ added[j].conn = k /\ IsUp(added[j])
            /\ sent[k] + 1 <= From(added[j]) /\ To(added[j]) <= sent[k] + L
      /\ \A j, l \in DOMAIN added : j < l => To(added[j]) < From(added[l])
      /\ \A b \in sent[k] + 1 .. sent[k] + L : \E j \in DOMAIN added : b \in From(added[j]) .. To(added[j])
  BY <1>1 DEF Sent
<1>6. toRelay \in Seq(Messages)
  BY UpTypes
<1>7. /\ n \in Nat /\ DOMAIN toRelay = 1 .. n
      /\ \A j \in DOMAIN toRelay : toRelay'[j] = toRelay[j]
      /\ \A j \in DOMAIN toRelay' : j \in Nat /\ (j <= n => j \in DOMAIN toRelay)
      /\ \A j \in DOMAIN toRelay' : j > n => j - n \in DOMAIN added /\ toRelay'[j] = added[j - n]
  BY <1>5, <1>6, Joined
<1>8. Mentions(toRelay', "DATA") = Mentions(toRelay, "DATA") \cup Range(added)
  <2>1. Mentions(toRelay', "DATA") = Mentions(toRelay, "DATA") \cup Mentions(added, "DATA")
    BY <1>5, <1>6, MentionsJoined
  <2>2. Mentions(added, "DATA") = Range(added)
    BY <1>5 DEF Mentions, Range
  <2>3. QED
    BY <2>1, <2>2
<1>9. \A m \in Range(added) : \E j \in DOMAIN added : m = added[j]
  BY DEF Range
<1>10. \A m \in Mentions(toRelay, "DATA") :
          /\ IsUp(m) /\ m.conn \in Conns /\ From(m) \in Nat /\ To(m) \in Nat
          /\ Len(served[m.conn]) < From(m) /\ To(m) <= sent[m.conn]
  BY <1>6, MentionsType, UpBounds DEF Up, UpBytes
<1>11. \A j \in DOMAIN added :
          From(added[j]) \in Nat /\ To(added[j]) \in Nat /\ From(added[j]) <= To(added[j])
  <2>1. \A j \in DOMAIN added : added[j] \in Messages
    BY Joined
  <2>2. QED
    BY <1>5, <2>1, UpBounds
<1> HIDE DEF k, n
<1>12. UpBytes'
  <2>1. ASSUME NEW m \in Mentions(toRelay, "DATA")
        PROVE  IsUp(m) /\ Len(served[m.conn]) < From(m) /\ To(m) <= sent'[m.conn]
    <3>1. /\ m.conn \in Conns /\ To(m) <= sent[m.conn] /\ To(m) \in Nat
          /\ sent[m.conn] \in Nat /\ sent[m.conn] <= sent'[m.conn] /\ sent'[m.conn] \in Nat
      BY <1>2, <1>3, <1>10
    <3>2. QED
      BY <1>10, <3>1
  <2>2. ASSUME NEW m \in Range(added)
        PROVE  IsUp(m) /\ Len(served[m.conn]) < From(m) /\ To(m) <= sent'[m.conn]
    <3>1. PICK j \in DOMAIN added : m = added[j]
      BY <1>9
    <3>2. Len(served[k]) <= sent[k] /\ Len(served[k]) \in Nat
      BY <1>2, UpTypes DEF Up, UpServed
    <3>3. sent[k] + 1 <= From(m) /\ To(m) <= sent[k] + L /\ m.conn = k /\ IsUp(m)
          /\ From(m) \in Nat
      BY <1>5, <1>11, <3>1
    <3>4. QED
      BY <1>2, <1>3, <3>2, <3>3
  <2>3. QED
    BY <1>4, <1>8, <2>1, <2>2 DEF UpBytes
<1>13. UpOrder'
  <2> SUFFICES ASSUME NEW a \in DOMAIN toRelay', NEW b \in DOMAIN toRelay', a < b,
                      toRelay'[a].cmd = "DATA", toRelay'[b].cmd = "DATA",
                      toRelay'[a].conn = toRelay'[b].conn
               PROVE  To(toRelay'[a]) < From(toRelay'[b])
    BY DEF UpOrder
  <2>1. CASE b <= n
    <3>1. a \in DOMAIN toRelay /\ b \in DOMAIN toRelay
          /\ toRelay'[a] = toRelay[a] /\ toRelay'[b] = toRelay[b]
      BY <1>7, <2>1
    <3>2. toRelay[a].cmd = "DATA" /\ toRelay[b].cmd = "DATA" /\ toRelay[a].conn = toRelay[b].conn
      BY <3>1, Zenon
    <3>3. To(toRelay[a]) < From(toRelay[b])
      BY <3>1, <3>2 DEF Up, UpOrder
    <3>4. QED
      BY <3>1, <3>3, Zenon
  <2>2. CASE a <= n /\ b > n
    <3>1. a \in DOMAIN toRelay /\ toRelay'[a] = toRelay[a]
      BY <1>7, <2>2
    <3>2. b - n \in DOMAIN added /\ toRelay'[b] = added[b - n]
      BY <1>7, <2>2
    <3>3. toRelay[a].cmd = "DATA" /\ toRelay[a].conn = k
      BY <1>5, <3>1, <3>2
    <3>4. toRelay[a] \in Mentions(toRelay, "DATA")
      BY <3>1, <3>3, Zenon DEF Mentions, Range
    <3>5. To(toRelay[a]) \in Nat /\ To(toRelay[a]) <= sent[k]
      BY <1>10, <3>3, <3>4
    <3>6. sent[k] + 1 <= From(added[b - n]) /\ From(added[b - n]) \in Nat
      BY <1>5, <1>11, <3>2
    <3>7. To(toRelay[a]) < From(added[b - n])
      BY <1>2, <3>5, <3>6
    <3>8. QED
      BY <3>1, <3>2, <3>7, Zenon
  <2>3. CASE a > n /\ b > n
    <3>1. a - n \in DOMAIN added /\ b - n \in DOMAIN added /\ a - n < b - n
          /\ toRelay'[a] = added[a - n] /\ toRelay'[b] = added[b - n]
      BY <1>7, <2>3
    <3>2. To(added[a - n]) < From(added[b - n])
      BY <1>5, <3>1
    <3>3. QED
      BY <3>1, <3>2, Zenon
  <2>4. QED
    BY <1>7, <2>1, <2>2, <2>3
<1>14. UpServed'
  <2>1. ASSUME NEW j \in Conns
        PROVE  served[j] = Bytes(j, 1, Len(served[j])) /\ Len(served[j]) <= sent'[j]
    <3>1. served[j] = Bytes(j, 1, Len(served[j])) /\ Len(served[j]) <= sent[j]
      BY DEF Up, UpServed
    <3>2. Len(served[j]) \in Nat /\ sent[j] \in Nat /\ sent[j] <= sent'[j] /\ sent'[j] \in Nat
      BY <1>2, <1>3, UpTypes
    <3>3. QED
      BY <3>1, <3>2
  <2>2. QED
    BY <1>4, <2>1 DEF UpServed
<1>15. UpComplete'
  <2>1. \A j \in Conns : Takes(j)' => Takes(j)
    <3>1. Mentions(toRelay', "BEGIN") = Mentions(toRelay, "BEGIN")
      <4>1. Mentions(toRelay', "BEGIN") = Mentions(toRelay, "BEGIN") \cup Mentions(added, "BEGIN")
        BY <1>5, <1>6, MentionsJoined
      <4>2. Mentions(added, "BEGIN") = {}
        BY <1>5 DEF Mentions, Range
      <4>3. QED
        BY <4>1, <4>2
    <3>2. QED
      BY <1>4, <3>1 DEF Takes
  <2>2. ASSUME NEW j \in Conns, Takes(j)', NEW b \in Len(served[j]) + 1 .. sent'[j]
        PROVE  \E m \in Mentions(toRelay', "DATA") : m.conn = j /\ b \in From(m) .. To(m)
    <3>1. CASE b <= sent[j]
      <4>1. b \in Len(served[j]) + 1 .. sent[j]
        BY <1>3, <2>2, <3>1, UpTypes
      <4>2. QED
        BY <1>8, <2>1, <2>2, <4>1 DEF Up, UpComplete
    <3>2. CASE b > sent[j]
      <4>1. j = k
        BY <1>3, <2>2, <3>2, UpTypes
      <4>2. b \in sent[k] + 1 .. sent[k] + L
        BY <1>2, <1>3, <2>2, <3>2, <4>1, UpTypes
      <4>3. PICK a \in DOMAIN added : b \in From(added[a]) .. To(added[a])
        BY <1>5, <4>2
      <4>4. added[a] \in Mentions(toRelay', "DATA") /\ added[a].conn = j
        BY <1>5, <1>8, <4>1 DEF Range
      <4>5. QED
        BY <4>3, <4>4
    <3>3. QED
      BY <1>3, <2>2, <3>1, <3>2
  <2>3. QED
    BY <1>4, <2>2 DEF UpComplete
<1>16. QED
  BY <1>12, <1>13, <1>14, <1>15 DEF Up

(* The relay passes the bytes of a message on: they are the ones that come *)
(* after those the server has. *)
LEMMA ServeUp ==
  ASSUME TypeOK, Up, toRelay # <<>>, Head(toRelay).cmd = "DATA", toRelay' = Tail(toRelay),
         Takes(Head(toRelay).conn),
         served' = [served EXCEPT ![Head(toRelay).conn] =
                       @ \o SubSeq(Head(toRelay).data, 1, Head(toRelay).length)],
         UNCHANGED <<relayMap, server, sent>>
  PROVE  Up'
<1> DEFINE m == Head(toRelay)
           k == m.conn
<1>1. /\ toRelay \in Seq(Messages) /\ m \in Messages
      /\ Mentions(toRelay, "DATA") = {m} \cup Mentions(toRelay', "DATA")
      /\ Mentions(toRelay', "BEGIN") = Mentions(toRelay, "BEGIN")
  <2>1. toRelay \in Seq(Messages)
    BY UpTypes
  <2>2. m \in Messages
    BY <2>1, Taken
  <2>3. Mentions(toRelay, "DATA") = {m} \cup Mentions(toRelay', "DATA")
    BY <2>1, MentionsTaken
  <2>4. Mentions(toRelay', "BEGIN") = Mentions(toRelay, "BEGIN")
    BY <2>1, MentionsTaken
  <2>5. QED
    BY <2>1, <2>2, <2>3, <2>4
<1>2. UpOrder' /\ \A d \in Mentions(toRelay', "DATA") : d.conn = k => To(m) < From(d)
  BY UpOrderTaken DEF Up
<1>3. Takes(k) /\ served' = [served EXCEPT ![k] = served[k] \o SubSeq(m.data, 1, m.length)]
  OBVIOUS
<1> HIDE DEF m
<1>4. \A d \in Mentions(toRelay, "DATA") :
         /\ IsUp(d) /\ d.conn \in Conns /\ From(d) \in Nat \ {0} /\ To(d) \in Nat /\ From(d) <= To(d)
         /\ d.data = Bytes(d.conn, From(d), To(d)) /\ Len(d.data) = d.length
         /\ Len(served[d.conn]) < From(d) /\ To(d) <= sent[d.conn]
  BY <1>1, MentionsType, UpBounds DEF Up, UpBytes
<1>5. /\ k \in Conns /\ From(m) \in Nat \ {0} /\ To(m) \in Nat /\ From(m) <= To(m)
      /\ m.data = Bytes(k, From(m), To(m)) /\ Len(m.data) = m.length
      /\ Len(served[k]) < From(m) /\ To(m) <= sent[k]
  BY <1>1, <1>4
<1>6. served[k] = Bytes(k, 1, Len(served[k])) /\ Len(served[k]) \in Nat /\ sent[k] \in Nat
  BY <1>5, UpTypes DEF Up, UpServed
<1> HIDE DEF k
<1>7. From(m) = Len(served[k]) + 1
  <2>1. Len(served[k]) + 1 \in Len(served[k]) + 1 .. sent[k]
    BY <1>5, <1>6
  <2>2. PICK d \in Mentions(toRelay, "DATA") : d.conn = k /\ Len(served[k]) + 1 \in From(d) .. To(d)
    BY <1>3, <1>5, <2>1 DEF Up, UpComplete
  <2>3. CASE d = m
    BY <1>5, <1>6, <2>2, <2>3
  <2>4. CASE d \in Mentions(toRelay', "DATA")
    <3>1. To(m) < From(d) /\ From(d) \in Nat
      BY <1>1, <1>2, <1>4, <2>2, <2>4
    <3>2. QED
      BY <1>5, <1>6, <2>2, <3>1
  <2>5. QED
    BY <1>1, <2>3, <2>4
<1>8. SubSeq(m.data, 1, m.length) = m.data
  <2>1. m.data \in Seq((Conns \X Nat) \cup {Stale})
    BY <1>1, MessageParts DEF ByteSeqs
  <2>2. QED
    BY <1>5, <2>1, SubSeqFull
<1>9. served'[k] = Bytes(k, 1, To(m))
  <2> DEFINE n == Len(served[k])
  <2>1. served'[k] = served[k] \o Bytes(k, From(m), To(m))
    <3>1. served \in [Conns -> ByteSeqs]
      BY DEF TypeOK
    <3>2. QED
      BY <1>3, <1>5, <1>8, <3>1
  <2>2. n \in Nat /\ served[k] = Bytes(k, 1, n)
    BY <1>6
  <2> HIDE DEF n
  <2>3. Bytes(k, 1, n) \o Bytes(k, From(m), To(m)) = Bytes(k, 1, To(m))
    <3>1. From(m) = n + 1 /\ n <= To(m)
      BY <1>5, <1>7, <2>2 DEF n
    <3>2. QED
      BY <1>5, <2>2, <3>1, BytesJoined
  <2>4. QED
    BY <2>1, <2>2, <2>3, Zenon
<1>10. Len(served'[k]) = To(m)
  <2>1. ASSUME NEW one, one = 1 PROVE Len(Bytes(k, one, To(m))) = To(m)
    <3>1. one \in Nat \ {0} /\ To(m) = one + To(m) - 1
      BY <1>5, <2>1
    <3>2. QED
      BY <1>5, <3>1, BytesRun
  <2>2. QED
    BY <1>9, <2>1
<1>11. \A j \in Conns : j # k => served'[j] = served[j]
  BY <1>3 DEF TypeOK
<1>12. UpBytes'
  <2> SUFFICES ASSUME NEW d \in Mentions(toRelay', "DATA")
               PROVE  IsUp(d) /\ Len(served'[d.conn]) < From(d) /\ To(d) <= sent[d.conn]
    BY DEF UpBytes
  <2>1. d \in Mentions(toRelay, "DATA")
    BY <1>1
  <2>2. CASE d.conn = k
    BY <1>2, <1>4, <1>10, <2>1, <2>2
  <2>3. CASE d.conn # k
    BY <1>4, <1>11, <2>1, <2>3
  <2>4. QED
    BY <2>2, <2>3
<1>13. UpServed'
  <2> SUFFICES ASSUME NEW j \in Conns
               PROVE  served'[j] = Bytes(j, 1, Len(served'[j])) /\ Len(served'[j]) <= sent[j]
    BY DEF UpServed
  <2>1. CASE j = k
    BY <1>5, <1>9, <1>10, <2>1
  <2>2. CASE j # k
    BY <1>11, <2>2 DEF Up, UpServed
  <2>3. QED
    BY <2>1, <2>2
<1>14. UpComplete'
  <2>1. \A j \in Conns : Takes(j)' => Takes(j)
    BY <1>1 DEF Takes
  <2>2. ASSUME NEW j \in Conns, Takes(j)', NEW b \in Len(served'[j]) + 1 .. sent[j]
        PROVE  \E d \in Mentions(toRelay', "DATA") : d.conn = j /\ b \in From(d) .. To(d)
    <3>1. CASE j = k
      <4>1. b > To(m) /\ b \in Len(served[k]) + 1 .. sent[k]
        <5>1. b \in To(m) + 1 .. sent[k]
          BY <1>10, <3>1, Zenon
        <5>2. QED
          BY <1>5, <1>6, <1>7, <5>1, SMTT(30)
      <4>2. PICK d \in Mentions(toRelay, "DATA") : d.conn = k /\ b \in From(d) .. To(d)
        BY <1>3, <1>5, <4>1 DEF Up, UpComplete
      <4>3. d # m
        <5>1. SUFFICES ASSUME b \in From(m) .. To(m) PROVE FALSE
          BY <4>2
        <5>2. QED
          BY <1>5, <4>1, <5>1
      <4>4. QED
        BY <1>1, <3>1, <4>2, <4>3
    <3>2. CASE j # k
      <4>1. b \in Len(served[j]) + 1 .. sent[j]
        BY <1>11, <2>2, <3>2
      <4>2. PICK d \in Mentions(toRelay, "DATA") : d.conn = j /\ b \in From(d) .. To(d)
        BY <2>1, <2>2, <4>1 DEF Up, UpComplete
      <4>3. d # m
        BY <3>2, <4>2 DEF k
      <4>4. QED
        BY <1>1, <4>2, <4>3
    <3>3. QED
      BY <3>1, <3>2
  <2>3. QED
    BY <2>2 DEF UpComplete
<1>15. QED
  BY <1>2, <1>12, <1>13, <1>14 DEF Up

LEMMA UserUp ==
  ASSUME TypeOK, TablesOK, Up, UserStep
  PROVE  Up'
<1>1. toRelay \in Seq(Messages) /\ stream_id \in Nat
  BY DEF TypeOK
<1>2. ASSUME Connect PROVE Up'
  <2> DEFINE id == stream_id'
             k  == conns'
             m  == Msg("BEGIN", id, k)
  <2>1. id \in Nat /\ k \in Conns /\ k = conns + 1 /\ conns \in Nat
    BY <1>2, ClientInserts
  <2>2. toRelay' = Append(toRelay, m) /\ UNCHANGED <<served, sent, server, relayMap>>
    BY <1>2 DEF Connect, relayVars, serverVars
  <2>3. sent[k] = 0
    BY <2>1 DEF TablesOK, Unused
  <2> HIDE DEF id, k
  <2>4. m \in Messages /\ m.cmd = "BEGIN" /\ m.conn = k
    <3>1. k \in 0 .. MaxConns
      BY <2>1 DEF Conns
    <3>2. QED
      BY <2>1, <3>1, MsgType
  <2> HIDE DEF m
  <2>5. Mentions(toRelay', "BEGIN") = Mentions(toRelay, "BEGIN") \cup {m}
    BY <1>1, <2>2, <2>4, MentionsAdded
  <2>6. \A j \in Conns : Takes(j)' => Takes(j) \/ sent[j] = 0
    BY <2>2, <2>3, <2>4, <2>5 DEF Takes
  <2>7. QED
    BY <2>2, <2>4, <2>6, UpAdded
<1>3. ASSUME NEW id \in Issued, Close(id) PROVE Up'
  <2> DEFINE m == Msg("END", id, 0)
  <2>1. toRelay' = Append(toRelay, m) /\ UNCHANGED <<served, sent, server, relayMap>>
    BY <1>3 DEF Close, relayVars, serverVars
  <2>2. m \in Messages /\ m.cmd = "END"
    <3>1. id \in Nat /\ 0 \in 0 .. MaxConns
      BY <1>1, StreamsAssumption DEF Issued
    <3>2. QED
      BY <3>1, MsgType
  <2> HIDE DEF m
  <2>3. Mentions(toRelay', "BEGIN") = Mentions(toRelay, "BEGIN")
    BY <1>1, <2>1, <2>2, MentionsAdded
  <2>4. \A j \in Conns : Takes(j)' => Takes(j)
    BY <2>1, <2>3 DEF Takes
  <2>5. QED
    BY <2>1, <2>2, <2>4, UpAdded
<1>4. ASSUME NEW id \in Issued, NEW length \in Lengths, Send(id, length) PROVE Up'
  BY <1>1, <1>4, SendUp DEF Issued
<1>5. ASSUME UNCHANGED <<toRelay, served, sent, server, relayMap>> PROVE Up'
  <2>1. \A j \in Conns : Takes(j)' => Takes(j)
    BY <1>5 DEF Takes, Mentions
  <2>2. QED
    BY <1>5, <2>1, UpUntouched
<1>6. ASSUME NEW id \in Issued, NEW length \in Lengths, Recv(id, length) PROVE Up'
  BY <1>5, <1>6 DEF Recv, relayVars, serverVars
<1>7. ASSUME ConnectHangs PROVE Up'
  BY <1>5, <1>7 DEF ConnectHangs, relayVars, serverVars
<1>8. QED
  BY <1>2, <1>3, <1>4, <1>6, <1>7 DEF UserStep

(* A socket that is closed takes no more bytes. *)
LEMMA ClosingTakes ==
  ASSUME TypeOK, TablesOK, NEW id \in Nat, Found(relayMap, id), CloseSocket(id), conns' = conns,
         Mentions(toRelay', "BEGIN") = Mentions(toRelay, "BEGIN")
  PROVE  \A j \in Conns : Takes(j)' => Takes(j)
<1>1. /\ Filled(relayMap') \subseteq Filled(relayMap)
      /\ \A i \in Filled(relayMap') : /\ relayMap'[i] = relayMap[i]
                                      /\ server'[relayMap[i].value] = server[relayMap[i].value]
  BY RelayCloses
<1>2. QED
  BY <1>1 DEF Takes

LEMMA RelayBeginUp ==
  ASSUME TypeOK, TablesOK, Up, RelayBegin
  PROVE  Up'
<1> DEFINE id == Head(toRelay).stream_id
           k  == Head(toRelay).conn
<1>1. /\ toRelay # <<>> /\ Head(toRelay).cmd = "BEGIN" /\ toRelay' = Tail(toRelay)
      /\ toRelay \in Seq(Messages)
  BY DEF RelayBegin, RelayReads, TypeOK
<1>2. /\ id \in Nat /\ k \in 1 .. conns /\ k \in Conns /\ server[k] = "none"
      /\ \/ UNCHANGED relayMap /\ server' \in {server, [server EXCEPT ![k] = "open"]}
         \/ /\ server' = [server EXCEPT ![k] = "open"]
            /\ Insertable(relayMap, id)
            /\ relayMap' = Insert(relayMap, id, k)
            /\ epoll' = epoll \cup {[sock |-> k, stream_id |-> id]}
      /\ UNCHANGED <<conns, sent, served>>
  BY RelayBeginEffect
<1>3. Mentions(toRelay, "BEGIN") = {Head(toRelay)} \cup Mentions(toRelay', "BEGIN")
  BY <1>1, MentionsTaken
<1>4. /\ server \in [Conns -> {"none", "open", "fin", "reset", "closed"}]
      /\ \A i \in Filled(relayMap) : server[relayMap[i].value] # "none"
  BY DEF TypeOK, TablesOK, RelayTable
<1>5. \A j \in Conns : j # k => server'[j] = server[j]
  BY <1>2, <1>4
<1>6. Takes(k)
  BY <1>3 DEF Takes
<1> HIDE DEF k, id
<1>7. ASSUME NEW j \in Conns, Takes(j)', j # k
      PROVE  Takes(j)
  <2>1. CASE \E m \in Mentions(toRelay', "BEGIN") : m.conn = j
    BY <1>3, <2>1 DEF Takes
  <2>2. CASE server'[j] = "open" /\ \E i \in Filled(relayMap') : relayMap'[i].value = j
    <3>1. server[j] = "open"
      BY <1>5, <1>7, <2>2
    <3>2. CASE UNCHANGED relayMap
      BY <2>2, <3>1, <3>2 DEF Takes
    <3>3. CASE /\ server' = [server EXCEPT ![k] = "open"]
               /\ Insertable(relayMap, id)
               /\ relayMap' = Insert(relayMap, id, k)
               /\ epoll' = epoll \cup {[sock |-> k, stream_id |-> id]}
      <4> DEFINE s == InsertSlot(relayMap, id)
      <4>1. /\ Filled(relayMap') = Filled(relayMap) \cup {s}
            /\ relayMap'[s].value = k
            /\ \A i \in Filled(relayMap) : relayMap'[i] = relayMap[i]
        BY <1>2, <3>3, RelayInserts
      <4> HIDE DEF s
      <4>2. QED
        BY <1>7, <2>2, <3>1, <4>1 DEF Takes
    <3>4. QED
      BY <1>2, <3>2, <3>3
  <2>3. QED
    BY <1>7, <2>1, <2>2 DEF Takes
<1>8. \A j \in Conns : Takes(j)' => Takes(j)
  BY <1>6, <1>7
<1>9. QED
  BY <1>1, <1>2, <1>8, UpTaken

LEMMA RelayDataUp ==
  ASSUME TypeOK, TablesOK, Agree, Up, RelayData
  PROVE  Up'
<1> DEFINE m == Head(toRelay)
           k == FoundValue(relayMap, m.stream_id)
<1>1. /\ toRelay # <<>> /\ m.cmd = "DATA" /\ toRelay' = Tail(toRelay)
      /\ toRelay \in Seq(Messages) /\ m.stream_id \in Nat
      /\ m \in Mentions(toRelay, "DATA")
      /\ UNCHANGED <<relayMap, server, sent>>
  BY RelayReadsTypes DEF RelayData, RelayReads, clientVars, TypeOK
<1>2. Mentions(toRelay, "BEGIN") = {} /\ Mentions(toRelay', "BEGIN") = {}
  <2>1. Mentions(toRelay', "BEGIN") = {}
    BY <1>1, NoBeginLeft DEF Agree
  <2>2. Mentions(toRelay', "BEGIN") = Mentions(toRelay, "BEGIN")
    BY <1>1, MentionsTaken
  <2>3. QED
    BY <2>1, <2>2
<1>3. \A i \in Filled(relayMap) : m.stream_id = relayMap[i].stream_id <=> m.conn = relayMap[i].value
  BY <1>1 DEF Agree, DataUpMeans
<1>4. Found(relayMap, m.stream_id) =>
         k = m.conn /\ \E i \in Filled(relayMap) : relayMap[i].value = m.conn
  BY <1>1, <1>3, RelayFinds
<1>5. ~Found(relayMap, m.stream_id) => \A i \in Filled(relayMap) : relayMap[i].value # m.conn
  BY <1>1, <1>3, RelayFinds, HeldAnywhere
<1>6. \A j \in Conns : Takes(j)' => Takes(j)
  BY <1>1, <1>2 DEF Takes
<1>7. CASE UNCHANGED served /\ (~Found(relayMap, m.stream_id) \/ server[k] # "open")
  <2>1. \A j \in Conns : Takes(j)' => m.conn # j
    BY <1>1, <1>2, <1>4, <1>5, <1>7 DEF Takes
  <2>2. QED
    BY <1>1, <1>6, <1>7, <2>1, UpTaken
<1>8. CASE /\ Found(relayMap, m.stream_id) /\ server[k] = "open"
           /\ served' = [served EXCEPT ![k] = @ \o SubSeq(m.data, 1, m.length)]
  <2>1. Takes(m.conn)
    BY <1>4, <1>8 DEF Takes
  <2>2. served' = [served EXCEPT ![m.conn] = @ \o SubSeq(m.data, 1, m.length)]
    BY <1>4, <1>8, Zenon
  <2>3. QED
    BY <1>1, <2>1, <2>2, ServeUp
<1>9. CASE /\ Found(relayMap, m.stream_id) /\ server[k] # "reset"
           /\ served' = [served EXCEPT ![k] = IF server[k] = "open"
                            THEN @ \o SubSeq(m.data, 1, m.length) ELSE @]
  <2>1. CASE server[k] = "open"
    BY <1>8, <1>9, <2>1
  <2>2. CASE server[k] # "open"
    <3>1. served' = served
      BY <1>9, <2>2 DEF TypeOK
    <3>2. QED
      BY <1>7, <2>2, <3>1
  <2>3. QED
    BY <2>1, <2>2
<1>10. QED
  BY <1>7, <1>9 DEF RelayData

LEMMA RelayUp ==
  ASSUME TypeOK, TablesOK, Agree, Up, RelayStep
  PROVE  Up'
<1>1. ASSUME RelayEnd PROVE Up'
  <2> DEFINE id == Head(toRelay).stream_id
  <2>1. /\ toRelay # <<>> /\ Head(toRelay).cmd = "END" /\ toRelay' = Tail(toRelay)
        /\ toRelay \in Seq(Messages) /\ id \in Nat
        /\ \/ Found(relayMap, id) /\ CloseSocket(id)
           \/ ~Found(relayMap, id) /\ UNCHANGED <<epoll, server, inbox, relayMap>>
        /\ UNCHANGED <<conns, sent, served>>
    BY <1>1, RelayReadsTypes DEF RelayEnd, RelayReads, clientVars, TypeOK
  <2>2. Mentions(toRelay', "BEGIN") = Mentions(toRelay, "BEGIN")
    BY <2>1, MentionsTaken
  <2> HIDE DEF id
  <2>3. CASE Found(relayMap, id) /\ CloseSocket(id)
    <3>1. \A j \in Conns : Takes(j)' => Takes(j)
      BY <2>1, <2>2, <2>3, ClosingTakes
    <3>2. QED
      BY <2>1, <3>1, UpTaken
  <2>4. CASE UNCHANGED <<server, relayMap>>
    <3>1. \A j \in Conns : Takes(j)' => Takes(j)
      BY <2>2, <2>4 DEF Takes
    <3>2. QED
      BY <2>1, <3>1, UpTaken
  <2>5. QED
    BY <2>1, <2>3, <2>4
<1>2. ASSUME NEW event \in epoll, RelayInternet(event) PROVE Up'
  <2> DEFINE id == event.stream_id
  <2>1. /\ id \in Nat /\ Found(relayMap, id)
        /\ CloseSocket(id) \/ UNCHANGED <<relayMap, server>>
        /\ UNCHANGED <<conns, sent, served, toRelay>>
    BY <1>2, RelayInternetEffect
  <2> HIDE DEF id
  <2>2. Mentions(toRelay', "BEGIN") = Mentions(toRelay, "BEGIN")
    BY <2>1 DEF Mentions
  <2>3. \A j \in Conns : Takes(j)' => Takes(j)
    <3>1. CASE CloseSocket(id)
      BY <2>1, <2>2, <3>1, ClosingTakes
    <3>2. CASE UNCHANGED <<relayMap, server>>
      BY <2>2, <3>2 DEF Takes
    <3>3. QED
      BY <2>1, <3>1, <3>2
  <2>4. QED
    BY <2>1, <2>3, UpUntouched
<1>3. QED
  BY <1>1, <1>2, RelayBeginUp, RelayDataUp DEF RelayStep

LEMMA ServerUp ==
  ASSUME TypeOK, Up, ServerStep
  PROVE  Up'
<1>1. UNCHANGED <<toRelay, relayMap, sent, served>>
  BY DEF ServerStep, ServerSends, ServerCloses, clientVars, relayVars
<1>2. \A j \in Conns : server'[j] = "open" => server[j] = "open"
  <2>1. ASSUME NEW k \in Conns, ServerCloses(k)
        PROVE  \A j \in Conns : server'[j] = "open" => server[j] = "open"
    BY <2>1 DEF ServerCloses, TypeOK
  <2>2. ASSUME NEW k \in Conns, ServerSends(k)
        PROVE  server' = server
    BY <2>2 DEF ServerSends
  <2>3. QED
    BY <2>1, <2>2 DEF ServerStep
<1>3. \A j \in Conns : Takes(j)' => Takes(j)
  BY <1>1, <1>2 DEF Takes, Mentions
<1>4. QED
  BY <1>1, <1>3, UpUntouched

LEMMA UpKept ==
  ASSUME TypeOK, TablesOK, Agree, Up, [Next]_vars
  PROVE  Up'
<1>1. ASSUME UNCHANGED <<toRelay, relayMap, server, sent, served>> PROVE Up'
  <2>1. \A j \in Conns : Takes(j)' => Takes(j)
    BY <1>1 DEF Takes, Mentions
  <2>2. QED
    BY <1>1, <2>1, UpUntouched
<1>2. CASE ClientStep
  BY <1>1, <1>2 DEF ClientStep, ClientReceives, relayVars, serverVars
<1>3. CASE UNCHANGED vars
  BY <1>1, <1>3 DEF vars, clientVars, relayVars, serverVars
<1>4. QED
  BY <1>2, <1>3, UserUp, RelayUp, ServerUp DEF Next

-----------------------------------------------------------------------------
(* The bytes from the servers. *)
LEMMA NoMoreBytes ==
  ASSUME NEW k \in Conns, NEW n \in Nat, NEW c \in Nat, c = n + 1
  PROVE  Bytes(k, c, n) = <<>>
<1>1. c \in Nat \ {0} /\ n = c + 0 - 1 /\ 0 \in Nat
  OBVIOUS
<1>2. Bytes(k, c, n) \in ByteSeqs /\ Len(Bytes(k, c, n)) = 0
  <2>1. ASSUME NEW zero \in Nat, zero = 0
        PROVE  Bytes(k, c, n) \in ByteSeqs /\ Len(Bytes(k, c, n)) = zero
    <3>1. n = c + zero - 1
      BY <2>1
    <3>2. QED
      BY <1>1, <3>1, BytesRun
  <2>2. QED
    BY <2>1
<1>3. QED
  BY <1>2, EmptySeq DEF ByteSeqs

LEMMA FirstBytes ==
  ASSUME NEW k \in Conns, NEW first \in Nat \ {0}, NEW last \in Nat,
         NEW size \in Nat, NEW mid \in Nat, mid = first + size - 1, mid <= last
  PROVE  SubSeq(Bytes(k, first, last), 1, size) = Bytes(k, first, mid)
<1>7. last - first + 1 \in Nat /\ size <= last - first + 1
  OBVIOUS
<1>8. PICK n \in Nat : last = first + n - 1 /\ size \in 0 .. n
  BY <1>7
<1> DEFINE s == Bytes(k, first, last)
           a == Bytes(k, first, mid)
<1>1. s \in ByteSeqs /\ Len(s) = n /\ \A i \in 1 .. n : s[i] = <<k, first + i - 1>>
  BY <1>8, BytesRun, ZenonT(30)
<1>2. a \in ByteSeqs /\ Len(a) = size /\ \A i \in 1 .. size : a[i] = <<k, first + i - 1>>
  BY BytesRun, ZenonT(30)
<1> HIDE DEF s, a
<1>3. /\ SubSeq(s, 1, size) \in ByteSeqs /\ Len(SubSeq(s, 1, size)) = size
      /\ \A i \in 1 .. size : SubSeq(s, 1, size)[i] = s[i]
  BY <1>1, <1>8, CutOff DEF ByteSeqs
<1>4. ASSUME NEW i \in 1 .. size
      PROVE  SubSeq(s, 1, size)[i] = a[i]
  <2>1. i \in 1 .. n
    BY <1>8
  <2>2. s[i] = <<k, first + i - 1>>
    BY <1>1, <2>1, Zenon
  <2>3. QED
    BY <1>2, <1>3, <2>2, Zenon
<1>5. SubSeq(s, 1, size) = a
  BY <1>2, <1>3, <1>4, SeqEqual DEF ByteSeqs
<1>6. QED
  BY <1>5 DEF s, a

LEMMA LastBytes ==
  ASSUME NEW k \in Conns, NEW first \in Nat \ {0}, NEW last \in Nat,
         NEW size \in Nat, NEW next \in Nat, next = first + size, next <= last + 1
  PROVE  /\ Rest(Bytes(k, first, last), size) = Bytes(k, next, last)
         /\ Len(Bytes(k, next, last)) = last + 1 - next
<1>8. last - first + 1 \in Nat /\ size <= last - first + 1
  OBVIOUS
<1>9. PICK n \in Nat : last = first + n - 1 /\ size \in 0 .. n /\ n - size = last + 1 - next
  BY <1>8
<1> DEFINE s == Bytes(k, first, last)
           b == Bytes(k, next, last)
           r == n - size
<1>1. s \in ByteSeqs /\ Len(s) = n /\ \A i \in 1 .. n : s[i] = <<k, first + i - 1>>
  BY <1>9, BytesRun, ZenonT(30)
<1>2. r \in Nat /\ next \in Nat \ {0} /\ last = next + r - 1
  BY <1>9
<1> HIDE DEF r
<1>3. b \in ByteSeqs /\ Len(b) = r /\ \A i \in 1 .. r : b[i] = <<k, next + i - 1>>
  <2>1. \A f \in Nat \ {0} : \A l \in Nat : l = f + r - 1 =>
           /\ Bytes(k, f, l) \in ByteSeqs /\ Len(Bytes(k, f, l)) = r
           /\ \A i \in 1 .. r : Bytes(k, f, l)[i] = <<k, f + i - 1>>
    BY <1>2, BytesRun
  <2>2. QED
    BY <1>2, <2>1, Zenon
<1> HIDE DEF s, b
<1>4. /\ Rest(s, size) \in ByteSeqs /\ Len(Rest(s, size)) = r
      /\ \A i \in 1 .. r : Rest(s, size)[i] = s[size + i]
  <2>1. size \in 0 .. Len(s) /\ Len(s) - size = r
    BY <1>1, <1>9 DEF r
  <2>2. /\ Rest(s, size) \in ByteSeqs /\ Len(Rest(s, size)) = Len(s) - size
        /\ \A i \in 1 .. Len(s) - size : Rest(s, size)[i] = s[size + i]
    BY <1>1, <2>1, CutOff, ZenonT(30) DEF ByteSeqs
  <2>3. QED
    BY <2>1, <2>2, Zenon
<1>5. ASSUME NEW i \in 1 .. r
      PROVE  Rest(s, size)[i] = b[i]
  <2>1. size + i \in 1 .. n /\ first + (size + i) - 1 = next + i - 1
    BY <1>2, <1>9 DEF r
  <2>2. s[size + i] = <<k, first + (size + i) - 1>>
    BY <1>1, <2>1, Zenon
  <2>3. b[i] = <<k, next + i - 1>> /\ Rest(s, size)[i] = s[size + i]
    BY <1>3, <1>4, Zenon
  <2>4. QED
    BY <2>1, <2>2, <2>3, Zenon
<1>6. Rest(s, size) = b
  BY <1>3, <1>4, <1>5, SeqEqual DEF ByteSeqs
<1>7. QED
  BY <1>3, <1>6, <1>9 DEF s, b, r

LEMMA BytesExtended ==
  ASSUME NEW k \in Conns, NEW first \in Nat \ {0}, NEW last \in Nat,
         first <= last + 1, NEW next \in Nat, next = last + 1
  PROVE  Append(Bytes(k, first, last), <<k, next>>) = Bytes(k, first, next)
<1>9. PICK n \in Nat : last = first + n - 1
  <2>1. last - first + 1 \in Nat
    OBVIOUS
  <2>2. QED
    BY <2>1
<1> DEFINE s == Bytes(k, first, last)
           u == Bytes(k, first, next)
           x == <<k, next>>
           l == n + 1
<1>1. s \in ByteSeqs /\ Len(s) = n /\ \A i \in 1 .. n : s[i] = <<k, first + i - 1>>
  BY <1>9, BytesRun
<1>2. l \in Nat /\ next = first + l - 1 /\ l = n + 1
  BY <1>9
<1> HIDE DEF l
<1>3. u \in ByteSeqs /\ Len(u) = l /\ \A i \in 1 .. l : u[i] = <<k, first + i - 1>>
  BY <1>2, BytesRun
<1>4. x \in (Conns \X Nat) \cup {Stale}
  OBVIOUS
<1> HIDE DEF s, u, x
<1>5. /\ Append(s, x) \in ByteSeqs /\ Len(Append(s, x)) = l
      /\ \A i \in 1 .. n : Append(s, x)[i] = s[i]
      /\ Append(s, x)[l] = x
  BY <1>1, <1>2, <1>4, AppendProperties DEF ByteSeqs
<1>6. ASSUME NEW i \in 1 .. l
      PROVE  Append(s, x)[i] = u[i]
  <2>1. CASE i \in 1 .. n
    BY <1>1, <1>3, <1>5, <2>1, Zenon
  <2>2. CASE i = l
    <3>1. l \in 1 .. l /\ first + l - 1 = next
      BY <1>2
    <3>2. u[l] = <<k, first + l - 1>>
      BY <1>3, <3>1, Zenon
    <3>3. u[l] = <<k, next>>
      BY <3>1, <3>2, Zenon
    <3>4. Append(s, x)[l] = u[l]
      BY <1>5, <3>3, Zenon DEF x
    <3>5. QED
      BY <2>2, <3>4, Zenon
  <2>3. i \in 1 .. n \/ i = l
    BY <1>2
  <2>4. QED
    BY <2>1, <2>2, <2>3, Zenon
<1>7. Append(s, x) = u
  BY <1>3, <1>5, <1>6, SeqEqual DEF ByteSeqs
<1>8. QED
  BY <1>7 DEF s, u, x

LEMMA DownTypes ==
  ASSUME TypeOK, TablesOK
  PROVE  /\ toClient \in Seq(Messages)
         /\ \A k \in Conns : /\ produced[k] \in Nat /\ inbox[k] \in ByteSeqs
                             /\ Len(inbox[k]) \in Nat /\ got[k] \in ByteSeqs
         /\ \A i \in Filled(clientMap) :
               /\ clientMap[i].value.conn \in Conns /\ clientMap[i].value.recv \in ByteSeqs
               /\ Here(i) \in ByteSeqs
<1>1. \A k \in Conns : /\ produced[k] \in Nat /\ inbox[k] \in ByteSeqs
                       /\ Len(inbox[k]) \in Nat /\ got[k] \in ByteSeqs
  BY LenProperties DEF TypeOK, ByteSeqs
<1>2. \A i \in Filled(clientMap) :
         clientMap[i].value.conn \in Conns /\ clientMap[i].value.recv \in ByteSeqs
  BY ConnsBound DEF TablesOK, ClientTable
<1>3. \A i \in Filled(clientMap) : Here(i) \in ByteSeqs
  BY <1>1, <1>2, NumbersJoined DEF Here
<1>4. QED
  BY <1>1, <1>2, <1>3 DEF TypeOK

(* The messages to the client: one taken, or one without data added. *)
LEMMA DownOrderTaken ==
  ASSUME TypeOK, DownOrder, toClient # <<>>, toClient' = Tail(toClient)
  PROVE  /\ DownOrder'
         /\ Head(toClient).cmd = "DATA" =>
               \A m \in Mentions(toClient', "DATA") :
                  m.conn = Head(toClient).conn => Below(Head(toClient).data, m.data)
<1> DEFINE q == toClient
           t == Tail(toClient)
<1>1. /\ Head(q) = q[1] /\ 1 \in DOMAIN q
      /\ \A i \in DOMAIN t : i \in Nat \ {0} /\ i + 1 \in DOMAIN q /\ t[i] = q[i + 1]
  BY Taken DEF TypeOK
<1>2. \A i, j \in DOMAIN q :
         i < j /\ q[i].cmd = "DATA" /\ q[j].cmd = "DATA" /\ q[i].conn = q[j].conn
            => Below(q[i].data, q[j].data)
  BY DEF DownOrder
<1> HIDE DEF q, t
<1>3. ASSUME NEW i \in DOMAIN t, NEW j \in DOMAIN t, i < j, t[i].cmd = "DATA", t[j].cmd = "DATA",
             t[i].conn = t[j].conn
      PROVE  Below(t[i].data, t[j].data)
  <2>1. i + 1 \in DOMAIN q /\ j + 1 \in DOMAIN q /\ i + 1 < j + 1
        /\ t[i] = q[i + 1] /\ t[j] = q[j + 1]
    BY <1>1, <1>3
  <2>2. Below(q[i + 1].data, q[j + 1].data)
    BY <1>2, <1>3, <2>1
  <2>3. QED
    BY <2>1, <2>2, Zenon
<1>4. DownOrder'
  BY <1>3 DEF DownOrder, t
<1>5. ASSUME Head(q).cmd = "DATA", NEW m \in Mentions(t, "DATA"), m.conn = Head(q).conn
      PROVE  Below(Head(q).data, m.data)
  <2>1. PICK i \in DOMAIN t : t[i] = m
    BY Zenon DEF Mentions, Range
  <2>2. m.cmd = "DATA"
    BY Zenon DEF Mentions
  <2>3. i + 1 \in DOMAIN q /\ q[i + 1] = m /\ 1 < i + 1
    BY <1>1, <2>1
  <2>4. Below(q[1].data, q[i + 1].data)
    BY <1>1, <1>2, <1>5, <2>2, <2>3
  <2>5. QED
    BY <1>1, <2>3, <2>4, Zenon
<1>6. QED
  BY <1>4, <1>5 DEF q, t

LEMMA DownOrderAdded ==
  ASSUME TypeOK, DownOrder, NEW m \in Messages, m.cmd # "DATA", toClient' = Append(toClient, m)
  PROVE  DownOrder' /\ Mentions(toClient', "DATA") = Mentions(toClient, "DATA")
<1>1. /\ Mentions(toClient', "DATA") = Mentions(toClient, "DATA")
      /\ DOMAIN toClient' = DOMAIN toClient \cup {Len(toClient) + 1}
      /\ \A i \in DOMAIN toClient : toClient'[i] = toClient[i]
      /\ toClient'[Len(toClient) + 1] = m
  BY MessageAdded DEF TypeOK
<1>2. QED
  BY <1>1 DEF DownOrder

(* What is to be shown of an entry after a step. *)
LEMMA DownHereNext ==
  ASSUME \A i \in Filled(clientMap') : \E k, h :
            /\ clientMap'[i].value.conn = k /\ Here(i)' = h
            /\ InOrder(k, h)
            /\ \A x \in Numbers(h) : x <= Read(k)'
            /\ \A m \in Mentions(toClient', "DATA") : m.conn = k => Below(h, m.data)
  PROVE  DownHere'
<1> SUFFICES ASSUME NEW i \in Filled(clientMap')
             PROVE  (/\ InOrder(clientMap[i].value.conn, Here(i))
                     /\ \A x \in Numbers(Here(i)) : x <= Read(clientMap[i].value.conn)
                     /\ \A m \in Mentions(toClient, "DATA") :
                           m.conn = clientMap[i].value.conn => Below(Here(i), m.data))'
  BY DEF DownHere
<1>1. PICK k, h :
         /\ clientMap'[i].value.conn = k /\ Here(i)' = h
         /\ InOrder(k, h)
         /\ \A x \in Numbers(h) : x <= Read(k)'
         /\ \A m \in Mentions(toClient', "DATA") : m.conn = k => Below(h, m.data)
  OBVIOUS
<1>2. Read(clientMap[i].value.conn)' = Read(k)'
  BY <1>1 DEF Read
<1>3. QED
  BY <1>1, <1>2

(* Steps that bring no bytes to the client: the relay may have read more,  *)
(* messages and entries may have gone. *)
LEMMA DownFewer ==
  ASSUME TypeOK, TablesOK, Down, UNCHANGED got, DownUnread', DownOrder',
         \A k \in Conns : Read(k) <= Read(k)',
         Mentions(toClient', "DATA") \subseteq Mentions(toClient, "DATA"),
         Filled(clientMap') \subseteq Filled(clientMap),
         \A i \in Filled(clientMap') : clientMap'[i].value = clientMap[i].value
  PROVE  Down'
<1>1. \A k \in Conns : Read(k) \in Nat /\ Read(k)' \in Nat
  BY DEF Down, DownUnread
<1>2. \A k \in Conns, x \in Nat : x <= Read(k) => x <= Read(k)'
  BY <1>1
<1>3. \A m \in Mentions(toClient, "DATA") : Numbers(m.data) \subseteq Nat
  BY DownTypes, MentionsType, MessageParts, NumbersType
<1>4. \A i \in Filled(clientMap) : /\ clientMap[i].value.conn \in Conns
                                   /\ Numbers(Here(i)) \subseteq Nat
  BY DownTypes, NumbersType
<1>5. DownGot'
  BY DEF Down, DownGot
<1>6. DownBytes'
  BY <1>2, <1>3, SMTT(30) DEF Down, DownBytes
<1>7. \A i \in Filled(clientMap') : Here(i)' = Here(i)
  BY DEF Here
<1>8. DownHere'
  <2>1. ASSUME NEW i \in Filled(clientMap')
        PROVE  \E k, h :
                  /\ clientMap'[i].value.conn = k /\ Here(i)' = h
                  /\ InOrder(k, h)
                  /\ \A x \in Numbers(h) : x <= Read(k)'
                  /\ \A m \in Mentions(toClient', "DATA") : m.conn = k => Below(h, m.data)
    <3> PICK k \in Conns : k = clientMap[i].value.conn
      BY <1>4
    <3>1. i \in Filled(clientMap) /\ Here(i)' = Here(i) /\ clientMap'[i].value.conn = k
      BY <1>7
    <3>2. /\ InOrder(k, Here(i))
          /\ \A x \in Numbers(Here(i)) : x <= Read(k)
          /\ \A m \in Mentions(toClient, "DATA") : m.conn = k => Below(Here(i), m.data)
      BY <3>1 DEF Down, DownHere
    <3>3. Numbers(Here(i)) \subseteq Nat
      BY <1>4, <3>1
    <3>4. \A x \in Numbers(Here(i)) : x <= Read(k)'
      BY <1>2, <3>2, <3>3
    <3>5. QED
      BY <3>1, <3>2, <3>4
  <2>2. QED
    BY <2>1, DownHereNext
<1>9. QED
  BY <1>5, <1>6, <1>8 DEF Down

LEMMA ReadSame ==
  ASSUME Down, UNCHANGED <<produced, inbox>>
  PROVE  DownUnread' /\ \A k \in Conns : Read(k)' = Read(k) /\ Read(k) <= Read(k)'
<1>1. \A k \in Conns : Read(k) \in Nat /\ Read(k)' = Read(k)
  BY DEF Down, DownUnread, Read
<1>2. DownUnread'
  BY DEF Down, DownUnread, Read
<1>3. QED
  BY <1>1, <1>2

LEMMA DownUntouched ==
  ASSUME TypeOK, TablesOK, Down, UNCHANGED <<produced, inbox, got, toClient>>,
         Filled(clientMap') \subseteq Filled(clientMap),
         \A i \in Filled(clientMap') : clientMap'[i].value = clientMap[i].value
  PROVE  Down'
<1>1. DownUnread' /\ \A k \in Conns : Read(k) <= Read(k)'
  BY ReadSame
<1>2. DownOrder' /\ Mentions(toClient', "DATA") \subseteq Mentions(toClient, "DATA")
  BY DEF Down, DownOrder, Mentions
<1>3. QED
  BY <1>1, <1>2, DownFewer

LEMMA ConnectDown ==
  ASSUME TypeOK, TablesOK, Down, Connect
  PROVE  Down'
<1>1. UNCHANGED <<produced, inbox, got, toClient>>
  BY DEF Connect, serverVars
<1> PICK s : s = stream_id' % HASHMAP_AMOUNT
  OBVIOUS
<1>2. /\ conns' = conns + 1 /\ conns' \in Conns /\ conns \in Nat
      /\ Filled(clientMap') = Filled(clientMap) \cup {s}
      /\ clientMap'[s].value = [conn |-> conns', recv |-> <<>>]
      /\ \A i \in Filled(clientMap) : clientMap'[i] = clientMap[i]
  BY ClientInserts
<1>3. got[conns'] = <<>>
  BY <1>2 DEF TablesOK, Unused
<1>4. DownUnread' /\ \A k \in Conns : Read(k)' = Read(k)
  BY <1>1, ReadSame
<1>5. DownGot' /\ DownOrder' /\ Mentions(toClient', "DATA") = Mentions(toClient, "DATA")
  BY <1>1 DEF Down, DownGot, DownOrder, Mentions
<1>6. DownBytes'
  BY <1>4, <1>5 DEF Down, DownBytes
<1>7. DownHere'
  <2>1. ASSUME NEW i \in Filled(clientMap)
        PROVE  \E k, h :
                  /\ clientMap'[i].value.conn = k /\ Here(i)' = h
                  /\ InOrder(k, h)
                  /\ \A x \in Numbers(h) : x <= Read(k)'
                  /\ \A m \in Mentions(toClient', "DATA") : m.conn = k => Below(h, m.data)
    <3> PICK k \in Conns : k = clientMap[i].value.conn
      BY DownTypes, SMTT(30)
    <3>1. Here(i)' = Here(i) /\ clientMap'[i].value.conn = k
      BY <1>1, <1>2 DEF Here
    <3>2. /\ InOrder(k, Here(i))
          /\ \A x \in Numbers(Here(i)) : x <= Read(k)
          /\ \A m \in Mentions(toClient, "DATA") : m.conn = k => Below(Here(i), m.data)
      BY DEF Down, DownHere
    <3>3. QED
      BY <1>4, <1>5, <3>1, <3>2
  <2>2. \E k, h :
           /\ clientMap'[s].value.conn = k /\ Here(s)' = h
           /\ InOrder(k, h)
           /\ \A x \in Numbers(h) : x <= Read(k)'
           /\ \A m \in Mentions(toClient', "DATA") : m.conn = k => Below(h, m.data)
    <3> PICK k \in Conns : k = conns'
      BY <1>2
    <3>1. clientMap'[s].value.conn = k /\ clientMap'[s].value.recv = <<>> /\ got'[k] = <<>>
      BY <1>1, <1>2, <1>3
    <3>2. <<>> \o <<>> = <<>>
      OBVIOUS
    <3>3. got'[clientMap'[s].value.conn] \o clientMap'[s].value.recv = <<>>
      BY <3>1, <3>2, Zenon
    <3>4. \A m : Below(<<>>, m.data)
      BY NoBytes DEF Below
    <3>5. QED
      BY <3>1, <3>3, <3>4, NoBytes DEF Here
  <2>3. QED
    BY <1>2, <2>1, <2>2, DownHereNext
<1>8. QED
  BY <1>4, <1>5, <1>6, <1>7 DEF Down

LEMMA BytesAssociate ==
  ASSUME NEW s \in ByteSeqs, NEW t \in ByteSeqs, NEW u \in ByteSeqs
  PROVE  (s \o t) \o u = s \o (t \o u)
<1> DEFINE S == (Conns \X Nat) \cup {Stale}
<1>1. s \in Seq(S) /\ t \in Seq(S) /\ u \in Seq(S)
  BY DEF ByteSeqs
<1> HIDE DEF S
<1>2. QED
  BY <1>1, ConcatAssociative

LEMMA RecvDown ==
  ASSUME TypeOK, TablesOK, Down, NEW id \in Nat, NEW length \in Lengths, Recv(id, length)
  PROVE  Down'
<1>1. PICK s \in Filled(clientMap), taken \in ByteSeqs, rest \in ByteSeqs :
         LET k == clientMap[s].value.conn
         IN  /\ k \in 1 .. conns /\ k \in Conns
             /\ clientMap[s].value.recv = taken \o rest
             /\ got' = [got EXCEPT ![k] = got[k] \o taken]
             /\ clientMap' \in Tables(ClientValues)
             /\ Filled(clientMap') = Filled(clientMap)
             /\ clientMap'[s].value.recv = rest
             /\ \A i \in Filled(clientMap) :
                   /\ clientMap'[i].stream_id = clientMap[i].stream_id
                   /\ clientMap'[i].value.conn = clientMap[i].value.conn
                   /\ i # s => clientMap'[i] = clientMap[i]
             /\ ClientTable'
             /\ UNCHANGED <<client, stream_id, conns, sent, hasty, toRelay, toClient,
                            relay, relayMap, epoll, server, inbox, produced, served>>
  BY Receiving, Zenon
<1>2. PICK k \in Conns : k = clientMap[s].value.conn
  BY <1>1
<1>3. /\ got[k] \in ByteSeqs /\ got'[k] = got[k] \o taken
      /\ \A j \in Conns : j # k => got'[j] = got[j]
  BY <1>1, <1>2, DownTypes DEF TypeOK
<1>4. got'[k] \o rest = Here(s)
  <2>1. (got[k] \o taken) \o rest = got[k] \o (taken \o rest)
    BY <1>3, BytesAssociate
  <2>2. Here(s) = got[k] \o (taken \o rest)
    <3>1. clientMap[s].value.recv = taken \o rest
      BY <1>1
    <3>2. QED
      BY <1>2, <3>1, Zenon DEF Here
  <2>3. QED
    BY <1>3, <2>1, <2>2, Zenon
<1>5. InOrder(k, Here(s))
  BY <1>2 DEF Down, DownHere
<1>6. InOrder(k, got'[k])
  <2>1. got[k] \o taken \in ByteSeqs
    BY <1>3, NumbersJoined
  <2>2. InOrder(k, (got[k] \o taken) \o rest)
    BY <1>3, <1>4, <1>5, Zenon
  <2>3. InOrder(k, got[k] \o taken)
    BY <2>1, <2>2, InOrderJoined
  <2>4. QED
    BY <1>3, <2>3, Zenon
<1>7. DownGot'
  BY <1>3, <1>6 DEF Down, DownGot
<1>8. UNCHANGED <<produced, inbox, toClient>> /\ Filled(clientMap') = Filled(clientMap)
  BY <1>1
<1>9. DownUnread' /\ \A j \in Conns : Read(j)' = Read(j)
  BY <1>8, ReadSame
<1>10. DownOrder' /\ Mentions(toClient', "DATA") = Mentions(toClient, "DATA")
  BY <1>8 DEF Down, DownOrder, Mentions
<1>11. DownBytes'
  BY <1>9, <1>10 DEF Down, DownBytes
<1>12. DownHere'
  <2>1. ASSUME NEW i \in Filled(clientMap')
        PROVE  \E j, h :
                  /\ clientMap'[i].value.conn = j /\ Here(i)' = h
                  /\ InOrder(j, h)
                  /\ \A x \in Numbers(h) : x <= Read(j)'
                  /\ \A m \in Mentions(toClient', "DATA") : m.conn = j => Below(h, m.data)
    <3>1. i \in Filled(clientMap)
      BY <1>8
    <3>2. PICK j \in Conns : j = clientMap[i].value.conn
      BY <3>1, DownTypes
    <3>3. clientMap'[i].value.conn = j
      BY <1>1, <3>1, <3>2
    <3>4. Here(i)' = Here(i)
      <4>1. CASE i = s
        <5>1. clientMap'[s].value.recv = rest /\ clientMap'[s].value.conn = k
          BY <1>1, <1>2
        <5>2. got'[clientMap'[s].value.conn] \o clientMap'[s].value.recv = Here(s)
          BY <1>4, <5>1, ZenonT(30)
        <5>3. Here(s)' = Here(s)
          BY <5>2 DEF Here
        <5>4. QED
          BY <4>1, <5>3, Zenon
      <4>2. CASE i # s
        <5>1. clientMap'[i] = clientMap[i]
          BY <1>1, <3>1, <4>2
        <5>2. j # k
          BY <1>2, <3>1, <3>2, <4>2 DEF TablesOK, ClientTable
        <5>3. got'[j] = got[j]
          BY <1>3, <5>2
        <5>4. QED
          BY <3>2, <5>1, <5>3 DEF Here
      <4>3. QED
        BY <4>1, <4>2
    <3>5. /\ InOrder(j, Here(i))
          /\ \A x \in Numbers(Here(i)) : x <= Read(j)
          /\ \A m \in Mentions(toClient, "DATA") : m.conn = j => Below(Here(i), m.data)
      BY <3>1, <3>2 DEF Down, DownHere
    <3>6. QED
      BY <1>9, <1>10, <3>3, <3>4, <3>5
  <2>2. QED
    BY <2>1, DownHereNext
<1>13. QED
  BY <1>7, <1>9, <1>10, <1>11, <1>12 DEF Down

(* Bytes joined to those that were there. *)
LEMMA BelowJoined ==
  ASSUME NEW s \in ByteSeqs, NEW t \in ByteSeqs, NEW u
  PROVE  /\ Below(s \o t, u) <=> Below(s, u) /\ Below(t, u)
         /\ Below(u, s \o t) <=> Below(u, s) /\ Below(u, t)
BY NumbersJoined DEF Below

LEMMA ClientDataDown ==
  ASSUME TypeOK, TablesOK, Agree, Down, ClientReceives, Head(toClient).cmd = "DATA",
         Found(clientMap, Head(toClient).stream_id)
  PROVE  Down'
<1>1. PICK m \in Messages : m = Head(toClient)
  BY ClientReceiving
<1>2. /\ toClient # <<>> /\ toClient' = Tail(toClient) /\ m.cmd = "DATA" /\ m.stream_id \in Nat
      /\ m.length \in 0 .. Len(m.data) /\ m.data \in ByteSeqs
      /\ UNCHANGED <<produced, inbox, got, conns>>
      /\ Found(clientMap, m.stream_id)
  BY <1>1, ClientReceiving
<1>3. PICK part \in ByteSeqs, rest \in ByteSeqs :
         part = SubSeq(m.data, 1, m.length) /\ part \o rest = m.data
  <2>1. /\ SubSeq(m.data, 1, m.length) \in ByteSeqs /\ Rest(m.data, m.length) \in ByteSeqs
        /\ SubSeq(m.data, 1, m.length) \o Rest(m.data, m.length) = m.data
    BY <1>2, CutOff, ZenonT(30) DEF ByteSeqs
  <2>2. QED
    BY <2>1
<1>4. PICK s \in Filled(clientMap) :
         /\ clientMap[s].stream_id = m.stream_id
         /\ Filled(clientMap') = Filled(clientMap)
         /\ clientMap'[s].value.recv = clientMap[s].value.recv \o part
         /\ \A i \in Filled(clientMap) :
               /\ clientMap'[i].value.conn = clientMap[i].value.conn
               /\ i # s => clientMap'[i] = clientMap[i]
  <2> DEFINE id == m.stream_id
             f  == FoundSlot(clientMap, id)
             bytes == FoundValue(clientMap, id).recv \o part
  <2>1. bytes \in ByteSeqs
    BY <1>1, <1>2, <1>3, ClientReceiving
  <2>2. clientMap' = SetValue(clientMap, id, [FoundValue(clientMap, id) EXCEPT !.recv = bytes])
    BY <1>1, <1>2, <1>3, ClientReceiving DEF ClientHears
  <2>3. id \in Nat /\ Found(clientMap, id) /\ conns' = conns
    BY <1>2
  <2> HIDE DEF id, bytes
  <2>4. /\ f \in Filled(clientMap) /\ clientMap[f].stream_id = id
        /\ FoundValue(clientMap, id) = clientMap[f].value
        /\ Filled(clientMap') = Filled(clientMap)
        /\ clientMap'[f].value.recv = bytes
        /\ \A i \in Filled(clientMap) :
              /\ clientMap'[i].value.conn = clientMap[i].value.conn
              /\ i # f => clientMap'[i] = clientMap[i]
    BY <2>1, <2>2, <2>3, ClientSets
  <2> HIDE DEF f
  <2>5. clientMap'[f].value.recv = clientMap[f].value.recv \o part
    BY <2>4, Zenon DEF bytes
  <2>6. QED
    BY <2>4, <2>5 DEF id
<1>5. PICK k \in Conns : k = clientMap[s].value.conn
  BY DownTypes
<1>6. toClient \in Seq(Messages)
  BY DownTypes
<1>7. Mentions(toClient, "DATA") = {m} \cup Mentions(toClient', "DATA")
  BY <1>1, <1>2, <1>6, MentionsTaken
<1>8. m.conn = k
  BY <1>4, <1>5, <1>7 DEF Agree, DataDownMeans
<1>9. DownOrder' /\ \A d \in Mentions(toClient', "DATA") : d.conn = k => Below(m.data, d.data)
  BY <1>1, <1>2, <1>8, DownOrderTaken DEF Down
<1>10. DownUnread' /\ \A j \in Conns : Read(j)' = Read(j)
  BY <1>2, ReadSame
<1>11. DownGot'
  BY <1>2 DEF Down, DownGot
<1>12. DownBytes'
  BY <1>7, <1>10 DEF Down, DownBytes
<1>13. /\ InOrder(k, part) /\ Numbers(part) \subseteq Numbers(m.data)
       /\ \A x \in Numbers(m.data) : x <= Read(k)
  <2>1. InOrder(k, m.data) /\ \A x \in Numbers(m.data) : x <= Read(k)
    BY <1>7, <1>8 DEF Down, DownBytes
  <2>2. InOrder(k, part \o rest)
    BY <1>3, <2>1, Zenon
  <2>3. Numbers(part \o rest) = Numbers(part) \cup Numbers(rest)
    BY NumbersJoined
  <2>4. QED
    BY <1>3, <2>1, <2>2, <2>3, InOrderJoined
<1>14. Here(s) \in ByteSeqs /\ Here(s)' = Here(s) \o part
  <2>1. /\ got[k] \in ByteSeqs /\ clientMap[s].value.recv \in ByteSeqs /\ Here(s) \in ByteSeqs
        /\ clientMap'[s].value.conn = k /\ got' = got
    BY <1>2, <1>4, <1>5, DownTypes
  <2>2. (got[k] \o clientMap[s].value.recv) \o part = got[k] \o (clientMap[s].value.recv \o part)
    BY <2>1, BytesAssociate, ZenonT(30)
  <2>3. Here(s) = got[k] \o clientMap[s].value.recv
    BY <1>5, Zenon DEF Here
  <2>4. Here(s)' = got[k] \o clientMap'[s].value.recv
    BY <2>1, Zenon DEF Here
  <2>5. QED
    BY <1>4, <2>1, <2>2, <2>3, <2>4, Zenon
<1>15. /\ InOrder(k, Here(s))
       /\ \A x \in Numbers(Here(s)) : x <= Read(k)
       /\ \A d \in Mentions(toClient, "DATA") : d.conn = k => Below(Here(s), d.data)
  BY <1>5 DEF Down, DownHere
<1>16. /\ InOrder(k, Here(s) \o part)
       /\ \A x \in Numbers(Here(s) \o part) : x <= Read(k)
       /\ \A d \in Mentions(toClient', "DATA") : d.conn = k => Below(Here(s) \o part, d.data)
  <2>1. Below(Here(s), part)
    <3>1. Below(Here(s), m.data)
      BY <1>7, <1>8, <1>15
    <3>2. QED
      BY <1>13, <3>1 DEF Below
  <2>2. InOrder(k, Here(s) \o part)
    BY <1>13, <1>14, <1>15, <2>1, InOrderJoined
  <2>3. Numbers(Here(s) \o part) = Numbers(Here(s)) \cup Numbers(part)
    BY <1>14, NumbersJoined
  <2>4. \A x \in Numbers(Here(s) \o part) : x <= Read(k)
    BY <1>13, <1>15, <2>3
  <2>5. ASSUME NEW d \in Mentions(toClient', "DATA"), d.conn = k
        PROVE  Below(Here(s) \o part, d.data)
    <3>1. Below(Here(s), d.data) /\ Below(m.data, d.data)
      BY <1>7, <1>9, <1>15, <2>5
    <3>2. Below(part, d.data)
      BY <1>13, <3>1 DEF Below
    <3>3. QED
      BY <1>14, <3>1, <3>2, BelowJoined
  <2>6. QED
    BY <2>2, <2>4, <2>5
<1>17. DownHere'
  <2>1. \E j, h :
           /\ clientMap'[s].value.conn = j /\ Here(s)' = h
           /\ InOrder(j, h)
           /\ \A x \in Numbers(h) : x <= Read(j)'
           /\ \A d \in Mentions(toClient', "DATA") : d.conn = j => Below(h, d.data)
    <3> DEFINE h == Here(s) \o part
    <3>1. clientMap'[s].value.conn = k /\ Here(s)' = h
      BY <1>4, <1>5, <1>14
    <3>2. /\ InOrder(k, h) /\ \A x \in Numbers(h) : x <= Read(k)'
          /\ \A d \in Mentions(toClient', "DATA") : d.conn = k => Below(h, d.data)
      BY <1>10, <1>16
    <3> HIDE DEF h
    <3>3. QED
      BY <3>1, <3>2
  <2>2. ASSUME NEW i \in Filled(clientMap'), i # s
        PROVE  \E j, h :
                  /\ clientMap'[i].value.conn = j /\ Here(i)' = h
                  /\ InOrder(j, h)
                  /\ \A x \in Numbers(h) : x <= Read(j)'
                  /\ \A d \in Mentions(toClient', "DATA") : d.conn = j => Below(h, d.data)
    <3>1. i \in Filled(clientMap) /\ clientMap'[i] = clientMap[i]
      <4>1. i \in Filled(clientMap)
        BY <1>4
      <4>2. QED
        BY <1>4, <2>2, <4>1
    <3>2. PICK j \in Conns : j = clientMap[i].value.conn
      BY <3>1, DownTypes
    <3>3. Here(i)' = Here(i) /\ clientMap'[i].value.conn = j
      BY <1>2, <3>1, <3>2 DEF Here
    <3>4. /\ InOrder(j, Here(i))
          /\ \A x \in Numbers(Here(i)) : x <= Read(j)
          /\ \A d \in Mentions(toClient, "DATA") : d.conn = j => Below(Here(i), d.data)
      BY <3>1, <3>2 DEF Down, DownHere
    <3>5. QED
      BY <1>7, <1>10, <3>3, <3>4
  <2>3. QED
    BY <2>1, <2>2, DownHereNext
<1>18. QED
  BY <1>9, <1>10, <1>11, <1>12, <1>17 DEF Down

(* A socket that is emptied counts as read. *)
LEMMA EmptiedReads ==
  ASSUME TypeOK, TablesOK, Down, NEW k \in Conns, inbox' = [inbox EXCEPT ![k] = <<>>],
         UNCHANGED produced
  PROVE  DownUnread' /\ \A j \in Conns : Read(j) <= Read(j)'
<1>1. /\ inbox'[k] = <<>> /\ \A j \in Conns : j # k => inbox'[j] = inbox[j]
      /\ produced[k] \in Nat /\ Len(inbox[k]) \in Nat
  BY DownTypes DEF TypeOK
<1>2. \A j \in Conns : Read(j) \in Nat /\ inbox[j] = Bytes(j, Read(j) + 1, produced[j])
  BY DEF Down, DownUnread
<1>3. Read(k)' = produced[k]
  BY <1>1, NoBytes DEF Read
<1>4. \A j \in Conns : j # k => Read(j)' = Read(j)
  BY <1>1 DEF Read
<1>5. Bytes(k, produced[k] + 1, produced[k]) = <<>>
  <2>1. produced[k] + 1 \in Nat
    BY <1>1
  <2>2. QED
    BY <1>1, <2>1, NoMoreBytes
<1>6. Read(k) <= produced[k]
  BY <1>1 DEF Read
<1>7. ASSUME NEW j \in Conns
      PROVE  /\ Read(j)' \in Nat /\ inbox'[j] = Bytes(j, Read(j)' + 1, produced[j])
             /\ Read(j) <= Read(j)'
  <2>1. CASE j = k
    BY <1>1, <1>3, <1>5, <1>6, <2>1
  <2>2. CASE j # k
    BY <1>1, <1>2, <1>4, <2>2
  <2>3. QED
    BY <2>1, <2>2
<1>8. QED
  BY <1>7 DEF DownUnread

LEMMA ClientDown ==
  ASSUME TypeOK, TablesOK, Agree, Down, ClientStep
  PROVE  Down'
<1> DEFINE m == Head(toClient)
<1>1. /\ toClient # <<>> /\ toClient' = Tail(toClient) /\ m.stream_id \in Nat /\ ClientHears(m)
      /\ UNCHANGED <<got, produced, inbox, conns>> /\ toClient \in Seq(Messages)
      /\ ClientReceives
  BY ClientReceiving DEF ClientStep, TypeOK
<1> HIDE DEF m
<1>2. DownUnread' /\ \A j \in Conns : Read(j) <= Read(j)'
  BY <1>1, ReadSame
<1>3. DownOrder'
  BY <1>1, DownOrderTaken DEF Down
<1>4. Mentions(toClient', "DATA") \subseteq Mentions(toClient, "DATA")
  BY <1>1, MentionsTaken
<1>5. CASE UNCHANGED clientMap
  BY <1>1, <1>2, <1>3, <1>4, <1>5, DownFewer
<1>6. CASE clientMap' = Remove(clientMap, m.stream_id)
  <2>1. /\ Filled(clientMap') \subseteq Filled(clientMap)
        /\ \A i \in Filled(clientMap') : clientMap'[i] = clientMap[i]
    BY <1>1, <1>6, ClientRemoves
  <2>2. QED
    BY <1>1, <1>2, <1>3, <1>4, <2>1, DownFewer
<1>7. CASE m.cmd = "DATA" /\ Found(clientMap, m.stream_id)
  BY <1>1, <1>7, ClientDataDown DEF m
<1>8. QED
  BY <1>1, <1>5, <1>6, <1>7 DEF ClientHears

LEMMA UserDown ==
  ASSUME TypeOK, TablesOK, Down, UserStep
  PROVE  Down'
<1>1. \A id \in Issued : id \in Nat
  BY DEF TypeOK, Issued
<1>2. ASSUME NEW id \in Issued, Close(id) PROVE Down'
  <2>1. /\ clientMap' = Remove(clientMap, id)
        /\ UNCHANGED <<conns, produced, inbox, got, toClient>>
    BY <1>2 DEF Close, serverVars
  <2>2. /\ Filled(clientMap') \subseteq Filled(clientMap)
        /\ \A i \in Filled(clientMap') : clientMap'[i] = clientMap[i]
    BY <1>1, <2>1, ClientRemoves, SMTT(30)
  <2>3. QED
    BY <2>1, <2>2, DownUntouched
<1>3. ASSUME NEW id \in Issued, NEW length \in Lengths, Send(id, length) PROVE Down'
  BY <1>3, DownUntouched DEF Send, serverVars
<1>4. ASSUME ConnectHangs PROVE Down'
  BY <1>4, DownUntouched DEF ConnectHangs, serverVars
<1>5. QED
  BY <1>1, <1>2, <1>3, <1>4, ConnectDown, RecvDown DEF UserStep

(* Replies without data. *)
LEMMA ReplyDown ==
  ASSUME TypeOK, TablesOK, Down, UNCHANGED <<got, clientMap>>,
         DownUnread', \A j \in Conns : Read(j) <= Read(j)',
         NEW m \in Messages, m.cmd # "DATA", toClient' = Append(toClient, m)
  PROVE  Down'
<1>1. DownOrder' /\ Mentions(toClient', "DATA") = Mentions(toClient, "DATA")
  BY DownOrderAdded DEF Down
<1>2. QED
  BY <1>1, DownFewer

(* What is read from a socket: the bytes that follow those read before. *)
PartsRead(k, first, last, size, mid, next) ==
    /\ InOrder(k, SubSeq(Bytes(k, first, last), 1, size))
    /\ Numbers(SubSeq(Bytes(k, first, last), 1, size)) = first .. mid
    /\ Rest(Bytes(k, first, last), size) = Bytes(k, next, last)
    /\ Len(Rest(Bytes(k, first, last), size)) = last + 1 - next

LEMMA SocketParts ==
  ASSUME NEW k \in Conns, NEW first \in Nat \ {0}, NEW last \in Nat,
         NEW size \in Nat, NEW mid \in Nat, NEW next \in Nat,
         mid = first + size - 1, next = first + size, mid <= last
  PROVE  PartsRead(k, first, last, size, mid, next)
<1>1. mid \in Int /\ first <= mid + 1 /\ first \in Nat /\ next <= last + 1
  OBVIOUS
<1>2. SubSeq(Bytes(k, first, last), 1, size) = Bytes(k, first, mid)
  BY FirstBytes
<1>3. Rest(Bytes(k, first, last), size) = Bytes(k, next, last) /\ Len(Bytes(k, next, last)) = last + 1 - next
  BY <1>1, LastBytes
<1>4. InOrder(k, Bytes(k, first, mid)) /\ Numbers(Bytes(k, first, mid)) = first .. mid
  BY <1>1, BytesInOrder
<1>5. QED
  BY <1>2, <1>3, <1>4, Zenon DEF PartsRead

LEMMA SocketReading ==
  ASSUME TypeOK, TablesOK, Down, NEW k \in Conns, NEW size \in 1 .. Len(inbox[k]),
         inbox' = [inbox EXCEPT ![k] = Rest(inbox[k], size)], UNCHANGED produced
  PROVE  /\ DownUnread'
         /\ Read(k) \in Nat /\ Read(k)' \in Nat /\ Read(k) <= Read(k)'
         /\ \A j \in Conns : j # k => Read(j)' = Read(j)
         /\ InOrder(k, SubSeq(inbox[k], 1, size))
         /\ \A y \in Numbers(SubSeq(inbox[k], 1, size)) : Read(k) < y /\ y <= Read(k)'
<1>1. PICK p \in Nat, r \in Nat, n \in Nat :
         p = produced[k] /\ r = Read(k) /\ n = Len(inbox[k])
  BY DownTypes DEF Down, DownUnread
<1>2. PICK first \in Nat \ {0} : first = r + 1
  OBVIOUS
<1>3. inbox[k] = Bytes(k, first, p)
  BY <1>1, <1>2 DEF Down, DownUnread
<1>4. p = r + n
  BY <1>1 DEF Read
<1>5. size \in Nat /\ size <= n
  BY <1>1
<1>6. r + size \in Nat /\ first + size \in Nat /\ n - size \in Nat
  BY ONLY <1>5, r \in Nat, n \in Nat, first \in Nat \ {0}
<1>7. PICK mid \in Nat, next \in Nat, l \in Nat :
         mid = r + size /\ next = first + size /\ l = n - size
  BY ONLY <1>6
<1>8. /\ InOrder(k, SubSeq(inbox[k], 1, size)) /\ Numbers(SubSeq(inbox[k], 1, size)) = first .. mid
      /\ Rest(inbox[k], size) = Bytes(k, next, p) /\ Len(Rest(inbox[k], size)) = l
  <2>1. size \in Nat /\ mid = first + size - 1 /\ mid <= p /\ p + 1 - next = l
    BY ONLY <1>2, <1>4, <1>5, <1>7, r \in Nat, n \in Nat, p \in Nat
  <2>2. /\ InOrder(k, SubSeq(Bytes(k, first, p), 1, size))
        /\ Numbers(SubSeq(Bytes(k, first, p), 1, size)) = first .. mid
        /\ Rest(Bytes(k, first, p), size) = Bytes(k, next, p)
        /\ Len(Rest(Bytes(k, first, p), size)) = p + 1 - next
    <3>1. PartsRead(k, first, p, size, mid, next)
      BY <1>7, <2>1, SocketParts
    <3>2. QED
      BY <3>1, Zenon DEF PartsRead
  <2>3. QED
    BY <1>3, <2>1, <2>2, Zenon
<1>9. inbox'[k] = Rest(inbox[k], size) /\ \A j \in Conns : j # k => inbox'[j] = inbox[j]
  BY DEF TypeOK
<1>10. Read(k)' = mid /\ \A j \in Conns : j # k => Read(j)' = Read(j)
  <2>1. Read(k)' = p - l
    BY <1>1, <1>8, <1>9 DEF Read
  <2>2. p - l = mid
    BY <1>4, <1>7
  <2>3. QED
    BY <1>9, <2>1, <2>2 DEF Read
<1>11. DownUnread'
  <2>1. Read(k)' + 1 = next /\ Read(k)' \in Nat /\ produced'[k] = p
    BY <1>1, <1>2, <1>10, <1>7
  <2>2. inbox'[k] = Bytes(k, Read(k)' + 1, produced'[k])
    BY <1>8, <1>9, <2>1, Zenon
  <2>3. \A j \in Conns : j # k => Read(j)' \in Nat /\ inbox'[j] = Bytes(j, Read(j)' + 1, produced'[j])
    BY <1>9, <1>10 DEF Down, DownUnread
  <2>4. QED
    BY <2>1, <2>2, <2>3 DEF DownUnread
<1>12. (\A y \in first .. mid : r < y /\ y <= mid) /\ r <= mid
  BY <1>2, <1>7
<1>13. QED
  BY <1>1, <1>8, <1>10, <1>11, <1>12

(* A message with bytes that follow all those read before. *)
LEMMA DataDown ==
  ASSUME TypeOK, TablesOK, Down, UNCHANGED <<got, clientMap, produced>>, NEW k \in Conns,
         DownUnread', Read(k) \in Nat, Read(k)' \in Nat, Read(k) <= Read(k)',
         \A j \in Conns : j # k => Read(j)' = Read(j),
         NEW m \in Messages, m.cmd = "DATA", m.conn = k, toClient' = Append(toClient, m),
         InOrder(k, m.data), \A y \in Numbers(m.data) : Read(k) < y /\ y <= Read(k)'
  PROVE  Down'
<1>1. PICK r \in Nat : r = Read(k)
  OBVIOUS
<1>2. \A y \in Numbers(m.data) : y \in Nat /\ r < y /\ y <= Read(k)'
  BY <1>1, MessageParts, NumbersType
<1>3. \A j \in Conns, x \in Nat : x <= Read(j) => x <= Read(j)'
  OBVIOUS
<1>4. toClient \in Seq(Messages)
  BY DownTypes
<1>5. /\ Mentions(toClient', "DATA") = Mentions(toClient, "DATA") \cup {m}
      /\ DOMAIN toClient' = DOMAIN toClient \cup {Len(toClient) + 1}
      /\ DOMAIN toClient \subseteq Nat \ {0} /\ \A i \in DOMAIN toClient : i < Len(toClient) + 1
      /\ \A i \in DOMAIN toClient : toClient'[i] = toClient[i]
      /\ toClient'[Len(toClient) + 1] = m
  BY <1>4, MessageAdded
<1>6. \A d \in Mentions(toClient, "DATA") : Numbers(d.data) \subseteq Nat
  BY DownTypes, MentionsType, MessageParts, NumbersType
<1>7. \A d \in Mentions(toClient, "DATA") : d.conn = k => Below(d.data, m.data)
  <2> SUFFICES ASSUME NEW d \in Mentions(toClient, "DATA"), d.conn = k,
                      NEW x \in Numbers(d.data), NEW y \in Numbers(m.data)
               PROVE  x < y
    BY DEF Below
  <2>1. x \in Nat /\ x <= r
    BY <1>1, <1>6 DEF Down, DownBytes
  <2>2. y \in Nat /\ r < y
    BY <1>2
  <2>3. QED
    BY <2>1, <2>2
<1>8. DownOrder'
  <2> DEFINE l == Len(toClient) + 1
  <2> SUFFICES ASSUME NEW i \in DOMAIN toClient', NEW j \in DOMAIN toClient', i < j,
                      toClient'[i].cmd = "DATA", toClient'[j].cmd = "DATA",
                      toClient'[i].conn = toClient'[j].conn
               PROVE  Below(toClient'[i].data, toClient'[j].data)
    BY DEF DownOrder
  <2>1. l \in Nat
    BY DownTypes, LenProperties
  <2> HIDE DEF l
  <2>2. i \in DOMAIN toClient
    BY <1>5, <2>1 DEF l
  <2>3. CASE j \in DOMAIN toClient
    BY <1>5, <2>2, <2>3 DEF Down, DownOrder
  <2>4. CASE j = l
    <3>1. toClient'[j] = m /\ toClient'[i] = toClient[i]
      BY <1>5, <2>2, <2>4 DEF l
    <3>2. toClient[i].cmd = "DATA" /\ toClient[i].conn = k
      BY <3>1
    <3>3. toClient[i] \in Mentions(toClient, "DATA")
      BY <2>2, <3>2, Zenon DEF Mentions, Range
    <3>4. QED
      BY <1>7, <3>1, <3>2, <3>3
  <2>5. QED
    BY <1>5, <2>3, <2>4 DEF l
<1>9. DownBytes'
  <2>1. \A d \in Mentions(toClient, "DATA") :
           d.conn \in Conns /\ InOrder(d.conn, d.data) /\ \A x \in Numbers(d.data) : x <= Read(d.conn)'
    BY <1>6, <1>3 DEF Down, DownBytes
  <2>2. InOrder(m.conn, m.data) /\ \A x \in Numbers(m.data) : x <= Read(k)'
    <3>1. InOrder(m.conn, m.data)
      BY Zenon
    <3>2. QED
      BY <1>2, <3>1
  <2>3. \A d \in Mentions(toClient', "DATA") :
           d.conn \in Conns /\ InOrder(d.conn, d.data) /\ \A x \in Numbers(d.data) : x <= Read(d.conn)'
    <3> SUFFICES ASSUME NEW d \in Mentions(toClient', "DATA")
                 PROVE  d.conn \in Conns /\ InOrder(d.conn, d.data) /\ \A x \in Numbers(d.data) : x <= Read(d.conn)'
      OBVIOUS
    <3>1. CASE d = m
      BY <2>2, <3>1
    <3>2. QED
      BY <1>5, <2>1, <3>1
  <2>4. QED
    BY <2>3 DEF DownBytes
<1>10. DownHere'
  <2>1. ASSUME NEW i \in Filled(clientMap')
        PROVE  \E j, h :
                  /\ clientMap'[i].value.conn = j /\ Here(i)' = h
                  /\ InOrder(j, h)
                  /\ \A x \in Numbers(h) : x <= Read(j)'
                  /\ \A d \in Mentions(toClient', "DATA") : d.conn = j => Below(h, d.data)
    <3>1. i \in Filled(clientMap)
      OBVIOUS
    <3>2. PICK j \in Conns : j = clientMap[i].value.conn
      BY <3>1, DownTypes
    <3>3. Here(i)' = Here(i) /\ clientMap'[i].value.conn = j /\ Numbers(Here(i)) \subseteq Nat
      BY <3>1, <3>2, DownTypes, NumbersType DEF Here
    <3>4. /\ InOrder(j, Here(i))
          /\ \A x \in Numbers(Here(i)) : x <= Read(j)
          /\ \A d \in Mentions(toClient, "DATA") : d.conn = j => Below(Here(i), d.data)
      BY <3>1, <3>2 DEF Down, DownHere
    <3>5. \A x \in Numbers(Here(i)) : x <= Read(j)'
      BY <1>3, <3>3, <3>4
    <3>6. j = k => Below(Here(i), m.data)
      <4> SUFFICES ASSUME j = k, NEW x \in Numbers(Here(i)), NEW y \in Numbers(m.data)
                   PROVE  x < y
        BY DEF Below
      <4>1. x \in Nat /\ x <= r
        BY <1>1, <3>3, <3>4
      <4>2. y \in Nat /\ r < y
        BY <1>2
      <4>3. QED
        BY <4>1, <4>2
    <3>7. \A d \in Mentions(toClient', "DATA") : d.conn = j => Below(Here(i), d.data)
      BY <1>5, <3>4, <3>6
    <3>8. QED
      BY <3>3, <3>4, <3>5, <3>7
  <2>2. QED
    BY <2>1, DownHereNext
<1>11. DownGot'
  BY DEF Down, DownGot
<1>12. QED
  BY <1>8, <1>9, <1>10, <1>11 DEF Down

(* The relay's handlers. *)
LEMMA ClosedReads ==
  ASSUME TypeOK, TablesOK, Down, NEW id \in Nat, Found(relayMap, id), CloseSocket(id),
         UNCHANGED <<conns, produced>>
  PROVE  DownUnread' /\ \A j \in Conns : Read(j) <= Read(j)'
<1>1. PICK k \in Conns : k = FoundValue(relayMap, id)
  BY RelayCloses
<1>2. inbox' = [inbox EXCEPT ![k] = <<>>]
  BY <1>1 DEF CloseSocket
<1>3. QED
  BY <1>2, EmptiedReads

LEMMA RelayBeginDown ==
  ASSUME TypeOK, TablesOK, Down, RelayBegin
  PROVE  Down'
<1> DEFINE id == Head(toRelay).stream_id
           k  == Head(toRelay).conn
<1>1. /\ id \in Nat /\ k \in Conns
      /\ \/ toClient' = Append(toClient, Msg("END", id, k))
         \/ toClient' = Append(toClient, Msg("CONNECTED", id, k))
      /\ UNCHANGED <<clientMap, got, produced, inbox>>
  BY RelayBeginEffect
<1> HIDE DEF id, k
<1>2. k \in 0 .. MaxConns
  BY <1>1, StreamsAssumption DEF Conns
<1>3. PICK m \in Messages : m.cmd # "DATA" /\ toClient' = Append(toClient, m)
  <2>1. CASE toClient' = Append(toClient, Msg("END", id, k))
    BY <1>1, <1>2, <2>1, MsgType
  <2>2. CASE toClient' = Append(toClient, Msg("CONNECTED", id, k))
    BY <1>1, <1>2, <2>2, MsgType
  <2>3. QED
    BY <1>1, <2>1, <2>2
<1>4. QED
  BY <1>1, <1>3, ReadSame, ReplyDown

LEMMA RelayDataDown ==
  ASSUME TypeOK, TablesOK, Down, RelayData
  PROVE  Down'
<1> DEFINE d == Head(toRelay)
           e == Msg("END", d.stream_id, d.conn)
<1>1. /\ d.stream_id \in Nat /\ d.conn \in 0 .. MaxConns
      /\ toClient' \in {toClient, Append(toClient, e)}
      /\ UNCHANGED <<clientMap, got, produced, inbox>>
  BY RelayReadsTypes DEF RelayData, Replies, clientVars
<1>2. e \in Messages /\ e.cmd = "END"
  BY <1>1, MsgType
<1> HIDE DEF d, e
<1>3. CASE toClient' = toClient
  BY <1>1, <1>3, DownUntouched
<1>4. CASE toClient' = Append(toClient, e)
  <2>1. PICK m \in Messages : m = e
    BY <1>2
  <2>2. m.cmd # "DATA" /\ toClient' = Append(toClient, m)
    BY <1>2, <1>4, <2>1
  <2>3. QED
    BY <1>1, <2>2, ReadSame, ReplyDown
<1>5. QED
  BY <1>1, <1>3, <1>4

LEMMA RelayEndDown ==
  ASSUME TypeOK, TablesOK, Down, RelayEnd
  PROVE  Down'
<1> DEFINE id == Head(toRelay).stream_id
           e  == Msg("END", id, 0)
<1>1. /\ id \in Nat
      /\ \/ Found(relayMap, id) /\ CloseSocket(id)
         \/ ~Found(relayMap, id) /\ UNCHANGED <<epoll, server, inbox, relayMap>>
      /\ toClient' = Append(toClient, e)
      /\ UNCHANGED <<clientMap, conns, got, produced>>
  BY RelayReadsTypes DEF RelayEnd, Replies, clientVars
<1>2. e \in Messages /\ e.cmd = "END"
  BY <1>1, StreamsAssumption, MsgType
<1> HIDE DEF id, e
<1>3. DownUnread' /\ \A j \in Conns : Read(j) <= Read(j)'
  BY <1>1, ClosedReads, ReadSame
<1>4. PICK m \in Messages : m = e
  BY <1>2
<1>5. m.cmd # "DATA" /\ toClient' = Append(toClient, m)
  BY <1>1, <1>2, <1>4
<1>6. QED
  BY <1>1, <1>3, <1>5, ReplyDown

LEMMA RelayInternetDown ==
  ASSUME TypeOK, TablesOK, Down, NEW event \in epoll, RelayInternet(event)
  PROVE  Down'
<1>1. PICK id, k, size, m, e :
         /\ id = event.stream_id /\ k = FoundValue(relayMap, id) /\ size = Piece(Len(inbox[k]))
         /\ m = DataMsg(id, k, SubSeq(inbox[k], 1, size), size) /\ e = Msg("END", id, k)
  OBVIOUS
<1>2. /\ id \in Nat /\ Found(relayMap, id) /\ k \in Conns
      /\ \/ /\ size \in 1 .. Len(inbox[k])
            /\ inbox' = [inbox EXCEPT ![k] = Rest(inbox[k], size)]
            /\ toClient' = Append(toClient, m)
            /\ m \in Messages /\ m.cmd = "DATA" /\ m.conn = k
            /\ m.data = <<Stale>> \o SubSeq(inbox[k], 1, size)
            /\ SubSeq(inbox[k], 1, size) \in ByteSeqs
         \/ CloseSocket(id) /\ toClient' = Append(toClient, e)
      /\ UNCHANGED <<clientMap, conns, got, produced>>
  BY <1>1, RelayInternetEffect
<1>3. ASSUME size \in 1 .. Len(inbox[k]),
             inbox' = [inbox EXCEPT ![k] = Rest(inbox[k], size)],
             toClient' = Append(toClient, m),
             m \in Messages, m.cmd = "DATA", m.conn = k,
             m.data = <<Stale>> \o SubSeq(inbox[k], 1, size),
             SubSeq(inbox[k], 1, size) \in ByteSeqs
      PROVE  Down'
  <2> DEFINE part == SubSeq(inbox[k], 1, size)
  <2>1. /\ DownUnread'
        /\ Read(k) \in Nat /\ Read(k)' \in Nat /\ Read(k) <= Read(k)'
        /\ \A j \in Conns : j # k => Read(j)' = Read(j)
        /\ InOrder(k, part)
        /\ \A y \in Numbers(part) : Read(k) < y /\ y <= Read(k)'
    BY <1>2, <1>3, SocketReading
  <2> HIDE DEF part
  <2>2. /\ Numbers(<<Stale>> \o part) = Numbers(part)
        /\ InOrder(k, <<Stale>> \o part)
    <3>1. PICK stale \in ByteSeqs : stale = <<Stale>>
      BY OneStale
    <3>2. Numbers(stale) = {} /\ InOrder(k, stale) /\ Below(stale, part)
      BY <3>1, OneStale DEF Below
    <3>3. Numbers(stale \o part) = Numbers(part) /\ InOrder(k, stale \o part)
      <4>1. part \in ByteSeqs
        BY <1>3 DEF part
      <4>2. InOrder(k, part)
        BY <2>1
      <4>3. Numbers(stale \o part) = Numbers(stale) \cup Numbers(part)
        BY <4>1, NumbersJoined, Zenon
      <4>4. InOrder(k, stale \o part)
        BY <3>2, <4>1, <4>2, InOrderJoined, Zenon
      <4>5. QED
        BY <3>2, <4>3, <4>4
    <3>4. QED
      BY <3>1, <3>3
  <2>3. InOrder(k, m.data) /\ Numbers(m.data) = Numbers(part)
    BY <1>3, <2>2, Zenon DEF part
  <2>4. \A y \in Numbers(m.data) : Read(k) < y /\ y <= Read(k)'
    BY <2>1, <2>3
  <2>5. QED
    BY <1>2, <1>3, <2>1, <2>3, <2>4, DataDown
<1>4. ASSUME CloseSocket(id), toClient' = Append(toClient, e)
      PROVE  Down'
  <2>1. DownUnread' /\ \A j \in Conns : Read(j) <= Read(j)'
    BY <1>2, <1>4, ClosedReads
  <2>2. e \in Messages /\ e.cmd # "DATA"
    <3>1. k \in 0 .. MaxConns
      BY <1>2, StreamsAssumption DEF Conns
    <3>2. Msg("END", id, k) \in Messages /\ Msg("END", id, k).cmd = "END"
      <4>1. id \in Nat
        BY <1>2
      <4>2. \A i \in Nat, j \in 0 .. MaxConns :
               Msg("END", i, j) \in Messages /\ Msg("END", i, j).cmd = "END"
        BY MsgType
      <4>3. QED
        BY <3>1, <4>1, <4>2, Zenon
    <3>3. QED
      BY <1>1, <3>2
  <2>3. QED
    BY <1>2, <1>4, <2>1, <2>2, ReplyDown
<1>5. QED
  BY <1>2, <1>3, <1>4

LEMMA RelayDown ==
  ASSUME TypeOK, TablesOK, Down, RelayStep
  PROVE  Down'
BY RelayBeginDown, RelayDataDown, RelayEndDown, RelayInternetDown DEF RelayStep

(* The servers. *)
LEMMA ServerSendsDown ==
  ASSUME TypeOK, TablesOK, Down, NEW k \in Conns, ServerSends(k)
  PROVE  Down'
<1>1. PICK p \in Nat, r \in Nat, n \in Nat, next \in Nat, first \in Nat \ {0} :
         /\ p = produced[k] /\ r = Read(k) /\ n = Len(inbox[k])
         /\ next = p + 1 /\ first = r + 1
  <2>1. produced[k] \in Nat /\ Read(k) \in Nat /\ Len(inbox[k]) \in Nat
    BY DownTypes DEF Down, DownUnread
  <2>2. produced[k] + 1 \in Nat /\ Read(k) + 1 \in Nat \ {0}
    BY <2>1
  <2>3. QED
    BY <2>1, <2>2
<1>2. p = first + n - 1
  BY <1>1 DEF Read
<1>3. /\ produced'[k] = next /\ inbox'[k] = Append(inbox[k], <<k, next>>)
      /\ \A j \in Conns : j # k => produced'[j] = produced[j] /\ inbox'[j] = inbox[j]
      /\ UNCHANGED <<clientMap, got, toClient>>
  BY <1>1 DEF ServerSends, clientVars, TypeOK
<1>4. inbox[k] = Bytes(k, first, p)
  BY <1>1 DEF Down, DownUnread
<1>5. inbox'[k] = Bytes(k, first, next) /\ Len(inbox'[k]) = n + 1
  <2>1. Append(Bytes(k, first, p), <<k, next>>) = Bytes(k, first, next)
    <3>1. next = p + 1 /\ first <= p + 1
      BY <1>1, <1>2
    <3>2. QED
      BY <3>1, BytesExtended
  <2>2. inbox[k] \in ByteSeqs
    BY DownTypes
  <2>3. <<k, next>> \in (Conns \X Nat) \cup {Stale}
    OBVIOUS
  <2>4. Len(Append(inbox[k], <<k, next>>)) = Len(inbox[k]) + 1
    BY <2>2, <2>3, AppendProperties DEF ByteSeqs
  <2>5. QED
    BY <1>1, <1>3, <1>4, <2>1, <2>4
<1>6. Read(k)' = r /\ \A j \in Conns : j # k => Read(j)' = Read(j)
  <2>1. Read(k)' = next - (n + 1)
    BY <1>3, <1>5 DEF Read
  <2>2. next - (n + 1) = r
    BY <1>1, <1>2
  <2>3. QED
    BY <1>3, <2>1, <2>2 DEF Read
<1>7. \A j \in Conns : Read(j)' = Read(j) /\ Read(j) \in Nat
  BY <1>1, <1>6 DEF Down, DownUnread
<1>8. DownUnread'
  <2>1. Read(k)' \in Nat /\ Read(k)' + 1 = first
    BY <1>1, <1>6
  <2>2. inbox'[k] = Bytes(k, Read(k)' + 1, produced'[k])
    BY <1>3, <1>5, <2>1, Zenon
  <2>3. \A j \in Conns : j # k => inbox'[j] = Bytes(j, Read(j)' + 1, produced'[j])
    BY <1>3, <1>6 DEF Down, DownUnread
  <2>4. QED
    BY <1>7, <2>2, <2>3 DEF DownUnread
<1>9. DownOrder' /\ Mentions(toClient', "DATA") = Mentions(toClient, "DATA")
      /\ Filled(clientMap') = Filled(clientMap)
  BY <1>3 DEF Down, DownOrder
<1>10. \A j \in Conns : Read(j) <= Read(j)'
  BY <1>7
<1>11. QED
  BY <1>3, <1>8, <1>9, <1>10, DownFewer

LEMMA ServerDown ==
  ASSUME TypeOK, TablesOK, Down, ServerStep
  PROVE  Down'
<1>1. ASSUME NEW k \in Conns, ServerCloses(k) PROVE Down'
  <2>1. /\ UNCHANGED <<clientMap, got, toClient, produced>>
        /\ \/ UNCHANGED inbox
           \/ inbox' = [inbox EXCEPT ![k] = <<>>]
    BY <1>1 DEF ServerCloses, clientVars
  <2>2. DownUnread' /\ \A j \in Conns : Read(j) <= Read(j)'
    BY <2>1, ReadSame, EmptiedReads
  <2>3. DownOrder' /\ Mentions(toClient', "DATA") = Mentions(toClient, "DATA")
        /\ Filled(clientMap') = Filled(clientMap)
    BY <2>1 DEF Down, DownOrder
  <2>4. QED
    BY <2>1, <2>2, <2>3, DownFewer
<1>2. QED
  BY <1>1, ServerSendsDown DEF ServerStep

LEMMA DownKept ==
  ASSUME TypeOK, TablesOK, Agree, Down, [Next]_vars
  PROVE  Down'
<1>1. ASSUME UNCHANGED vars PROVE Down'
  BY <1>1, DownUntouched DEF vars, clientVars, relayVars, serverVars
<1>2. QED
  BY <1>1, ClientDown, UserDown, RelayDown, ServerDown DEF Next, ClientStep

-----------------------------------------------------------------------------
(* The invariant holds from the start and is kept. *)
LEMMA StreamsInvInit ==
  ASSUME Init
  PROVE  StreamsInv
<1>1. /\ EmptyMap \in [Slots -> EntriesOf([conn : Conns, recv : ByteSeqs])]
      /\ EmptyMap \in [Slots -> EntriesOf(Conns)]
      /\ Reachable(EmptyMap) /\ Distinct(EmptyMap) /\ Filled(EmptyMap) = {}
  <2>1. /\ EmptyMap \in Tables(ClientValues) /\ EmptyMap \in Tables(RelayValues)
        /\ Consistent(EmptyMap) /\ \A i \in Slots : EmptyMap[i].entry_type # FILLED
    BY NoValuesIn, EmptyMapConsistent
  <2>2. Filled(EmptyMap) = {}
    BY <2>1 DEF Filled
  <2>3. QED
    BY <2>1, <2>2, TypedTables DEF Consistent
<1>2. <<>> \in Seq(Messages) /\ DOMAIN <<>> = {} /\ \A cmd : Mentions(<<>>, cmd) = {}
  BY NoMessages
<1>3. Range(<<>>) = {}
  BY <1>2, Zenon DEF Range
<1>4. \A k \in Conns : Bytes(k, 1, 0) = <<>>
  <2>1. ASSUME NEW k \in Conns, NEW zero \in Nat, NEW one \in Nat, zero = 0, one = zero + 1
        PROVE  Bytes(k, one, zero) = <<>>
    BY <2>1, NoMoreBytes
  <2>2. QED
    BY <2>1
<1>5. Filled(clientMap) = {} /\ Filled(relayMap) = {}
  BY <1>1 DEF Init
<1>6. TypeOK
  <2>1. /\ conns \in 0 .. MaxConns /\ hasty \in 0 .. MaxHasty
        /\ sent \in [Conns -> 0 .. MaxSent] /\ produced \in [Conns -> Nat]
    BY StreamsAssumption DEF Init
  <2>2. /\ inbox \in [Conns -> ByteSeqs] /\ served \in [Conns -> ByteSeqs] /\ got \in [Conns -> ByteSeqs]
    BY NoBytes DEF Init
  <2>3. server \in [Conns -> {"none", "open", "fin", "reset", "closed"}] /\ epoll \subseteq [sock : Conns, stream_id : Nat]
    BY DEF Init
  <2>4. /\ clientMap \in [Slots -> EntriesOf([conn : Conns, recv : ByteSeqs])]
        /\ relayMap \in [Slots -> EntriesOf(Conns)]
        /\ toRelay \in Seq(Messages) /\ toClient \in Seq(Messages)
    BY <1>1, <1>2 DEF Init
  <2>5. client \in {"running", "ended", "hung"} /\ stream_id \in Nat /\ relay \in {"serving", "ended"}
    BY DEF Init
  <2>6. QED
    BY <2>1, <2>2, <2>3, <2>4, <2>5 DEF TypeOK
<1>7. TablesOK
  <2>1. ClientTable /\ RelayTable /\ Waiting
    BY <1>1, <1>5 DEF Init, ClientTable, RelayTable, Waiting, HomeOnly
  <2>2. BeginsNew /\ Unused /\ Whole(toRelay) /\ Whole(toClient)
    BY <1>2, <1>3 DEF Init, BeginsNew, Unused, Whole
  <2>3. QED
    BY <2>1, <2>2 DEF TablesOK
<1>8. Agree
  BY <1>1, <1>2, <1>5 DEF Init, Agree, BeginFirst, BeginMeans, RelayKnows, ClientKnows,
                          SameConns, EndMeans, DataUpMeans, DataDownMeans
<1>9. Up
  <2>1. UpBytes /\ UpOrder
    BY <1>2 DEF Init, UpBytes, UpOrder
  <2>2. \A k \in Conns : served[k] = <<>> /\ Len(served[k]) = 0 /\ sent[k] = 0
    BY NoBytes DEF Init
  <2>3. UpServed /\ UpComplete
    BY <1>4, <2>2 DEF UpServed, UpComplete
  <2>4. QED
    BY <2>1, <2>3 DEF Up
<1>10. Down
  <2>1. DownBytes /\ DownOrder /\ DownHere
    BY <1>2, <1>5 DEF Init, DownBytes, DownOrder, DownHere
  <2>2. \A k \in Conns : inbox[k] = <<>> /\ produced[k] = 0 /\ Len(inbox[k]) = 0 /\ got[k] = <<>>
    BY NoBytes DEF Init
  <2>3. \A k \in Conns : Read(k) = 0
    BY <2>2 DEF Read
  <2>4. DownUnread
    BY <1>4, <2>2, <2>3 DEF DownUnread
  <2>5. DownGot
    BY <2>2, NoBytes DEF DownGot
  <2>6. QED
    BY <2>1, <2>4, <2>5 DEF Down
<1>11. QED
  BY <1>6, <1>7, <1>8, <1>9, <1>10 DEF StreamsInv

LEMMA StreamsInvNext ==
  ASSUME StreamsInv, [Next]_vars
  PROVE  StreamsInv'
<1>1. TypeOK' /\ TablesOK'
  BY TablesKept DEF StreamsInv
<1>2. ASSUME hasty' = 0
      PROVE  Agree' /\ Up' /\ Down'
  <2>1. hasty = 0 /\ (Connect => Quiet)
    BY <1>2, CalmBefore DEF StreamsInv
  <2>2. TypeOK /\ TablesOK /\ Agree /\ Up /\ Down
    BY <2>1 DEF StreamsInv
  <2>3. QED
    BY <2>1, <2>2, AgreeKept, UpKept, DownKept
<1>3. QED
  BY <1>1, <1>2 DEF StreamsInv

(* The inductive invariant of the streams: the two tables and the sockets, *)
(* and, as long as the user connects only when nothing is under way, which *)
(* streams are where and which bytes are where on both ways. *)
THEOREM StreamsInvariant == Spec => []StreamsInv
BY StreamsInvInit, StreamsInvNext, PTL DEF Spec

(* The types of the stream model's variables. *)
THEOREM StreamsTypes == Spec => []TypeOK
<1>1. StreamsInv => TypeOK
  BY DEF StreamsInv
<1>2. QED
  BY <1>1, StreamsInvariant, PTL

(* EventsHaveEntry: handle_event of the exit relay never fails to find the *)
(* stream of a socket it waits for, whatever the user does; without a      *)
(* hasty connect it finds that very socket. *)
THEOREM EventsHaveEntries == Spec => []EventsHaveEntry
<1>1. StreamsInv => EventsHaveEntry
  BY EventsHold DEF StreamsInv
<1>2. QED
  BY <1>1, StreamsInvariant, PTL

(* BytesReachTheirServer: what handle_relay_data has sent to a server is a *)
(* prefix of what the user sent on that connection. *)
THEOREM BytesArrive == Spec => []BytesReachTheirServer
<1>1. ASSUME StreamsInv PROVE BytesReachTheirServer
  <2> SUFFICES ASSUME hasty = 0, NEW k \in Conns
               PROVE  IsPrefixOf(served[k], Bytes(k, 1, sent[k]))
    BY DEF BytesReachTheirServer
  <2>1. PICK a \in Nat, b \in Nat : a = Len(served[k]) /\ b = sent[k] /\ a <= b
    <3>1. Len(served[k]) \in Nat /\ sent[k] \in Nat /\ Len(served[k]) <= sent[k]
      BY <1>1, UpTypes DEF StreamsInv, Up, UpServed
    <3>2. QED
      BY <3>1
  <2>2. served[k] = Bytes(k, 1, a)
    BY <1>1, <2>1 DEF StreamsInv, Up, UpServed
  <2>3. PICK one \in Nat \ {0} : one = 1
    OBVIOUS
  <2>4. a = one + a - 1 /\ b = one + b - 1
    BY <2>3
  <2>5. SubSeq(Bytes(k, one, b), 1, a) = Bytes(k, one, a)
    <3>1. \A last, size, mid \in Nat : mid = one + size - 1 /\ mid <= last =>
             SubSeq(Bytes(k, one, last), 1, size) = Bytes(k, one, mid)
      BY FirstBytes
    <3>2. QED
      BY <2>1, <2>4, <3>1, Zenon
  <2>6. Len(Bytes(k, one, b)) = b
    <3>1. \A n \in Nat : b = one + n - 1 => Len(Bytes(k, one, b)) = n
      BY BytesRun
    <3>2. QED
      BY <2>4, <3>1, Zenon
  <2>7. QED
    BY <2>1, <2>2, <2>3, <2>5, <2>6 DEF IsPrefixOf
<1>2. QED
  BY <1>1, StreamsInvariant, PTL

(* ReceivedInOrder: what the client holds or returned for a connection are *)
(* bytes of that connection, in order and none twice. *)
THEOREM BytesReturnInOrder == Spec => []ReceivedInOrder
<1>1. ASSUME StreamsInv PROVE ReceivedInOrder
  <2> SUFFICES ASSUME hasty = 0 PROVE ReceivedInOrder
    BY DEF ReceivedInOrder
  <2>1. TypeOK /\ TablesOK /\ DownGot /\ DownHere
    BY <1>1 DEF StreamsInv, Down
  <2>2. Consistent(clientMap)
    BY <2>1, TablesTyped, HomeOnlyConsistent DEF TablesOK, ClientTable
  <2>3. ASSUME NEW id \in Ids(clientMap)
        PROVE  LET entry == FoundValue(clientMap, id)
               IN  InOrder(entry.conn, got[entry.conn] \o entry.recv)
    <3>1. PICK i \in Filled(clientMap) : clientMap[i].stream_id = id
      BY DEF Ids, Filled
    <3>2. id \in Nat /\ i \in Slots /\ Holds(clientMap, i, id)
      BY <2>1, <3>1, TablesTyped DEF Tables, Filled, Holds
    <3>3. FoundValue(clientMap, id) = clientMap[i].value
      BY <2>2, <3>2, HeldIsFound
    <3>4. InOrder(clientMap[i].value.conn, Here(i))
      BY <2>1, <3>1 DEF DownHere
    <3>5. QED
      BY <3>3, <3>4 DEF Here
  <2>4. QED
    BY <2>1, <2>3 DEF ReceivedInOrder, DownGot
<1>2. QED
  BY <1>1, StreamsInvariant, PTL

(* TablesAgreeWhenQuiet: when nothing is under way, client and exit relay  *)
(* have the same streams, each for the same connection. *)
THEOREM TablesAgree == Spec => []TablesAgreeWhenQuiet
<1>1. StreamsInv => TablesAgreeWhenQuiet
  BY QuietTablesAgree DEF StreamsInv, TablesAgreeWhenQuiet
<1>2. QED
  BY <1>1, StreamsInvariant, PTL
=============================================================================
