--------------------------- MODULE Circuit_proofs ---------------------------
(***************************************************************************)
(* Proofs about Circuit, for every number of relays and whatever users,    *)
(* servers and crashes do: messages carry one layer of encryption for each *)
(* relay that is still to take one off, the client counts only relays that *)
(* have its key and forward, and no more pings are under way than the user *)
(* waits for.  At the end, proofs about Cipher: what those layers leave of *)
(* the bytes of a message.                                                 *)
(***************************************************************************)
EXTENDS Circuit, Cipher, SequenceTheorems, Cycles_proofs

(* The layers of a message on link i of a circuit of c relays. *)
Layers(c, i) == [k \in 1 .. c - i |-> i + k]

(* Layers are a sequence of keys, whatever the link.                       *)
LEMMA LayersType ==
  ASSUME NEW c \in 0 .. N, NEW i \in Nat
  PROVE  Layers(c, i) \in Seq(-N .. N)
<1>1. N \in Nat
  BY CircuitAssumption
<1>2. CASE c - i \in Nat
  <2>1. Layers(c, i) \in [1 .. c - i -> -N .. N]
    BY <1>1, <1>2 DEF Layers
  <2>2. PICK n \in Nat : n = c - i
    BY <1>2
  <2>3. QED
    BY <2>1, <2>2, SeqDef
<1>3. CASE c - i \notin Nat
  <2>1. 1 .. c - i = {}
    BY <1>1, <1>3
  <2>2. Layers(c, i) = <<>>
    BY <2>1 DEF Layers
  <2>3. QED
    BY <2>2
<1>4. QED
  BY <1>2, <1>3

(* The outermost layer of a message on its way to relay r is that relay's, *)
(* and the rest is what the message has behind it.                         *)
LEMMA OuterLayer ==
  ASSUME NEW c \in 0 .. N, NEW r \in 1 .. c
  PROVE  /\ Layers(c, r - 1) # <<>>
         /\ Head(Layers(c, r - 1)) = r
         /\ Tail(Layers(c, r - 1)) = Layers(c, r)
         /\ <<r>> \o Layers(c, r) = Layers(c, r - 1)
<1> DEFINE s == Layers(c, r - 1)
           t == Layers(c, r)
<1>1. N \in Nat /\ c \in Nat /\ r \in Nat /\ r - 1 \in Nat /\ c - (r - 1) \in Nat \ {0}
      /\ c - r \in Nat /\ (c - (r - 1)) - 1 = c - r
  BY CircuitAssumption
<1>2. s \in Seq(-N .. N) /\ t \in Seq(-N .. N)
  BY <1>1, LayersType
<1>3. /\ Len(s) = c - (r - 1) /\ DOMAIN s = 1 .. c - (r - 1)
      /\ \A k \in 1 .. c - (r - 1) : s[k] = (r - 1) + k
      /\ Len(t) = c - r /\ DOMAIN t = 1 .. c - r
      /\ \A k \in 1 .. c - r : t[k] = r + k
  <2>1. DOMAIN s = 1 .. c - (r - 1) /\ DOMAIN t = 1 .. c - r
    BY DEF Layers
  <2>2. Len(s) = c - (r - 1) /\ Len(t) = c - r
    <3>1. \A m, n \in Nat : 1 .. m = 1 .. n => m = n
      <4>1. \A m, n \in Nat : m \in 1 .. m => m <= n \/ m \notin 1 .. n
        OBVIOUS
      <4>2. QED
        OBVIOUS
    <3>2. /\ Len(s) \in Nat /\ 1 .. Len(s) = 1 .. c - (r - 1)
          /\ Len(t) \in Nat /\ 1 .. Len(t) = 1 .. c - r
      BY <1>2, <2>1, LenProperties
    <3>3. QED
      BY <1>1, <3>1, <3>2
  <2>3. QED
    BY <2>1, <2>2 DEF Layers
<1> HIDE DEF s, t
<1>4. s # <<>> /\ Head(s) = r
  <2>1. Len(s) # 0 /\ s[1] = r
    BY <1>1, <1>3
  <2>2. s # <<>>
    BY <2>1
  <2>3. QED
    BY <2>1, <2>2
<1>5. <<r>> \o t = s
  <2>1. PICK a \in Seq(-N .. N) : a = <<r>> /\ Len(a) = 1 /\ a[1] = r
    <3>1. r \in -N .. N
      BY <1>1
    <3>2. <<r>> \in Seq(-N .. N) /\ Len(<<r>>) = 1 /\ <<r>>[1] = r
      BY <3>1
    <3>3. QED
      BY <3>2
  <2>2. /\ a \o t \in Seq(-N .. N)
        /\ Len(a \o t) = Len(a) + Len(t)
        /\ \A k \in 1 .. Len(a) + Len(t) : (a \o t)[k] = IF k <= Len(a) THEN a[k] ELSE t[k - Len(a)]
    BY <1>2, ConcatProperties
  <2>3. Len(a) + Len(t) = Len(s) /\ Len(s) \in Nat
    BY <1>1, <1>3, <2>1
  <2>4. \A k \in 1 .. Len(s) : (a \o t)[k] = s[k]
    BY <1>1, <1>3, <2>1, <2>2, <2>3
  <2>5. QED
    BY <1>2, <2>1, <2>2, <2>3, <2>4, SeqEqual
<1>6. Tail(s) = t
  <2>1. Tail(s) \in Seq(-N .. N) /\ Len(Tail(s)) = Len(t)
        /\ \A k \in 1 .. Len(t) : Tail(s)[k] = s[k + 1]
    BY <1>1, <1>2, <1>3, <1>4, HeadTailProperties
  <2>2. \A k \in 1 .. Len(t) : Tail(s)[k] = t[k]
    BY <1>1, <1>3, <2>1
  <2>3. QED
    BY <1>2, <2>1, <2>2, SeqEqual
<1>7. QED
  BY <1>4, <1>5, <1>6 DEF s, t

(* Behind the last counted relay a message is bare.                        *)
LEMMA NoLayer ==
  ASSUME NEW c \in Int, NEW i \in Int, i >= c
  PROVE  Layers(c, i) = <<>>
<1>1. 1 .. c - i = {}
  OBVIOUS
<1>2. QED
  BY <1>1 DEF Layers

(* A message with other layers. *)
With(m, layers) == [m EXCEPT !.layers = layers]

(* Changing the layers changes nothing else.                               *)
LEMMA WithType ==
  ASSUME NEW m \in Messages, NEW c \in 0 .. N, NEW i \in Nat
  PROVE  /\ With(m, Layers(c, i)) \in Messages
         /\ With(m, Layers(c, i)).cmd = m.cmd /\ With(m, Layers(c, i)).relay = m.relay
         /\ With(m, Layers(c, i)).layers = Layers(c, i)
BY LayersType DEF With, Messages

(* Relay r's decryption of a message that reaches it takes its layer off.  *)
LEMMA Unwraps ==
  ASSUME NEW c \in 0 .. N, NEW r \in 1 .. c, NEW m \in Messages, m.layers = Layers(c, r - 1)
  PROVE  Decrypt(m, r) = With(m, Layers(c, r))
BY OuterLayer DEF Decrypt, With, Messages

(* Relay r's encryption of a message that it hands back puts its layer on. *)
LEMMA Wraps ==
  ASSUME NEW c \in 0 .. N, NEW r \in 1 .. c, NEW m \in Messages, m.layers = Layers(c, r)
  PROVE  Encrypt(m, r) = With(m, Layers(c, r - 1))
<1>1. ~(m.layers # <<>> /\ Head(m.layers) = -r)
  <2>1. CASE r = c
    BY <2>1, NoLayer, CircuitAssumption
  <2>2. CASE r # c
    <3>1. r + 1 \in 1 .. c /\ (r + 1) - 1 = r /\ r + 1 # -r
      BY <2>2, CircuitAssumption
    <3>2. Head(Layers(c, (r + 1) - 1)) = r + 1
      BY <3>1, OuterLayer
    <3>3. QED
      BY <3>1, <3>2
  <2>3. QED
    BY <2>1, <2>2
<1>2. <<r>> \o m.layers = Layers(c, r - 1)
  BY OuterLayer
<1>3. QED
  BY <1>1, <1>2 DEF Encrypt, With, Messages

(* The client's loop from its last key to its first puts one layer on for  *)
(* each relay, the guard's outermost.                                      *)
LEMMA ClientWraps ==
  ASSUME NEW c \in 0 .. N, NEW m \in Messages, m.layers = <<>>
  PROVE  ClientEncrypt(m, c) = With(m, Layers(c, 0))
<1> DEFINE F(f) == [i \in 0 .. c |-> IF i = 0 THEN m ELSE Encrypt(f[i - 1], c + 1 - i)]
           after == CHOOSE f : f = F(f)
           g == [i \in 0 .. c |-> With(m, Layers(c, c - i))]
<1>0. c \in Nat
  BY CircuitAssumption
<1>1. ClientEncrypt(m, c) = after[c]
  BY DEF ClientEncrypt
<1>2. With(m, Layers(c, c - 0)) = m
  BY <1>0, NoLayer DEF With, Messages
<1>3. ASSUME NEW i \in 1 .. c
      PROVE  Encrypt(With(m, Layers(c, c - (i - 1))), c + 1 - i) = With(m, Layers(c, c - i))
  <2>1. /\ c + 1 - i \in 1 .. c /\ c - (i - 1) = c + 1 - i /\ (c + 1 - i) - 1 = c - i
        /\ c + 1 - i \in Nat
    BY <1>0
  <2>2. PICK r \in 1 .. c : r = c + 1 - i
    BY <2>1
  <2>3. PICK x \in Messages : x = With(m, Layers(c, r)) /\ x.layers = Layers(c, r)
    BY <2>1, <2>2, WithType
  <2>4. Encrypt(x, r) = With(x, Layers(c, r - 1))
    BY <2>3, Wraps
  <2>5. With(x, Layers(c, r - 1)) = With(m, Layers(c, r - 1))
    BY <2>3 DEF With
  <2>6. QED
    BY <2>1, <2>2, <2>3, <2>4, <2>5
<1>4. \A i \in 0 .. c : g[i] = IF i = 0 THEN m ELSE Encrypt(g[i - 1], c + 1 - i)
  <2>1. ASSUME NEW i \in 1 .. c
        PROVE  g[i] = Encrypt(g[i - 1], c + 1 - i)
    <3>1. i \in 0 .. c /\ i - 1 \in 0 .. c
      BY <1>0
    <3>2. g[i] = With(m, Layers(c, c - i)) /\ g[i - 1] = With(m, Layers(c, c - (i - 1)))
      BY <3>1
    <3>3. QED
      BY <1>3, <3>2
  <2>2. \A i \in 0 .. c : i = 0 \/ i \in 1 .. c
    BY <1>0
  <2>3. g[0] = m
    BY <1>0, <1>2
  <2>4. QED
    BY <2>1, <2>2, <2>3
<1>5. after = F(after)
  <2>1. g = F(g)
    BY <1>4
  <2>2. \E f : f = F(f)
    BY <2>1
  <2>3. QED
    BY <2>2
<1> HIDE DEF after, g
<1> DEFINE G == {i \in Nat : after[i] = g[i]}
<1>6. 0 \in G
  BY <1>0, <1>4, <1>5
<1>7. \A i \in 0 .. c - 1 : i \in G => i + 1 \in G
  <2> SUFFICES ASSUME NEW i \in 0 .. c - 1, after[i] = g[i]
               PROVE  after[i + 1] = g[i + 1]
    BY <1>0
  <2>1. i + 1 \in 0 .. c /\ i + 1 # 0 /\ (i + 1) - 1 = i
    BY <1>0
  <2>2. after[i + 1] = Encrypt(after[i], c + 1 - (i + 1))
    BY <1>5, <2>1
  <2>3. g[i + 1] = Encrypt(g[i], c + 1 - (i + 1))
    BY <1>4, <2>1
  <2>4. QED
    BY <2>2, <2>3
<1> HIDE DEF G
<1>8. \A i \in 0 .. c : i \in G
  BY <1>0, <1>6, <1>7, UpTo
<1>9. after[c] = g[c]
  BY <1>0, <1>8 DEF G
<1>10. g[c] = With(m, Layers(c, 0))
  BY <1>0 DEF g
<1>11. QED
  BY <1>1, <1>9, <1>10

-----------------------------------------------------------------------------
(* The inductive invariant, as a predicate of a state of the circuit: the  *)
(* client at cl with c relays counted, the relays at rel, the guard's      *)
(* descriptor f, the messages dn and un.                                   *)
Ends == {"none", "open", "closed"}
Gone == {"failed", "destroyed", "exited"}
Channels == [Links -> Seq(Messages)]

StateTypes(cl, c, rel, f, dn, un) ==
    /\ cl \in ClientStates /\ c \in 0 .. N /\ f \in Ends
    /\ rel \in [Relays -> RelayStates]
    /\ dn \in Channels /\ un \in Channels

(* The messages a finished or extending circuit may have under way.        *)
Carried == {"RELAY", "PADDING", "DESTROY"}
DownCells(c, i) ==
    {m \in Messages : /\ m.cmd \in Carried /\ m.layers = Layers(c, i)
                      /\ IF c < N THEN m.cmd = "RELAY" /\ m.relay = "EXTEND"
                                  ELSE m.relay # "EXTEND"}
UpCells(c, i) == {m \in Messages : m.cmd \in Carried /\ m.layers = Layers(c, i)}

(* What may be on the link to a relay that is not counted yet.             *)
Opening == {<<>>, <<Key, Create>>, <<Create>>}
Answers == {<<>>, <<Key>>, <<Created>>}

(* The client's own place, and the descriptor of the guard.                *)
ClientOK(cl, c, rel, f) ==
    /\ cl \in {"connect", "tls", "create"} => c = 0
    /\ cl = "extend" => c \in 1 .. N - 1
    /\ cl = "ready" => c = N
    /\ f = "closed" => rel[1] \in Stopped
    /\ cl \in {"tls", "create"} => f # "none"

(* Relays before the last counted one forward; nothing has reached those   *)
(* behind the one that is being added.                                     *)
LastPlaces(c) == Stopped \cup (IF c < N THEN {"second", "exttls", "extending", "middle"}
                                        ELSE {"second", "exit"})
ChainOK(c, rel, dn, un) ==
    /\ \A r \in 1 .. c - 1 : rel[r] \in {"middle"} \cup Stopped
    /\ c > 0 => rel[c] \in LastPlaces(c)
    /\ \A r \in c + 2 .. N : rel[r] \in {"listening", "dead"}
    /\ \A i \in c + 1 .. N - 1 : dn[i] = <<>> /\ un[i] = <<>>

(* Who adds the next relay: the client adds the guard.                     *)
Adder(cl, c, rel) == IF c > 0 THEN rel[c]
                     ELSE CASE cl = "connect" -> "second"
                            [] cl = "tls" -> "exttls"
                            [] cl = "create" -> "extending"
                            [] OTHER -> "dead"

(* The new relay w, the one s that adds it, and the link between them.     *)
AddingOK(s, w, d, u) ==
    /\ w \in {"listening", "accepted", "tls", "create", "second"} \cup Stopped
    /\ d \in Opening /\ u \in Answers
    /\ w \in {"listening", "accepted"} => d = <<>> /\ u = <<>>
    /\ w = "tls" => d # <<Create>> /\ u # <<Created>> /\ (d # <<>> => u = <<>>)
    /\ w = "create" => d # <<Key, Create>> /\ u = <<>>
    /\ w = "second" => d = <<>>
    /\ u = <<Created>> => d = <<>> /\ w \in {"second"} \cup Stopped
    /\ s = "second" => w \in {"listening", "dead"} /\ d = <<>> /\ u = <<>>
    /\ s = "exttls" => d = <<>> /\ u # <<Created>> /\ w \in {"accepted", "tls"} \cup Stopped
    /\ s = "extending" => u # <<Key>> /\ w \in {"tls", "create", "second"} \cup Stopped
    /\ s = "middle" => d = <<>> /\ u = <<>> /\ w \in {"second"} \cup Stopped

(* The guard was counted at the end of its stream.                         *)
CutOff(c, rel, f, dn, un) ==
    c = 1 /\ rel[1] \in Stopped /\ f # "open" /\ un[0] = <<>> /\ dn[0] \in Opening

TrafficOK(c, dn, un) ==
    \A i \in 0 .. c - 1 : dn[i] \in Seq(DownCells(c, i)) /\ un[i] \in Seq(UpCells(c, i))

(* While the circuit grows there is one message in it: EXTEND on its way   *)
(* down, which the last relay waits for, or what comes back, and then the  *)
(* new relay is there.                                                     *)
OneMessage(c, rel, dn, un) ==
    /\ \A i \in 0 .. c - 1 :
          /\ dn[i] # <<>> => Tail(dn[i]) = <<>> /\ rel[c] \in {"second"} \cup Stopped
          /\ un[i] # <<>> => /\ Tail(un[i]) = <<>> /\ rel[c] \in {"middle"} \cup Stopped
                             /\ rel[c + 1] \in {"second"} \cup Stopped
                             /\ dn[c] = <<>> /\ un[c] = <<>>
    /\ \A i, j \in 0 .. c - 1 :
          /\ i # j => (dn[i] = <<>> \/ dn[j] = <<>>) /\ (un[i] = <<>> \/ un[j] = <<>>)
          /\ dn[i] = <<>> \/ un[j] = <<>>

CellsOK(c, rel, dn, un) ==
    TrafficOK(c, dn, un) /\ (c \in 1 .. N - 1 => OneMessage(c, rel, dn, un))

Sound(cl, c, rel, f, dn, un) ==
    /\ StateTypes(cl, c, rel, f, dn, un)
    /\ ClientOK(cl, c, rel, f)
    /\ ChainOK(c, rel, dn, un)
    /\ c < N => AddingOK(Adder(cl, c, rel), rel[c + 1], dn[c], un[c])
    /\ CutOff(c, rel, f, dn, un) \/ CellsOK(c, rel, dn, un)

CircuitInv ==
    /\ Sound(client, cur_relays, relay, far[0], down, up)
    /\ near \in [Links -> Ends] /\ far \in [Links -> Ends]

-----------------------------------------------------------------------------
(* The numbers of relays and links.                                        *)
LEMMA SmallFacts ==
  /\ N \in Nat /\ N >= 1 /\ 1 \in Relays /\ 0 \in Links
  /\ Relays \subseteq Nat /\ Links \subseteq Nat
BY CircuitAssumption DEF Relays, Links

(* A relay that stops where it is, or whose session ends, or the guard's   *)
(* descriptor that closes with it.                                         *)
LEMMA StopSound ==
  ASSUME NEW cl, NEW c, NEW rel, NEW f, NEW dn, NEW un, Sound(cl, c, rel, f, dn, un),
         NEW r \in Relays, NEW end \in Stopped, NEW g \in {f, Closed(f)},
         rel[r] \in {"listening", "dead"} => end = "dead",
         r # 1 => g = f
  PROVE  Sound(cl, c, [rel EXCEPT ![r] = end], g, dn, un)
<1> DEFINE new == [rel EXCEPT ![r] = end]
<1>0. StateTypes(cl, c, rel, f, dn, un) /\ c \in 0 .. N /\ rel \in [Relays -> RelayStates]
  BY DEF Sound, StateTypes
<1>1. /\ new \in [Relays -> RelayStates] /\ new[r] = end
      /\ \A q \in Relays : q # r => new[q] = rel[q]
      /\ \A q \in Relays : new[q] = rel[q] \/ new[q] \in Stopped
      /\ \A q \in Relays : rel[q] \in {"listening", "dead"} => new[q] = rel[q] \/ new[q] = "dead"
  BY <1>0 DEF RelayStates
<1> HIDE DEF new
<1>2. g \in Ends /\ (f # "none" => g # "none") /\ (f # "open" => g # "open")
      /\ (g = "closed" => f = "closed" \/ r = 1)
  BY <1>0 DEF StateTypes, Ends, Closed
<1>3. StateTypes(cl, c, new, g, dn, un)
  BY <1>0, <1>1, <1>2 DEF StateTypes
<1>4. ClientOK(cl, c, new, g)
  BY <1>1, <1>2, SmallFacts DEF Sound, ClientOK
<1>5. ChainOK(c, new, dn, un)
  <2>1. \A q \in 1 .. c - 1 : q \in Relays
    BY <1>0, SmallFacts DEF Relays
  <2>2. \A q \in c + 2 .. N : q \in Relays
    BY <1>0, SmallFacts DEF Relays
  <2>3. c > 0 => c \in Relays
    BY <1>0, SmallFacts DEF Relays
  <2>4. Stopped \subseteq LastPlaces(c)
    BY DEF LastPlaces
  <2>5. QED
    BY <1>1, <2>1, <2>2, <2>3, <2>4 DEF Sound, ChainOK
<1>6. ASSUME c < N
      PROVE  AddingOK(Adder(cl, c, new), new[c + 1], dn[c], un[c])
  <2>1. c + 1 \in Relays /\ (c > 0 => c \in Relays)
    BY <1>0, <1>6, SmallFacts DEF Relays
  <2>2. AddingOK(Adder(cl, c, rel), rel[c + 1], dn[c], un[c])
    BY <1>6 DEF Sound
  <2>3. Adder(cl, c, new) = Adder(cl, c, rel) \/ Adder(cl, c, new) \in Stopped
    BY <1>1, <2>1 DEF Adder
  <2>4. AddingOK(Adder(cl, c, new), rel[c + 1], dn[c], un[c])
    BY <2>2, <2>3 DEF AddingOK, Stopped
  <2>5. QED
    BY <1>1, <2>1, <2>4 DEF AddingOK, Stopped
<1>7. CutOff(c, rel, f, dn, un) => CutOff(c, new, g, dn, un)
  BY <1>1, <1>2, SmallFacts DEF CutOff
<1>8. CellsOK(c, rel, dn, un) => CellsOK(c, new, dn, un)
  <2>1. c \in 1 .. N - 1 => c \in Relays /\ c + 1 \in Relays
    BY <1>0, SmallFacts DEF Relays
  <2>2. QED
    BY <1>1, <2>1 DEF CellsOK, OneMessage
<1>9. QED
  BY <1>3, <1>4, <1>5, <1>6, <1>7, <1>8 DEF Sound, new

(* The client leaves.                                                      *)
LEMMA LeaveSound ==
  ASSUME NEW cl, NEW c, NEW rel, NEW f, NEW dn, NEW un, Sound(cl, c, rel, f, dn, un),
         NEW end \in Gone
  PROVE  Sound(end, c, rel, f, dn, un)
<1>1. StateTypes(end, c, rel, f, dn, un) /\ ClientOK(end, c, rel, f)
  BY DEF Sound, StateTypes, ClientOK, Gone, ClientStates
<1>2. ASSUME c < N
      PROVE  AddingOK(Adder(end, c, rel), rel[c + 1], dn[c], un[c])
  <2>1. AddingOK(Adder(cl, c, rel), rel[c + 1], dn[c], un[c])
    BY <1>2 DEF Sound
  <2>2. Adder(end, c, rel) = Adder(cl, c, rel) \/ Adder(end, c, rel) = "dead"
    BY DEF Adder, Gone
  <2>3. QED
    BY <2>1, <2>2 DEF AddingOK
<1>3. QED
  BY <1>1, <1>2 DEF Sound

(* Where a relay's thread is tells how far the circuit has got.            *)
LEMMA Places ==
  ASSUME NEW cl, NEW c, NEW rel, NEW f, NEW dn, NEW un, Sound(cl, c, rel, f, dn, un),
         NEW r \in Relays
  PROVE  /\ rel[r] \in {"accepted", "tls", "create"} => r = c + 1
         /\ rel[r] = "second" => r = c \/ r = c + 1
         /\ rel[r] \in {"exttls", "extending"} => r = c /\ c < N
         /\ rel[r] = "middle" => r <= c /\ r < N
         /\ rel[r] = "exit" => r = c /\ c = N
<1>1. c \in 0 .. N /\ ChainOK(c, rel, dn, un)
  BY DEF Sound, StateTypes
<1>2. r \in 1 .. c - 1 \/ (r = c /\ c > 0) \/ (r = c + 1 /\ c < N) \/ r \in c + 2 .. N
  BY <1>1, SmallFacts DEF Relays
<1>3. CASE r \in 1 .. c - 1
  BY <1>1, <1>3, SmallFacts DEF ChainOK, Stopped
<1>4. CASE r = c /\ c > 0
  BY <1>1, <1>4, SmallFacts DEF ChainOK, LastPlaces, Stopped
<1>5. CASE r = c + 1 /\ c < N
  BY <1>5 DEF Sound, AddingOK, Stopped
<1>6. CASE r \in c + 2 .. N
  BY <1>1, <1>6 DEF ChainOK
<1>7. QED
  BY <1>2, <1>3, <1>4, <1>5, <1>6

(* Nothing is on the links of the counted relays. *)
Empty(c, dn, un) == \A i \in 0 .. c - 1 : dn[i] = <<>> /\ un[i] = <<>>

(* A step of the relay that is being added or of the one that adds it.     *)
LEMMA AddSound ==
  ASSUME NEW cl, NEW c, NEW rel, NEW f, NEW dn, NEW un, Sound(cl, c, rel, f, dn, un), c < N,
         NEW cl2, NEW rel2, NEW f2, NEW dn2, NEW un2, StateTypes(cl2, c, rel2, f2, dn2, un2),
         \A q \in Relays \ {c, c + 1} : rel2[q] = rel[q],
         \A i \in Links \ {c} : dn2[i] = dn[i] /\ un2[i] = un[i],
         ClientOK(cl2, c, rel2, f2),
         c > 0 => rel2[c] \in LastPlaces(c),
         AddingOK(Adder(cl2, c, rel2), rel2[c + 1], dn2[c], un2[c]),
         CellsOK(c, rel, dn, un) \/ (rel2[c] = rel[c] /\ f2 = f),
         \/ c > 0 /\ rel2[c] = rel[c] /\ rel[c + 1] \notin {"second"} \cup Stopped
         \/ Empty(c, dn, un)
  PROVE  Sound(cl2, c, rel2, f2, dn2, un2)
<1>0. /\ c \in 0 .. N /\ N \in Nat /\ c \in Links /\ c + 1 \in Relays
      /\ \A i \in 0 .. c - 1 : i \in Links \ {c}
      /\ \A i \in c + 1 .. N - 1 : i \in Links \ {c}
      /\ \A r \in 1 .. c - 1 : r \in Relays \ {c, c + 1}
      /\ \A r \in c + 2 .. N : r \in Relays \ {c, c + 1}
  BY SmallFacts DEF StateTypes, Links, Relays
<1>1. ChainOK(c, rel2, dn2, un2)
  BY <1>0 DEF Sound, ChainOK
<1>2. CellsOK(c, rel, dn, un) => CellsOK(c, rel2, dn2, un2)
  <2> SUFFICES ASSUME CellsOK(c, rel, dn, un)
               PROVE  CellsOK(c, rel2, dn2, un2)
    OBVIOUS
  <2>1. TrafficOK(c, dn2, un2)
    BY <1>0 DEF CellsOK, TrafficOK
  <2>2. CASE Empty(c, dn, un)
    <3>1. \A i \in 0 .. c - 1 : dn2[i] = <<>> /\ un2[i] = <<>>
      BY <1>0, <2>2 DEF Empty
    <3>2. QED
      BY <2>1, <3>1 DEF CellsOK, OneMessage
  <2>3. CASE c > 0 /\ rel2[c] = rel[c] /\ rel[c + 1] \notin {"second"} \cup Stopped
    <3>1. OneMessage(c, rel, dn, un)
      BY <1>0, <2>3 DEF CellsOK
    <3>2. \A i \in 0 .. c - 1 : un[i] = <<>>
      BY <2>3, <3>1 DEF OneMessage
    <3>3. OneMessage(c, rel2, dn2, un2)
      BY <1>0, <2>3, <3>1, <3>2 DEF OneMessage
    <3>4. QED
      BY <2>1, <3>3 DEF CellsOK
  <2>4. QED
    BY <2>2, <2>3
<1>3. CutOff(c, rel, f, dn, un) /\ rel2[c] = rel[c] /\ f2 = f => CutOff(c, rel2, f2, dn2, un2)
  BY <1>0 DEF CutOff
<1>4. QED
  BY <1>1, <1>2, <1>3 DEF Sound

(* The next message is read from link i towards relay i + 1. *)
LEMMA TakeDown ==
  ASSUME NEW cl, NEW c, NEW rel, NEW f, NEW dn, NEW un, Sound(cl, c, rel, f, dn, un),
         NEW i \in 0 .. c - 1, dn[i] # <<>>, CellsOK(c, rel, dn, un)
  PROVE  /\ Sound(cl, c, rel, f, [dn EXCEPT ![i] = Tail(@)], un)
         /\ CellsOK(c, rel, [dn EXCEPT ![i] = Tail(@)], un)
         /\ Head(dn[i]) \in DownCells(c, i)
         /\ c < N => /\ Empty(c, [dn EXCEPT ![i] = Tail(@)], un)
                     /\ rel[c] \in {"second"} \cup Stopped
<1> DEFINE new == [dn EXCEPT ![i] = Tail(@)]
<1>0. /\ c \in 1 .. N /\ i \in Links /\ dn \in Channels /\ N \in Nat
      /\ \A j \in 0 .. c - 1 : j \in Links
      /\ dn[i] \in Seq(DownCells(c, i)) /\ dn[i] \in Seq(Messages)
  BY SmallFacts DEF Sound, StateTypes, CellsOK, TrafficOK, Links, Channels
<1>1. /\ Tail(dn[i]) \in Seq(DownCells(c, i)) /\ Tail(dn[i]) \in Seq(Messages)
      /\ Head(dn[i]) \in DownCells(c, i)
  BY <1>0
<1>2. new \in Channels /\ new[i] = Tail(dn[i]) /\ \A j \in Links : j # i => new[j] = dn[j]
  BY <1>0, <1>1 DEF Channels
<1> HIDE DEF new
<1>3. TrafficOK(c, new, un)
  BY <1>0, <1>1, <1>2 DEF CellsOK, TrafficOK
<1>4. c < N => OneMessage(c, rel, dn, un) /\ Empty(c, new, un) /\ rel[c] \in {"second"} \cup Stopped
  <2> SUFFICES ASSUME c < N
               PROVE  OneMessage(c, rel, dn, un) /\ Empty(c, new, un)
                      /\ rel[c] \in {"second"} \cup Stopped
    OBVIOUS
  <2>1. OneMessage(c, rel, dn, un)
    BY <1>0 DEF CellsOK
  <2>2. Tail(dn[i]) = <<>> /\ rel[c] \in {"second"} \cup Stopped
    BY <2>1 DEF OneMessage
  <2>3. \A j \in 0 .. c - 1 : (j # i => dn[j] = <<>>) /\ un[j] = <<>>
    BY <2>1 DEF OneMessage
  <2>4. \A j \in 0 .. c - 1 : new[j] = <<>> /\ un[j] = <<>>
    BY <1>0, <1>2, <2>2, <2>3
  <2>5. QED
    BY <2>1, <2>2, <2>4 DEF Empty
<1>5. CellsOK(c, rel, new, un)
  BY <1>0, <1>3, <1>4 DEF CellsOK, OneMessage, Empty
<1>6. ChainOK(c, rel, new, un)
  <2>1. \A j \in c + 1 .. N - 1 : j \in Links /\ j # i
    BY <1>0 DEF Links
  <2>2. QED
    BY <1>2, <2>1 DEF Sound, ChainOK
<1>7. c < N => new[c] = dn[c]
  BY <1>0, <1>2 DEF Links
<1>8. Sound(cl, c, rel, f, new, un)
  BY <1>2, <1>5, <1>6, <1>7 DEF Sound, StateTypes
<1>9. QED
  BY <1>1, <1>4, <1>5, <1>8 DEF new

(* The next message is read from link i by the client or relay i. *)
LEMMA TakeUp ==
  ASSUME NEW cl, NEW c, NEW rel, NEW f, NEW dn, NEW un, Sound(cl, c, rel, f, dn, un),
         NEW i \in 0 .. c - 1, un[i] # <<>>, CellsOK(c, rel, dn, un)
  PROVE  /\ Sound(cl, c, rel, f, dn, [un EXCEPT ![i] = Tail(@)])
         /\ CellsOK(c, rel, dn, [un EXCEPT ![i] = Tail(@)])
         /\ Head(un[i]) \in UpCells(c, i)
         /\ c < N => /\ Empty(c, dn, [un EXCEPT ![i] = Tail(@)])
                     /\ rel[c] \in {"middle"} \cup Stopped
                     /\ rel[c + 1] \in {"second"} \cup Stopped
                     /\ dn[c] = <<>> /\ un[c] = <<>>
<1> DEFINE new == [un EXCEPT ![i] = Tail(@)]
<1>0. /\ c \in 1 .. N /\ i \in Links /\ un \in Channels /\ N \in Nat
      /\ \A j \in 0 .. c - 1 : j \in Links
      /\ un[i] \in Seq(UpCells(c, i)) /\ un[i] \in Seq(Messages)
  BY SmallFacts DEF Sound, StateTypes, CellsOK, TrafficOK, Links, Channels
<1>1. /\ Tail(un[i]) \in Seq(UpCells(c, i)) /\ Tail(un[i]) \in Seq(Messages)
      /\ Head(un[i]) \in UpCells(c, i)
  BY <1>0
<1>2. new \in Channels /\ new[i] = Tail(un[i]) /\ \A j \in Links : j # i => new[j] = un[j]
  BY <1>0, <1>1 DEF Channels
<1> HIDE DEF new
<1>3. TrafficOK(c, dn, new)
  BY <1>0, <1>1, <1>2 DEF CellsOK, TrafficOK
<1>4. c < N => /\ OneMessage(c, rel, dn, un) /\ Empty(c, dn, new)
               /\ rel[c] \in {"middle"} \cup Stopped
               /\ rel[c + 1] \in {"second"} \cup Stopped
               /\ dn[c] = <<>> /\ un[c] = <<>>
  <2> SUFFICES ASSUME c < N
               PROVE  /\ OneMessage(c, rel, dn, un) /\ Empty(c, dn, new)
                      /\ rel[c] \in {"middle"} \cup Stopped
                      /\ rel[c + 1] \in {"second"} \cup Stopped
                      /\ dn[c] = <<>> /\ un[c] = <<>>
    OBVIOUS
  <2>1. OneMessage(c, rel, dn, un)
    BY <1>0 DEF CellsOK
  <2>2. /\ Tail(un[i]) = <<>> /\ rel[c] \in {"middle"} \cup Stopped
        /\ rel[c + 1] \in {"second"} \cup Stopped
        /\ dn[c] = <<>> /\ un[c] = <<>>
    BY <2>1 DEF OneMessage
  <2>3. \A j \in 0 .. c - 1 : (j # i => un[j] = <<>>) /\ dn[j] = <<>>
    BY <2>1 DEF OneMessage
  <2>4. \A j \in 0 .. c - 1 : new[j] = <<>> /\ dn[j] = <<>>
    BY <1>0, <1>2, <2>2, <2>3
  <2>5. QED
    BY <2>1, <2>2, <2>4 DEF Empty
<1>5. CellsOK(c, rel, dn, new)
  BY <1>0, <1>3, <1>4 DEF CellsOK, OneMessage, Empty
<1>6. ChainOK(c, rel, dn, new)
  <2>1. \A j \in c + 1 .. N - 1 : j \in Links /\ j # i
    BY <1>0 DEF Links
  <2>2. QED
    BY <1>2, <2>1 DEF Sound, ChainOK
<1>7. c < N => new[c] = un[c]
  BY <1>0, <1>2 DEF Links
<1>8. Sound(cl, c, rel, f, dn, new)
  BY <1>2, <1>5, <1>6, <1>7 DEF Sound, StateTypes
<1>9. QED
  BY <1>1, <1>4, <1>5, <1>8 DEF new

(* A message goes on link i towards relay i + 1. *)
LEMMA PutDown ==
  ASSUME NEW cl, NEW c, NEW rel, NEW f, NEW dn, NEW un, Sound(cl, c, rel, f, dn, un),
         CellsOK(c, rel, dn, un), NEW i \in 0 .. c - 1, NEW m \in DownCells(c, i),
         c < N => Empty(c, dn, un) /\ rel[c] \in {"second"} \cup Stopped
  PROVE  Sound(cl, c, rel, f, [dn EXCEPT ![i] = Append(@, m)], un)
<1> DEFINE new == [dn EXCEPT ![i] = Append(@, m)]
<1>0. /\ c \in 1 .. N /\ i \in Links /\ dn \in Channels /\ N \in Nat
      /\ \A j \in 0 .. c - 1 : j \in Links
      /\ dn[i] \in Seq(DownCells(c, i)) /\ dn[i] \in Seq(Messages) /\ m \in Messages
  BY SmallFacts DEF Sound, StateTypes, CellsOK, TrafficOK, Links, Channels, DownCells
<1>1. /\ Append(dn[i], m) \in Seq(DownCells(c, i)) /\ Append(dn[i], m) \in Seq(Messages)
      /\ dn[i] = <<>> => Tail(Append(dn[i], m)) = <<>>
  BY <1>0
<1>2. new \in Channels /\ new[i] = Append(dn[i], m) /\ \A j \in Links : j # i => new[j] = dn[j]
  BY <1>0, <1>1 DEF Channels
<1> HIDE DEF new
<1>3. TrafficOK(c, new, un)
  BY <1>0, <1>1, <1>2 DEF CellsOK, TrafficOK
<1>4. c < N => OneMessage(c, rel, new, un)
  BY <1>0, <1>1, <1>2 DEF OneMessage, Empty
<1>5. CellsOK(c, rel, new, un)
  BY <1>0, <1>3, <1>4 DEF CellsOK
<1>6. ChainOK(c, rel, new, un)
  <2>1. \A j \in c + 1 .. N - 1 : j \in Links /\ j # i
    BY <1>0 DEF Links
  <2>2. QED
    BY <1>2, <2>1 DEF Sound, ChainOK
<1>7. c < N => new[c] = dn[c]
  BY <1>0, <1>2 DEF Links
<1>8. QED
  BY <1>2, <1>5, <1>6, <1>7 DEF Sound, StateTypes, new

(* A message goes on link i towards the client. *)
LEMMA PutUp ==
  ASSUME NEW cl, NEW c, NEW rel, NEW f, NEW dn, NEW un, Sound(cl, c, rel, f, dn, un),
         CellsOK(c, rel, dn, un), NEW i \in 0 .. c - 1, NEW m \in UpCells(c, i),
         c < N => /\ Empty(c, dn, un) /\ rel[c] \in {"middle"} \cup Stopped
                  /\ rel[c + 1] \in {"second"} \cup Stopped
                  /\ dn[c] = <<>> /\ un[c] = <<>>
  PROVE  Sound(cl, c, rel, f, dn, [un EXCEPT ![i] = Append(@, m)])
<1> DEFINE new == [un EXCEPT ![i] = Append(@, m)]
<1>0. /\ c \in 1 .. N /\ i \in Links /\ un \in Channels /\ N \in Nat
      /\ \A j \in 0 .. c - 1 : j \in Links
      /\ un[i] \in Seq(UpCells(c, i)) /\ un[i] \in Seq(Messages) /\ m \in Messages
  BY SmallFacts DEF Sound, StateTypes, CellsOK, TrafficOK, Links, Channels, UpCells
<1>1. /\ Append(un[i], m) \in Seq(UpCells(c, i)) /\ Append(un[i], m) \in Seq(Messages)
      /\ un[i] = <<>> => Tail(Append(un[i], m)) = <<>>
  BY <1>0
<1>2. new \in Channels /\ new[i] = Append(un[i], m) /\ \A j \in Links : j # i => new[j] = un[j]
  BY <1>0, <1>1 DEF Channels
<1> HIDE DEF new
<1>3. TrafficOK(c, dn, new)
  BY <1>0, <1>1, <1>2 DEF CellsOK, TrafficOK
<1>7. c < N => new[c] = un[c]
  BY <1>0, <1>2 DEF Links
<1>4. c < N => OneMessage(c, rel, dn, new)
  BY <1>0, <1>1, <1>2, <1>7 DEF OneMessage, Empty
<1>5. CellsOK(c, rel, dn, new)
  BY <1>0, <1>3, <1>4 DEF CellsOK
<1>6. ChainOK(c, rel, dn, new)
  <2>1. \A j \in c + 1 .. N - 1 : j \in Links /\ j # i
    BY <1>0 DEF Links
  <2>2. QED
    BY <1>2, <2>1 DEF Sound, ChainOK
<1>8. QED
  BY <1>2, <1>5, <1>6, <1>7 DEF Sound, StateTypes, new

(* The last relay becomes the exit relay. *)
LEMMA ExitSound ==
  ASSUME NEW cl, NEW c, NEW rel, NEW f, NEW dn, NEW un, Sound(cl, c, rel, f, dn, un),
         c = N, rel[N] \in {"second", "exit"}
  PROVE  Sound(cl, c, [rel EXCEPT ![N] = "exit"], f, dn, un)
<1> DEFINE new == [rel EXCEPT ![N] = "exit"]
<1>1. /\ N \in Relays /\ N \in Nat
      /\ new \in [Relays -> RelayStates] /\ new[N] = "exit" /\ rel[N] \notin Stopped
      /\ \A q \in Relays : q # N => new[q] = rel[q]
  BY SmallFacts DEF Sound, StateTypes, RelayStates, Relays, Stopped
<1> HIDE DEF new
<1>2. /\ \A q \in 1 .. c - 1 : q \in Relays /\ q # N
      /\ \A q \in c + 2 .. N : q \in Relays /\ q # N
  BY <1>1 DEF Relays
<1>3. ClientOK(cl, c, new, f)
  BY <1>1, SmallFacts DEF Sound, ClientOK
<1>4. ChainOK(c, new, dn, un)
  BY <1>1, <1>2 DEF Sound, ChainOK, LastPlaces
<1>5. CellsOK(c, rel, dn, un) => CellsOK(c, new, dn, un)
  BY <1>1 DEF CellsOK
<1>6. ~CutOff(c, rel, f, dn, un)
  BY <1>1 DEF CutOff
<1>7. QED
  BY <1>1, <1>3, <1>4, <1>5, <1>6 DEF Sound, StateTypes, new

(* The client counts one relay more: it answered, or it is the guard and   *)
(* its end of the connection is closed.                                    *)
LEMMA CountSound ==
  ASSUME NEW cl, NEW c, NEW rel, NEW f, NEW dn, NEW un, Sound(cl, c, rel, f, dn, un), c < N,
         NEW cl2, cl2 = (IF c + 1 < N THEN "extend" ELSE "ready"),
         rel[c + 1] \in {"second"} \cup Stopped,
         c > 0 => rel[c] \in {"middle"} \cup Stopped,
         c > 0 => CellsOK(c, rel, dn, un) /\ Empty(c, dn, un),
         \/ dn[c] = <<>> /\ un[c] = <<>>
         \/ c = 0 /\ rel[1] \in Stopped /\ f # "open" /\ un[0] = <<>>
  PROVE  /\ Sound(cl2, c + 1, rel, f, dn, un)
         /\ dn[c] = <<>> => CellsOK(c + 1, rel, dn, un) /\ Empty(c + 1, dn, un)
<1>0. /\ c \in 0 .. N /\ N \in Nat /\ c \in Nat /\ c \in Links /\ c + 1 \in 1 .. N
      /\ rel \in [Relays -> RelayStates] /\ dn \in Channels /\ un \in Channels
      /\ dn[c] \in Opening
  BY SmallFacts DEF Sound, StateTypes, Links, AddingOK
<1>1. StateTypes(cl2, c + 1, rel, f, dn, un)
  BY <1>0 DEF Sound, StateTypes, ClientStates
<1>2. ClientOK(cl2, c + 1, rel, f)
  BY <1>0 DEF Sound, ClientOK
<1>3. ChainOK(c + 1, rel, dn, un)
  <2>1. \A r \in 1 .. (c + 1) - 1 : r \in 1 .. c - 1 \/ (r = c /\ c > 0)
    BY <1>0
  <2>2. \A r \in (c + 1) + 2 .. N : r \in c + 2 .. N
    BY <1>0
  <2>3. \A i \in (c + 1) + 1 .. N - 1 : i \in c + 1 .. N - 1
    BY <1>0
  <2>4. rel[c + 1] \in LastPlaces(c + 1)
    BY DEF LastPlaces
  <2>5. QED
    BY <2>1, <2>2, <2>3, <2>4 DEF Sound, ChainOK
<1>4. ASSUME c + 1 < N
      PROVE  AddingOK(Adder(cl2, c + 1, rel), rel[(c + 1) + 1], dn[c + 1], un[c + 1])
  <2>1. (c + 1) + 1 \in c + 2 .. N /\ c + 1 \in c + 1 .. N - 1 /\ c + 1 > 0
    BY <1>0, <1>4
  <2>2. rel[(c + 1) + 1] \in {"listening", "dead"} /\ dn[c + 1] = <<>> /\ un[c + 1] = <<>>
    BY <2>1 DEF Sound, ChainOK
  <2>3. Adder(cl2, c + 1, rel) \in {"second"} \cup Stopped
    BY <2>1 DEF Adder
  <2>4. QED
    BY <2>2, <2>3 DEF AddingOK, Opening, Answers, Stopped, Key, Created
<1>5. CASE dn[c] = <<>>
  <2>1. un[c] = <<>>
    BY <1>5, <1>0
  <2>2. \A i \in 0 .. (c + 1) - 1 : i \in 0 .. c - 1 \/ i = c
    BY <1>0
  <2>3. Empty(c + 1, dn, un)
    <3>1. c > 0 => Empty(c, dn, un)
      OBVIOUS
    <3>2. c = 0 => 0 .. c - 1 = {}
      BY <1>0
    <3>3. QED
      BY <1>0, <1>5, <2>1, <2>2, <3>1, <3>2 DEF Empty
  <2>4. TrafficOK(c + 1, dn, un)
    <3>1. \A S : <<>> \in Seq(S)
      OBVIOUS
    <3>2. QED
      BY <2>3, <3>1 DEF TrafficOK, Empty
  <2>5. OneMessage(c + 1, rel, dn, un)
    BY <2>3 DEF OneMessage, Empty
  <2>6. QED
    BY <1>1, <1>2, <1>3, <1>4, <2>3, <2>4, <2>5 DEF Sound, CellsOK
<1>6. CASE dn[c] # <<>>
  <2>1. CutOff(c + 1, rel, f, dn, un)
    BY <1>0, <1>6 DEF CutOff
  <2>2. QED
    BY <1>1, <1>2, <1>3, <1>4, <1>6, <2>1 DEF Sound
<1>7. QED
  BY <1>5, <1>6

-----------------------------------------------------------------------------
(* What a relay's step does to the descriptors. *)
LEMMA GoesEnds ==
  ASSUME CircuitInv, NEW r \in Relays, NEW pc, RelayGoes(r, pc)
  PROVE  /\ relay' = [relay EXCEPT ![r] = pc]
         /\ near' \in [Links -> Ends] /\ far' \in [Links -> Ends]
         /\ far'[0] \in {far[0], Closed(far[0])}
         /\ r # 1 \/ pc \notin {"freed", "dead"} => far'[0] = far[0]
<1>1. /\ near \in [Links -> Ends] /\ far \in [Links -> Ends] /\ r - 1 \in Links /\ 0 \in Links
      /\ r # 1 => r - 1 # 0
  BY SmallFacts DEF CircuitInv, Relays, Links
<1>2. \A e \in Ends : Closed(e) \in Ends
  BY DEF Closed, Ends
<1>3. near' \in [Links -> Ends]
  BY <1>1, <1>2 DEF RelayGoes, NearAfter
<1>4. far' \in [Links -> Ends] /\ far'[0] \in {far[0], Closed(far[0])}
      /\ (r # 1 \/ pc \notin {"freed", "dead"} => far'[0] = far[0])
  BY <1>1, <1>2 DEF RelayGoes, FarAfter
<1>5. QED
  BY <1>3, <1>4 DEF RelayGoes

(* A relay stays where it is or stops, whatever it did to the messages. *)
LEMMA StayOrStop ==
  ASSUME CircuitInv, NEW r \in Relays, NEW pc, RelayGoes(r, pc),
         client' = client, cur_relays' = cur_relays,
         Sound(client, cur_relays, relay, far[0], down', up'),
         pc = relay[r] \/ pc \in Stopped,
         relay[r] \in {"listening", "dead"} => pc = "dead"
  PROVE  CircuitInv'
<1>1. /\ relay' = [relay EXCEPT ![r] = pc]
      /\ near' \in [Links -> Ends] /\ far' \in [Links -> Ends]
      /\ far'[0] \in {far[0], Closed(far[0])}
      /\ r # 1 \/ pc \notin {"freed", "dead"} => far'[0] = far[0]
  BY GoesEnds
<1>2. Sound(client, cur_relays, relay', far'[0], down', up')
  <2>1. CASE pc \in Stopped
    <3>1. \A g \in {far[0], Closed(far[0])} :
             (r # 1 => g = far[0]) =>
                Sound(client, cur_relays, [relay EXCEPT ![r] = pc], g, down', up')
      BY <2>1, StopSound
    <3>2. QED
      BY <1>1, <3>1
  <2>2. CASE pc \notin Stopped
    <3>1. relay' = relay
      BY <1>1, <2>2 DEF CircuitInv, Sound, StateTypes
    <3>2. QED
      BY <1>1, <2>2, <3>1 DEF Stopped
  <2>3. QED
    BY <2>1, <2>2
<1>3. QED
  BY <1>1, <1>2 DEF CircuitInv

(* A relay goes on. *)
LEMMA GoOn ==
  ASSUME CircuitInv, NEW r \in Relays, NEW pc, RelayGoes(r, pc), pc \notin {"freed", "dead"},
         client' = client, cur_relays' = cur_relays,
         Sound(client, cur_relays, [relay EXCEPT ![r] = pc], far[0], down', up')
  PROVE  CircuitInv'
<1>1. /\ relay' = [relay EXCEPT ![r] = pc]
      /\ near' \in [Links -> Ends] /\ far' \in [Links -> Ends]
      /\ far'[0] = far[0]
  BY GoesEnds
<1>2. QED
  BY <1>1 DEF CircuitInv

-----------------------------------------------------------------------------
(* What the program sends are messages.                                    *)
LEMMA MessageTypes ==
  /\ {Key, Create, Created, Padding, Destroy} \subseteq Messages
  /\ \A command \in RelayCommands : Relayed(command) \in Messages
<1>1. <<>> \in Seq(-N .. N)
  OBVIOUS
<1>2. QED
  BY <1>1 DEF Messages, Key, Create, Created, Padding, Destroy, Relayed

(* Only a send to an open descriptor arrives. *)
LEMMA Outcome ==
  ASSUME NEW end, NEW outcome \in Outcomes(end)
  PROVE  /\ outcome \in {"sent", "lost", "error", "killed"}
         /\ outcome = "sent" => end = "open"
BY DEF Outcomes

(* A step of the relay that is being added. *)
LEMMA NewStep ==
  ASSUME NEW cl, NEW c, NEW rel, NEW f, NEW dn, NEW un, Sound(cl, c, rel, f, dn, un), c < N,
         rel[c + 1] \in {"accepted", "tls", "create"}, NEW w \in {"tls", "create", "second"},
         NEW d, NEW u, AddingOK(Adder(cl, c, rel), w, d, u)
  PROVE  Sound(cl, c, [rel EXCEPT ![c + 1] = w], f, [dn EXCEPT ![c] = d], [un EXCEPT ![c] = u])
<1> DEFINE rel2 == [rel EXCEPT ![c + 1] = w]
           dn2 == [dn EXCEPT ![c] = d]
           un2 == [un EXCEPT ![c] = u]
<1>1. /\ c \in 0 .. N /\ N \in Nat /\ c \in Links /\ c + 1 \in Relays /\ (c > 0 => c \in Relays)
      /\ rel \in [Relays -> RelayStates] /\ dn \in Channels /\ un \in Channels
      /\ rel[c + 1] \notin Stopped
  BY SmallFacts DEF Sound, StateTypes, Links, Relays, Stopped
<1>2. d \in Opening /\ u \in Answers
  BY DEF AddingOK
<1>3. d \in Seq(Messages) /\ u \in Seq(Messages)
  <2>1. \A x, y \in Messages : <<>> \in Seq(Messages) /\ <<x>> \in Seq(Messages)
                                /\ <<x, y>> \in Seq(Messages)
    OBVIOUS
  <2>2. QED
    BY <1>2, <2>1, MessageTypes DEF Opening, Answers
<1>4. /\ rel2 \in [Relays -> RelayStates] /\ rel2[c + 1] = w
      /\ \A q \in Relays : q # c + 1 => rel2[q] = rel[q]
      /\ c > 0 => rel2[c] = rel[c]
  BY <1>1 DEF RelayStates
<1>5. dn2 \in Channels /\ dn2[c] = d /\ \A i \in Links : i # c => dn2[i] = dn[i]
  BY <1>1, <1>3 DEF Channels
<1>6. un2 \in Channels /\ un2[c] = u /\ \A i \in Links : i # c => un2[i] = un[i]
  BY <1>1, <1>3 DEF Channels
<1> HIDE DEF rel2, dn2, un2
<1>7. StateTypes(cl, c, rel2, f, dn2, un2)
  BY <1>4, <1>5, <1>6 DEF Sound, StateTypes
<1>8. ClientOK(cl, c, rel2, f)
  <2>1. c + 1 = 1 => f # "closed"
    BY <1>1 DEF Sound, ClientOK
  <2>2. c + 1 # 1 => rel2[1] = rel[1]
    BY <1>4, SmallFacts
  <2>3. QED
    BY <2>1, <2>2 DEF Sound, ClientOK
<1>9. Adder(cl, c, rel2) = Adder(cl, c, rel)
  BY <1>4 DEF Adder
<1>10. c > 0 => rel2[c] \in LastPlaces(c)
  BY <1>4 DEF Sound, ChainOK
<1>11. c = 0 => CellsOK(c, rel, dn, un) /\ Empty(c, dn, un)
  BY SmallFacts DEF CellsOK, TrafficOK, Empty
<1>12. Sound(cl, c, rel2, f, dn2, un2)
  <2>1. CellsOK(c, rel, dn, un) \/ (rel2[c] = rel[c] /\ f = f)
    BY <1>1, <1>4, <1>11
  <2>2. \/ c > 0 /\ rel2[c] = rel[c] /\ rel[c + 1] \notin {"second"} \cup Stopped
        \/ Empty(c, dn, un)
    BY <1>1, <1>4, <1>11
  <2>3. AddingOK(Adder(cl, c, rel2), rel2[c + 1], dn2[c], un2[c])
    BY <1>4, <1>5, <1>6, <1>9
  <2>4. QED
    BY <1>4, <1>5, <1>6, <1>7, <1>8, <1>10, <2>1, <2>2, <2>3, AddSound
<1>13. QED
  BY <1>12 DEF rel2, dn2, un2

(* What is known of the relay that is being added. *)
LEMMA NewRelay ==
  ASSUME CircuitInv, NEW r \in Relays, relay[r] \in {"accepted", "tls", "create"}
  PROVE  /\ cur_relays < N /\ cur_relays \in Links /\ r = cur_relays + 1 /\ r - 1 = cur_relays
         /\ down \in Channels /\ up \in Channels /\ relay \in [Relays -> RelayStates]
         /\ AddingOK(Adder(client, cur_relays, relay), relay[r], down[r - 1], up[r - 1])
         /\ relay[r] \notin Stopped /\ relay[r] # "listening"
<1>1. Sound(client, cur_relays, relay, far[0], down, up)
  BY DEF CircuitInv
<1>2. r = cur_relays + 1
  BY <1>1, Places
<1>3. cur_relays \in 0 .. N /\ cur_relays < N /\ cur_relays \in Links /\ r - 1 = cur_relays
  BY <1>1, <1>2, SmallFacts DEF Sound, StateTypes, Relays, Links
<1>4. QED
  BY <1>1, <1>2, <1>3 DEF Sound, StateTypes, Stopped

(* handle_tls_recviever: the new relay sends its key, or leaves.           *)
LEMMA AcceptsKeeps ==
  ASSUME CircuitInv, NEW r \in Relays, RelayAccepts(r)
  PROVE  CircuitInv'
<1> DEFINE c == cur_relays
<1>1. Sound(client, c, relay, far[0], down, up)
  BY DEF CircuitInv
<1>2. relay[r] = "accepted" /\ client' = client /\ cur_relays' = cur_relays /\ down' = down
  BY DEF RelayAccepts
<1>3. /\ c < N /\ c \in Links /\ r = c + 1 /\ r - 1 = c
      /\ down \in Channels /\ up \in Channels /\ relay \in [Relays -> RelayStates]
      /\ AddingOK(Adder(client, c, relay), "accepted", down[c], up[c])
  BY <1>2, NewRelay
<1>4. down[c] = <<>> /\ up[c] = <<>>
  BY <1>3 DEF AddingOK
<1>5. PICK outcome \in Outcomes(near[r - 1]) :
         /\ up' = Sent(up, r - 1, outcome, Key)
         /\ RelayGoes(r, CASE outcome = "error" -> "freed"
                           [] outcome = "killed" -> "dead"
                           [] OTHER -> "tls")
  BY DEF RelayAccepts
<1>6. CASE outcome \in {"error", "killed"}
  <2>1. up' = up
    BY <1>5, <1>6 DEF Sent
  <2>2. PICK pc \in {"freed", "dead"} : RelayGoes(r, pc)
    BY <1>5, <1>6
  <2>3. QED
    BY <1>1, <1>2, <2>1, <2>2, StayOrStop DEF Stopped
<1>7. CASE outcome \notin {"error", "killed"}
  <2>1. RelayGoes(r, "tls")
    BY <1>5, <1>7
  <2>2. PICK u \in {<<>>, <<Key>>} : up' = [up EXCEPT ![c] = u]
    <3>1. Append(<<>>, Key) = <<Key>>
      OBVIOUS
    <3>2. CASE outcome = "sent"
      BY <1>3, <1>4, <1>5, <3>1, <3>2 DEF Sent
    <3>3. CASE outcome # "sent"
      BY <1>3, <1>4, <1>5, <3>3 DEF Sent, Channels
    <3>4. QED
      BY <3>2, <3>3
  <2>3. AddingOK(Adder(client, c, relay), "tls", <<>>, u)
    BY <1>3, <1>4, SMTT(30) DEF AddingOK, Opening, Answers, Key, Created, Create, Stopped
  <2>4. Sound(client, c, [relay EXCEPT ![c + 1] = "tls"], far[0], [down EXCEPT ![c] = <<>>],
              [up EXCEPT ![c] = u])
    BY <1>1, <1>2, <1>3, <2>3, NewStep
  <2>5. [down EXCEPT ![c] = <<>>] = down'
    BY <1>2, <1>3, <1>4 DEF Channels
  <2>6. QED
    BY <1>2, <1>3, <2>1, <2>2, <2>4, <2>5, GoOn
<1>8. QED
  BY <1>6, <1>7

(* The new relay reads the key of the one that adds it; CREATE is behind   *)
(* it.                                                                     *)
LEMMA TlsKeeps ==
  ASSUME CircuitInv, NEW r \in Relays, RelayTls(r)
  PROVE  CircuitInv'
<1> DEFINE c == cur_relays
<1>1. Sound(client, c, relay, far[0], down, up)
  BY DEF CircuitInv
<1>2. relay[r] = "tls" /\ client' = client /\ cur_relays' = cur_relays /\ up' = up
  BY DEF RelayTls
<1>3. /\ c < N /\ c \in Links /\ r = c + 1 /\ r - 1 = c
      /\ down \in Channels /\ up \in Channels /\ relay \in [Relays -> RelayStates]
      /\ AddingOK(Adder(client, c, relay), "tls", down[c], up[c])
  BY <1>2, NewRelay
<1>4. CASE down' = down /\ RelayGoes(r, "freed")
  BY <1>1, <1>2, <1>4, StayOrStop DEF Stopped
<1>5. CASE Readable(down, r - 1) /\ down' = Received(down, r - 1) /\ RelayGoes(r, "create")
  <2>1. down[c] = <<Key, Create>> /\ up[c] = <<>>
    BY <1>3, <1>5 DEF AddingOK, Opening, Readable
  <2>2. down' = [down EXCEPT ![c] = <<Create>>]
    <3>1. Tail(<<Key, Create>>) = <<Create>>
      OBVIOUS
    <3>2. QED
      BY <1>3, <1>5, <2>1, <3>1 DEF Received
  <2>3. AddingOK(Adder(client, c, relay), "create", <<Create>>, <<>>)
    BY <1>3, <2>1 DEF AddingOK, Opening, Answers, Key, Created, Create, Stopped
  <2>4. Sound(client, c, [relay EXCEPT ![c + 1] = "create"], far[0],
              [down EXCEPT ![c] = <<Create>>], [up EXCEPT ![c] = <<>>])
    BY <1>1, <1>2, <1>3, <2>3, NewStep
  <2>5. [up EXCEPT ![c] = <<>>] = up'
    BY <1>2, <1>3, <2>1 DEF Channels
  <2>6. QED
    BY <1>2, <1>3, <1>5, <2>2, <2>4, <2>5, GoOn
<1>6. QED
  BY <1>4, <1>5 DEF RelayTls

(* handle_create_message of the new relay: CREATED is the only answer      *)
(* under way.                                                              *)
LEMMA CreateKeeps ==
  ASSUME CircuitInv, NEW r \in Relays, RelayCreate(r)
  PROVE  CircuitInv'
<1> DEFINE c == cur_relays
           read == [down EXCEPT ![c] = <<>>]
<1>1. Sound(client, c, relay, far[0], down, up)
  BY DEF CircuitInv
<1>2. relay[r] = "create" /\ client' = client /\ cur_relays' = cur_relays
  BY DEF RelayCreate
<1>3. /\ c < N /\ c \in Links /\ r = c + 1 /\ r - 1 = c
      /\ down \in Channels /\ up \in Channels /\ relay \in [Relays -> RelayStates]
      /\ AddingOK(Adder(client, c, relay), "create", down[c], up[c])
  BY <1>2, NewRelay
<1>4. up[c] = <<>>
  BY <1>3 DEF AddingOK
<1>5. CASE down' = down /\ up' = up /\ RelayGoes(r, "abandoned")
  BY <1>1, <1>2, <1>5, StayOrStop DEF Stopped
<1>6. CASE Readable(down, r - 1) /\ down' = Received(down, r - 1)
  <2>1. down[c] = <<Create>>
    BY <1>3, <1>6 DEF AddingOK, Opening, Readable
  <2>2. down' = read
    <3>1. Tail(<<Create>>) = <<>>
      OBVIOUS
    <3>2. QED
      BY <1>3, <1>6, <2>1, <3>1 DEF Received
  <2>3. /\ AddingOK(Adder(client, c, relay), "create", <<>>, <<>>)
        /\ \A u \in {<<>>, <<Created>>} : AddingOK(Adder(client, c, relay), "second", <<>>, u)
    BY <1>3, <2>1 DEF AddingOK, Opening, Answers, Key, Created, Create, Stopped
  <2>4. /\ Sound(client, c, [relay EXCEPT ![c + 1] = "create"], far[0], read,
                 [up EXCEPT ![c] = <<>>])
        /\ \A u \in {<<>>, <<Created>>} :
              Sound(client, c, [relay EXCEPT ![c + 1] = "second"], far[0], read,
                    [up EXCEPT ![c] = u])
    BY <1>1, <1>2, <1>3, <2>3, NewStep
  <2>5. [up EXCEPT ![c] = <<>>] = up /\ [relay EXCEPT ![c + 1] = "create"] = relay
    BY <1>2, <1>3, <1>4 DEF Channels
  <2>6. CASE up' = up /\ \E pc \in {"abandoned", "dead"} : RelayGoes(r, pc)
    <3>1. Sound(client, c, relay, far[0], down', up')
      BY <2>2, <2>4, <2>5, <2>6
    <3>2. PICK pc \in {"abandoned", "dead"} : RelayGoes(r, pc)
      BY <2>6
    <3>3. QED
      BY <1>2, <3>1, <3>2, StayOrStop DEF Stopped
  <2>7. CASE up' \in {up, [up EXCEPT ![c] = <<Created>>]} /\ RelayGoes(r, "second")
    <3>1. Sound(client, c, [relay EXCEPT ![r] = "second"], far[0], down', up')
      BY <1>3, <2>2, <2>4, <2>5, <2>7
    <3>2. QED
      BY <1>2, <2>7, <3>1, GoOn
  <2>8. CASE Head(down[r - 1]).cmd = "CREATE"
    <3>1. PICK outcome \in Outcomes(near[r - 1]) :
             /\ up' = Sent(up, r - 1, outcome, Created)
             /\ RelayGoes(r, IF outcome = "killed" THEN "dead" ELSE "second")
      BY <1>2, <1>6, <2>1, <2>8 DEF RelayCreate, Readable, EndOfFile
    <3>2. Append(<<>>, Created) = <<Created>>
      OBVIOUS
    <3>3. up' \in {up, [up EXCEPT ![c] = <<Created>>]} /\ (outcome = "killed" => up' = up)
      BY <1>3, <1>4, <3>1, <3>2 DEF Sent
    <3>4. QED
      BY <2>6, <2>7, <3>1, <3>3
  <2>9. CASE Head(down[r - 1]).cmd # "CREATE"
    <3>1. up' = up /\ RelayGoes(r, "abandoned")
      BY <1>2, <1>6, <2>1, <2>9 DEF RelayCreate, Readable, EndOfFile
    <3>2. QED
      BY <2>6, <3>1
  <2>10. QED
    BY <2>8, <2>9
<1>7. QED
  BY <1>5, <1>6 DEF RelayCreate

-----------------------------------------------------------------------------
(* A step of the relay that adds the next one, with nothing else on its    *)
(* way through the circuit.                                                *)
LEMMA AdderStep ==
  ASSUME NEW cl, NEW c, NEW rel, NEW f, NEW dn, NEW un, Sound(cl, c, rel, f, dn, un),
         c \in Relays, c < N, CellsOK(c, rel, dn, un), Empty(c, dn, un), rel[c] \notin Stopped,
         NEW s \in {"exttls", "extending", "middle"}, NEW w, NEW d, NEW u, AddingOK(s, w, d, u)
  PROVE  Sound(cl, c, [[rel EXCEPT ![c] = s] EXCEPT ![c + 1] = w], f,
               [dn EXCEPT ![c] = d], [un EXCEPT ![c] = u])
<1> DEFINE rel2 == [[rel EXCEPT ![c] = s] EXCEPT ![c + 1] = w]
           dn2 == [dn EXCEPT ![c] = d]
           un2 == [un EXCEPT ![c] = u]
<1>1. /\ c \in 1 .. N /\ N \in Nat /\ c \in Links /\ c + 1 \in Relays /\ c > 0 /\ c # c + 1
      /\ rel \in [Relays -> RelayStates] /\ dn \in Channels /\ un \in Channels
  BY SmallFacts DEF Sound, StateTypes, Links, Relays
<1>2. d \in Opening /\ u \in Answers /\ w \in RelayStates /\ s \in RelayStates
  BY DEF AddingOK, RelayStates
<1>3. d \in Seq(Messages) /\ u \in Seq(Messages)
  <2>1. \A x, y \in Messages : <<>> \in Seq(Messages) /\ <<x>> \in Seq(Messages)
                                /\ <<x, y>> \in Seq(Messages)
    OBVIOUS
  <2>2. QED
    BY <1>2, <2>1, MessageTypes DEF Opening, Answers
<1>4. /\ rel2 \in [Relays -> RelayStates] /\ rel2[c + 1] = w /\ rel2[c] = s
      /\ \A q \in Relays : q \notin {c, c + 1} => rel2[q] = rel[q]
  BY <1>1, <1>2
<1>5. dn2 \in Channels /\ dn2[c] = d /\ \A i \in Links : i # c => dn2[i] = dn[i]
  BY <1>1, <1>3 DEF Channels
<1>6. un2 \in Channels /\ un2[c] = u /\ \A i \in Links : i # c => un2[i] = un[i]
  BY <1>1, <1>3 DEF Channels
<1> HIDE DEF rel2, dn2, un2
<1>7. StateTypes(cl, c, rel2, f, dn2, un2)
  BY <1>4, <1>5, <1>6 DEF Sound, StateTypes
<1>8. ClientOK(cl, c, rel2, f)
  <2>1. c = 1 => f # "closed"
    BY DEF Sound, ClientOK
  <2>2. c # 1 => rel2[1] = rel[1]
    BY <1>1, <1>4, SmallFacts
  <2>3. QED
    BY <2>1, <2>2 DEF Sound, ClientOK
<1>9. Adder(cl, c, rel2) = s
  BY <1>1, <1>4 DEF Adder
<1>10. rel2[c] \in LastPlaces(c)
  BY <1>4 DEF LastPlaces
<1>11. AddingOK(Adder(cl, c, rel2), rel2[c + 1], dn2[c], un2[c])
  BY <1>4, <1>5, <1>6, <1>9
<1>12. Sound(cl, c, rel2, f, dn2, un2)
  BY <1>4, <1>5, <1>6, <1>7, <1>8, <1>10, <1>11, AddSound
<1>13. QED
  BY <1>12 DEF rel2, dn2, un2

(* What is known while the last counted relay adds the next one. *)
LEMMA AddingRelay ==
  ASSUME CircuitInv, NEW r \in Relays, relay[r] \in {"exttls", "extending"}
  PROVE  /\ r = cur_relays /\ r < N /\ r \in Links /\ r + 1 \in Relays /\ r - 1 \in 0 .. r - 1
         /\ r - 1 \in Links /\ r # 0
         /\ down \in Channels /\ up \in Channels /\ relay \in [Relays -> RelayStates]
         /\ AddingOK(relay[r], relay[r + 1], down[r], up[r])
         /\ CellsOK(r, relay, down, up) /\ Empty(r, down, up)
         /\ relay[r] \notin Stopped /\ relay[r] # "listening"
<1>1. Sound(client, cur_relays, relay, far[0], down, up)
  BY DEF CircuitInv
<1>2. r = cur_relays /\ r < N
  BY <1>1, Places
<1>3. r \in Links /\ r + 1 \in Relays /\ r > 0 /\ r \in 1 .. N - 1 /\ r - 1 \in 0 .. r - 1
      /\ r - 1 \in Links
  BY <1>2, SmallFacts DEF Relays, Links
<1>4. relay[r] \notin Stopped
  BY DEF Stopped
<1>5. CellsOK(r, relay, down, up)
  BY <1>1, <1>2, <1>4 DEF Sound, CutOff
<1>6. Empty(r, down, up)
  BY <1>3, <1>5 DEF CellsOK, OneMessage, Empty, Stopped
<1>7. Adder(client, r, relay) = relay[r]
  BY <1>3 DEF Adder
<1>8. QED
  BY <1>1, <1>2, <1>3, <1>4, <1>5, <1>6, <1>7 DEF Sound, StateTypes

(* Whoever adds a relay sends its key and CREATE, or neither arrives. *)
LEMMA SendsOpening ==
  ASSUME NEW dn \in Channels, NEW i \in Links, dn[i] = <<>>, NEW outcome
  PROVE  \E d \in {<<>>, <<Key, Create>>} :
            /\ Sent(Sent(dn, i, outcome, Key), i, outcome, Create) = [dn EXCEPT ![i] = d]
            /\ outcome # "sent" => d = <<>>
<1>1. Append(Append(<<>>, Key), Create) = <<Key, Create>>
  <2>1. PICK a \in Seq(Messages) : a = <<Key>> /\ Len(a) = 1 /\ a[1] = Key /\ a = Append(<<>>, Key)
    <3>1. /\ <<Key>> \in Seq(Messages) /\ Len(<<Key>>) = 1 /\ <<Key>>[1] = Key
          /\ Append(<<>>, Key) = <<Key>>
      BY MessageTypes
    <3>2. QED
      BY <3>1
  <2>2. PICK b \in Seq(Messages) : b = <<Key, Create>> /\ Len(b) = 2 /\ b[1] = Key /\ b[2] = Create
    <3>1. /\ <<Key, Create>> \in Seq(Messages) /\ Len(<<Key, Create>>) = 2
          /\ <<Key, Create>>[1] = Key /\ <<Key, Create>>[2] = Create
      BY MessageTypes
    <3>2. QED
      BY <3>1
  <2>3. /\ Append(a, Create) \in Seq(Messages) /\ Len(Append(a, Create)) = 2
        /\ Append(a, Create)[1] = Key /\ Append(a, Create)[2] = Create
    BY <2>1, MessageTypes, AppendProperties
  <2>4. \A k \in 1 .. 2 : k = 1 \/ k = 2
    OBVIOUS
  <2>5. Append(a, Create) = b
    BY <2>2, <2>3, <2>4, SeqEqual
  <2>6. QED
    BY <2>1, <2>2, <2>5
<1>2. CASE outcome = "sent"
  <2>1. Sent(Sent(dn, i, outcome, Key), i, outcome, Create)
           = [dn EXCEPT ![i] = Append(Append(@, Key), Create)]
    BY <1>2 DEF Sent, Channels
  <2>2. QED
    BY <1>1, <1>2, <2>1
<1>3. CASE outcome # "sent"
  BY <1>3 DEF Sent, Channels
<1>4. QED
  BY <1>2, <1>3

(* extend_relay, the key exchange: the next relay has sent its key.        *)
LEMMA ExtendTlsKeeps ==
  ASSUME CircuitInv, NEW r \in Relays, RelayExtendTls(r)
  PROVE  CircuitInv'
<1>1. Sound(client, r, relay, far[0], down, up)
  BY AddingRelay DEF CircuitInv, RelayExtendTls
<1>2. relay[r] = "exttls" /\ client' = client /\ cur_relays' = cur_relays
  BY DEF RelayExtendTls
<1>3. /\ r = cur_relays /\ r < N /\ r \in Links /\ r + 1 \in Relays
      /\ down \in Channels /\ up \in Channels /\ relay \in [Relays -> RelayStates]
      /\ AddingOK("exttls", relay[r + 1], down[r], up[r])
      /\ CellsOK(r, relay, down, up) /\ Empty(r, down, up) /\ relay[r] \notin Stopped
      /\ r # r + 1
  BY <1>2, AddingRelay, SmallFacts
<1>4. CASE /\ relay' = [relay EXCEPT ![r] = "abandoned"]
           /\ near' = [near EXCEPT ![r] = "closed"]
           /\ UNCHANGED <<up, down, far>>
  <2>1. Sound(client, cur_relays, relay', far[0], down, up)
    BY <1>1, <1>2, <1>3, <1>4, StopSound DEF Stopped
  <2>2. near' \in [Links -> Ends]
    BY <1>4 DEF CircuitInv, Ends
  <2>3. QED
    BY <1>2, <1>4, <2>1, <2>2 DEF CircuitInv
<1>5. CASE /\ Readable(up, r)
           /\ up' = Received(up, r)
           /\ \E outcome \in Outcomes(far[r]) :
                 /\ down' = Sent(Sent(down, r, outcome, Key), r, outcome, Create)
                 /\ RelayGoes(r, After(outcome, "extending"))
  <2>1. up[r] = <<Key>> /\ down[r] = <<>> /\ relay[r + 1] \in {"tls"} \cup Stopped
    BY <1>3, <1>5 DEF AddingOK, Answers, Readable
  <2>2. up' = [up EXCEPT ![r] = <<>>]
    <3>1. Tail(<<Key>>) = <<>>
      OBVIOUS
    <3>2. QED
      BY <1>3, <1>5, <2>1, <3>1 DEF Received
  <2>3. PICK outcome \in Outcomes(far[r]) :
           /\ down' = Sent(Sent(down, r, outcome, Key), r, outcome, Create)
           /\ RelayGoes(r, After(outcome, "extending"))
    BY <1>5
  <2>4. PICK d \in {<<>>, <<Key, Create>>} :
           down' = [down EXCEPT ![r] = d] /\ (outcome # "sent" => d = <<>>)
    BY <1>3, <2>1, <2>3, SendsOpening
  <2>5. /\ AddingOK("exttls", relay[r + 1], <<>>, <<>>)
        /\ AddingOK("extending", relay[r + 1], d, <<>>)
    BY <1>3, <2>1 DEF AddingOK, Opening, Answers, Key, Created, Create, Stopped
  <2>6. CASE outcome \in {"error", "killed"}
    <3>1. [[relay EXCEPT ![r] = "exttls"] EXCEPT ![r + 1] = relay[r + 1]] = relay
      BY <1>2, <1>3
    <3>2. Sound(client, r, relay, far[0], [down EXCEPT ![r] = <<>>], [up EXCEPT ![r] = <<>>])
      BY <1>1, <1>2, <1>3, <2>5, <3>1, AdderStep
    <3>3. Sound(client, cur_relays, relay, far[0], down', up')
      BY <1>3, <2>2, <2>4, <2>6, <3>2
    <3>4. PICK pc \in {"abandoned", "dead"} : RelayGoes(r, pc)
      BY <2>3, <2>6 DEF After
    <3>5. QED
      BY <1>2, <3>3, <3>4, StayOrStop DEF Stopped
  <2>7. CASE outcome \notin {"error", "killed"}
    <3>1. [[relay EXCEPT ![r] = "extending"] EXCEPT ![r + 1] = relay[r + 1]]
             = [relay EXCEPT ![r] = "extending"]
      BY <1>3
    <3>2. Sound(client, r, [relay EXCEPT ![r] = "extending"], far[0],
                [down EXCEPT ![r] = d], [up EXCEPT ![r] = <<>>])
      <4>1. r < N /\ CellsOK(r, relay, down, up) /\ Empty(r, down, up) /\ relay[r] \notin Stopped
            /\ AddingOK("extending", relay[r + 1], d, <<>>)
        BY <1>3, <2>5
      <4>2. Sound(client, r, [[relay EXCEPT ![r] = "extending"] EXCEPT ![r + 1] = relay[r + 1]],
                  far[0], [down EXCEPT ![r] = d], [up EXCEPT ![r] = <<>>])
        BY ONLY <1>1, <4>1, r \in Relays, AdderStep
      <4>3. QED
        BY <3>1, <4>2
    <3>3. RelayGoes(r, "extending")
      BY <2>3, <2>7 DEF After
    <3>4. QED
      BY <1>2, <1>3, <2>2, <2>4, <3>2, <3>3, GoOn
  <2>8. QED
    BY <2>6, <2>7
<1>6. QED
  BY <1>4, <1>5 DEF RelayExtendTls

(* extend_relay, CREATED: one EXTENDED starts its way to the client, bare  *)
(* but for the layer of the relay that sends it.                           *)
LEMMA ExtendedKeeps ==
  ASSUME CircuitInv, NEW r \in Relays, RelayExtended(r)
  PROVE  CircuitInv'
<1> DEFINE read == [up EXCEPT ![r] = <<>>]
           went == [relay EXCEPT ![r] = "middle"]
           answer == Encrypt(Relayed("EXTENDED"), r)
<1>1. Sound(client, r, relay, far[0], down, up)
  BY AddingRelay DEF CircuitInv, RelayExtended
<1>2. relay[r] = "extending" /\ client' = client /\ cur_relays' = cur_relays /\ down' = down
  BY DEF RelayExtended
<1>3. /\ r = cur_relays /\ r < N /\ r \in Links /\ r + 1 \in Relays /\ r - 1 \in 0 .. r - 1
      /\ r - 1 \in Links /\ r - 1 # r /\ r # r + 1
      /\ down \in Channels /\ up \in Channels /\ relay \in [Relays -> RelayStates]
      /\ AddingOK("extending", relay[r + 1], down[r], up[r])
      /\ CellsOK(r, relay, down, up) /\ Empty(r, down, up) /\ relay[r] \notin Stopped
  BY <1>2, AddingRelay, SmallFacts
<1>4. CASE up' = up /\ RelayGoes(r, "abandoned")
  BY <1>1, <1>2, <1>3, <1>4, StayOrStop DEF Stopped
<1>5. CASE Readable(up, r)
  <2>1. up[r] = <<Created>> /\ down[r] = <<>> /\ relay[r + 1] \in {"second"} \cup Stopped
    BY <1>3, <1>5 DEF AddingOK, Answers, Readable
  <2>2. Received(up, r) = read
    <3>1. Tail(<<Created>>) = <<>>
      OBVIOUS
    <3>2. QED
      BY <1>3, <2>1, <3>1 DEF Received
  <2>3. /\ AddingOK("extending", relay[r + 1], <<>>, <<>>)
        /\ AddingOK("middle", relay[r + 1], <<>>, <<>>)
    BY <1>3, <2>1 DEF AddingOK, Opening, Answers, Key, Created, Create, Stopped
  <2>4. /\ [[relay EXCEPT ![r] = "extending"] EXCEPT ![r + 1] = relay[r + 1]] = relay
        /\ [[relay EXCEPT ![r] = "middle"] EXCEPT ![r + 1] = relay[r + 1]] = went
        /\ [down EXCEPT ![r] = <<>>] = down
    BY <1>2, <1>3, <2>1 DEF Channels
  <2>5. /\ Sound(client, r, relay, far[0], down, read)
        /\ Sound(client, r, went, far[0], down, read)
    <3>1. r < N /\ CellsOK(r, relay, down, up) /\ Empty(r, down, up) /\ relay[r] \notin Stopped
      BY <1>3
    <3>2. Sound(client, r, [[relay EXCEPT ![r] = "extending"] EXCEPT ![r + 1] = relay[r + 1]],
                far[0], [down EXCEPT ![r] = <<>>], [up EXCEPT ![r] = <<>>])
      BY ONLY <1>1, <2>3, <3>1, r \in Relays, AdderStep
    <3>3. Sound(client, r, [[relay EXCEPT ![r] = "middle"] EXCEPT ![r + 1] = relay[r + 1]],
                far[0], [down EXCEPT ![r] = <<>>], [up EXCEPT ![r] = <<>>])
      BY ONLY <1>1, <2>3, <3>1, r \in Relays, AdderStep
    <3>4. QED
      BY <2>4, <3>2, <3>3
  <2>6. Head(up[r]).cmd = "CREATED"
    BY <2>1 DEF Created
  <2>7. PICK outcome \in Outcomes(near[r - 1]) :
           /\ up' = Sent(read, r - 1, outcome, answer)
           /\ RelayGoes(r, After(outcome, "middle"))
    BY <1>2, <1>5, <2>2, <2>6 DEF RelayExtended, Readable, EndOfFile
  <2>8. CASE outcome \in {"error", "killed"}
    <3>1. up' = read
      BY <2>7, <2>8 DEF Sent
    <3>2. PICK pc \in {"abandoned", "dead"} : RelayGoes(r, pc)
      BY <2>7, <2>8 DEF After
    <3>3. QED
      BY <1>2, <1>3, <2>5, <3>1, <3>2, StayOrStop DEF Stopped
  <2>9. CASE outcome \notin {"error", "killed"}
    <3>1. RelayGoes(r, "middle")
      BY <2>7, <2>9 DEF After
    <3>2. /\ went[r] = "middle" /\ went[r + 1] = relay[r + 1] /\ read[r] = <<>>
          /\ \A i \in 0 .. r - 1 : read[i] = up[i]
      <4>1. \A i \in 0 .. r - 1 : i \in Links /\ i # r
        BY <1>3, SmallFacts DEF Links
      <4>2. QED
        BY <1>3, <4>1 DEF Channels
    <3>3. Empty(r, down, read)
      BY <1>3, <3>2 DEF Empty
    <3>4. CellsOK(r, went, down, read)
      <4>1. TrafficOK(r, down, read)
        BY <1>3, <3>2 DEF CellsOK, TrafficOK
      <4>2. OneMessage(r, went, down, read)
        BY <3>3 DEF Empty, OneMessage
      <4>3. QED
        BY <4>1, <4>2 DEF CellsOK
    <3>5. answer \in UpCells(r, r - 1)
      <4>1. PICK m \in Messages : m = Relayed("EXTENDED") /\ m.layers = <<>> /\ m.cmd = "RELAY"
        BY MessageTypes DEF RelayCommands, Relayed
      <4>2. r \in 0 .. N /\ r \in 1 .. r /\ r \in Int /\ r - 1 \in Nat
        BY <1>3, SmallFacts DEF Links
      <4>3. m.layers = Layers(r, r)
        BY <4>1, <4>2, NoLayer
      <4>4. Encrypt(m, r) = With(m, Layers(r, r - 1))
        BY <4>2, <4>3, Wraps
      <4>5. QED
        BY <4>1, <4>2, <4>4, WithType DEF UpCells, Carried
    <3>6. Sound(client, r, went, far[0], down, [read EXCEPT ![r - 1] = Append(@, answer)])
      <4>1. PICK i \in 0 .. r - 1 : i = r - 1
        BY <1>3
      <4>2. PICK x \in UpCells(r, i) : x = answer
        BY <3>5, <4>1
      <4>3. /\ went[r] \in {"middle"} \cup Stopped /\ went[r + 1] \in {"second"} \cup Stopped
            /\ down[r] = <<>> /\ read[r] = <<>>
        BY <2>1, <3>2
      <4>4. PICK rel, u : rel = went /\ u = read
        OBVIOUS
      <4>5. Sound(client, r, rel, far[0], down, [u EXCEPT ![i] = Append(@, x)])
        BY ONLY <2>5, <3>3, <3>4, <4>3, <4>4, PutUp
      <4>6. QED
        BY <4>1, <4>2, <4>4, <4>5
    <3>7. Sound(client, cur_relays, went, far[0], down', up')
      BY <1>2, <1>3, <2>5, <2>7, <3>6 DEF Sent
    <3>8. QED
      BY <1>2, <3>1, <3>7, GoOn
  <2>10. QED
    BY <2>8, <2>9
<1>6. QED
  BY <1>4, <1>5 DEF RelayExtended

-----------------------------------------------------------------------------
(* What a counted relay reads from the side of the client, decrypted. *)
LEMMA CountedReads ==
  ASSUME CircuitInv, NEW r \in Relays, r <= cur_relays, relay[r] \notin Stopped,
         Readable(down, r - 1), NEW read, read = Received(down, r - 1)
  PROVE  /\ Sound(client, cur_relays, relay, far[0], read, up)
         /\ CellsOK(cur_relays, relay, read, up)
         /\ Decrypt(Head(down[r - 1]), r) \in DownCells(cur_relays, r)
         /\ cur_relays < N => /\ Empty(cur_relays, read, up)
                              /\ relay[cur_relays] \in {"second"} \cup Stopped
<1> DEFINE c == cur_relays
<1>1. Sound(client, c, relay, far[0], down, up) /\ c \in 0 .. N
  BY DEF CircuitInv, Sound, StateTypes
<1>2. r \in 1 .. c /\ r - 1 \in 0 .. c - 1 /\ r \in Nat
  BY <1>1, SmallFacts DEF Relays
<1>3. CellsOK(c, relay, down, up)
  BY <1>1, <1>2 DEF Sound, CutOff
<1>4. down[r - 1] # <<>> /\ read = [down EXCEPT ![r - 1] = Tail(@)]
  BY DEF Readable, Received
<1>5. /\ Sound(client, c, relay, far[0], read, up)
      /\ CellsOK(c, relay, read, up)
      /\ Head(down[r - 1]) \in DownCells(c, r - 1)
      /\ c < N => Empty(c, read, up) /\ relay[c] \in {"second"} \cup Stopped
  <2>1. /\ Sound(client, c, relay, far[0], [down EXCEPT ![r - 1] = Tail(@)], up)
        /\ CellsOK(c, relay, [down EXCEPT ![r - 1] = Tail(@)], up)
        /\ Head(down[r - 1]) \in DownCells(c, r - 1)
        /\ c < N => /\ Empty(c, [down EXCEPT ![r - 1] = Tail(@)], up)
                    /\ relay[c] \in {"second"} \cup Stopped
    <3>1. PICK i \in 0 .. c - 1 : i = r - 1
      BY <1>2
    <3>2. down[i] # <<>>
      BY <1>4, <3>1
    <3>3. QED
      BY <1>1, <1>3, <3>1, <3>2, TakeDown, ZenonT(30)
  <2>2. QED
    BY <1>4, <2>1
<1>6. Decrypt(Head(down[r - 1]), r) \in DownCells(c, r)
  <2>1. PICK m \in Messages : m = Head(down[r - 1]) /\ m.layers = Layers(c, r - 1)
                              /\ m \in DownCells(c, r - 1)
    BY <1>5 DEF DownCells
  <2>2. Decrypt(m, r) = With(m, Layers(c, r))
    BY <1>1, <1>2, <2>1, Unwraps
  <2>3. QED
    BY <1>1, <1>2, <2>1, <2>2, WithType, SMTT(30) DEF DownCells
<1>7. QED
  BY <1>5, <1>6

(* A message for the client that relay r makes or hands on. *)
LEMMA UpLayer ==
  ASSUME NEW c \in 0 .. N, NEW r \in 1 .. c, NEW m \in UpCells(c, r)
  PROVE  Encrypt(m, r) \in UpCells(c, r - 1)
<1>1. m \in Messages /\ m.cmd \in Carried /\ m.layers = Layers(c, r)
  BY DEF UpCells
<1>2. Encrypt(m, r) = With(m, Layers(c, r - 1)) /\ r - 1 \in Nat
  BY <1>1, Wraps, SmallFacts
<1>3. QED
  BY <1>1, <1>2, WithType DEF UpCells

(* extend_relay connects the last counted relay with the next one. *)
LEMMA ConnectsKeeps ==
  ASSUME CircuitInv, NEW r \in Relays, r = cur_relays, r < N, relay[r] = "second",
         client' = client, cur_relays' = cur_relays,
         Sound(client, r, relay, far[0], down', up), CellsOK(r, relay, down', up),
         Empty(r, down', up), RelayConnects(r)
  PROVE  CircuitInv'
<1>1. /\ r \in Links /\ r + 1 \in Relays /\ r # r + 1 /\ r # 0 /\ 0 \in Links /\ r > 0
      /\ relay \in [Relays -> RelayStates] /\ down' \in Channels /\ up \in Channels /\ up' = up
      /\ relay[r] \notin Stopped
  BY SmallFacts DEF Relays, Links, Sound, StateTypes, RelayConnects, Stopped
<1>2. CASE RelayGoes(r, "abandoned")
  BY <1>1, <1>2, StayOrStop DEF Stopped
<1>3. CASE /\ relay[r + 1] = "listening"
           /\ relay' = [relay EXCEPT ![r] = "exttls", ![r + 1] = "accepted"]
           /\ near' = [near EXCEPT ![r] = "open"]
           /\ far' = [far EXCEPT ![r] = "open"]
  <2>1. near' \in [Links -> Ends] /\ far' \in [Links -> Ends] /\ far'[0] = far[0]
    BY <1>1, <1>3 DEF CircuitInv, Ends
  <2>2. relay' = [[relay EXCEPT ![r] = "exttls"] EXCEPT ![r + 1] = "accepted"]
    BY <1>1, <1>3
  <2>3. AddingOK(Adder(client, r, relay), "listening", down'[r], up[r])
    BY <1>3 DEF Sound
  <2>4. down'[r] = <<>> /\ up[r] = <<>>
    BY <2>3 DEF AddingOK
  <2>5. [down' EXCEPT ![r] = <<>>] = down' /\ [up EXCEPT ![r] = <<>>] = up
    BY <1>1, <2>4 DEF Channels
  <2>6. AddingOK("exttls", "accepted", <<>>, <<>>)
    BY DEF AddingOK, Opening, Answers, Created, Stopped
  <2>7. Sound(client, r, relay', far[0], down', up)
    <3>1. PICK d : d = down'
      OBVIOUS
    <3>2. /\ Sound(client, r, relay, far[0], d, up) /\ CellsOK(r, relay, d, up) /\ Empty(r, d, up)
          /\ [d EXCEPT ![r] = <<>>] = d
      BY <2>5, <3>1
    <3>3. relay[r] \notin Stopped
      BY <1>1
    <3>4. Sound(client, r, [[relay EXCEPT ![r] = "exttls"] EXCEPT ![r + 1] = "accepted"],
                far[0], [d EXCEPT ![r] = <<>>], [up EXCEPT ![r] = <<>>])
      BY ONLY <2>6, <3>2, <3>3, r \in Relays, r < N, AdderStep
    <3>5. QED
      BY <2>2, <2>5, <3>1, <3>2, <3>4
  <2>8. QED
    BY <1>1, <2>1, <2>7 DEF CircuitInv
<1>4. QED
  BY <1>2, <1>3 DEF RelayConnects

(* The exit relay's thread goes on, or its session ends. *)
LEMMA ExitGoes ==
  ASSUME CircuitInv, NEW r \in Relays, r = cur_relays, r = N, relay[r] \in {"second", "exit"},
         client' = client, cur_relays' = cur_relays,
         Sound(client, N, relay, far[0], down', up'),
         NEW pc \in {"exit"} \cup Stopped, RelayGoes(r, pc)
  PROVE  CircuitInv'
<1>1. CASE pc \in Stopped
  BY <1>1, StayOrStop
<1>2. CASE pc = "exit"
  <2>1. \A d, u : Sound(client, N, relay, far[0], d, u) =>
                     Sound(client, N, [relay EXCEPT ![N] = "exit"], far[0], d, u)
    BY ExitSound
  <2>2. QED
    BY <1>2, <2>1, GoOn
<1>3. QED
  BY <1>1, <1>2

(* The exit relay sends a message to the client. *)
LEMMA ExitReplies ==
  ASSUME CircuitInv, NEW r \in Relays, r = cur_relays, r = N, relay[r] \in {"second", "exit"},
         client' = client, cur_relays' = cur_relays,
         Sound(client, N, relay, far[0], down', up), CellsOK(N, relay, down', up),
         NEW m \in UpCells(N, N), NEW outcome \in Outcomes(near[r - 1]),
         up' = Sent(up, r - 1, outcome, Encrypt(m, r)), RelayGoes(r, After(outcome, "exit"))
  PROVE  CircuitInv'
<1>1. N \in 0 .. N /\ N \in 1 .. N /\ N - 1 \in 0 .. N - 1
  BY SmallFacts
<1>2. Encrypt(m, N) \in UpCells(N, N - 1)
  BY <1>1, UpLayer
<1>3. Sound(client, N, relay, far[0], down', up')
  <2>1. CASE outcome = "sent"
    <3>1. up' = [up EXCEPT ![N - 1] = Append(@, Encrypt(m, N))]
      BY <2>1 DEF Sent
    <3>2. PICK i \in 0 .. N - 1 : i = N - 1
      BY <1>1
    <3>3. PICK x \in UpCells(N, i) : x = Encrypt(m, N)
      BY <1>2, <3>2
    <3>4. PICK d : d = down'
      OBVIOUS
    <3>5. Sound(client, N, relay, far[0], d, up) /\ CellsOK(N, relay, d, up) /\ ~(N < N)
      BY <3>4, SmallFacts
    <3>6. Sound(client, N, relay, far[0], d, [up EXCEPT ![i] = Append(@, x)])
      BY <3>5, PutUp
    <3>7. QED
      BY <3>1, <3>2, <3>3, <3>4, <3>6
  <2>2. CASE outcome # "sent"
    BY <2>2 DEF Sent
  <2>3. QED
    BY <2>1, <2>2
<1>4. After(outcome, "exit") \in {"exit"} \cup Stopped
  BY DEF After, Stopped
<1>5. QED
  BY <1>3, <1>4, ExitGoes

(* handle_client_msg of the exit relay: what it answers gets its layer.    *)
LEMMA HandlesKeeps ==
  ASSUME CircuitInv, NEW r \in Relays, r = cur_relays, r = N, relay[r] \in {"second", "exit"},
         client' = client, cur_relays' = cur_relays,
         Sound(client, N, relay, far[0], down', up), CellsOK(N, relay, down', up),
         NEW m \in DownCells(N, N), ExitHandles(r, m)
  PROVE  CircuitInv'
<1>1. m \in UpCells(N, N) /\ m.cmd \in Carried
  BY DEF UpCells, DownCells
<1>2. Relayed("CELL") \in UpCells(N, N)
  <2>1. Relayed("CELL") \in Messages /\ Layers(N, N) = <<>>
    BY MessageTypes, NoLayer, SmallFacts DEF RelayCommands
  <2>2. QED
    BY <2>1 DEF UpCells, Carried, Relayed
<1>3. CASE m.cmd = "DESTROY"
  <2>1. RelayGoes(r, "freed") /\ up' = up
    BY <1>3 DEF ExitHandles
  <2>2. QED
    BY <2>1, ExitGoes DEF Stopped
<1>4. CASE m.cmd = "PADDING"
  <2>1. PICK outcome \in Outcomes(near[r - 1]) :
           /\ up' = Sent(up, r - 1, outcome, Echo(r, m))
           /\ RelayGoes(r, After(outcome, "exit"))
    BY <1>4 DEF ExitHandles
  <2>2. QED
    BY <1>1, <2>1, ExitReplies DEF Echo
<1>5. CASE m.cmd = "RELAY"
  <2>1. CASE RelayGoes(r, "exit") /\ up' = up
    BY <2>1, ExitGoes
  <2>2. CASE \E outcome \in Outcomes(near[r - 1]) :
                /\ up' = Sent(up, r - 1, outcome, Encrypt(Relayed("CELL"), r))
                /\ RelayGoes(r, After(outcome, "exit"))
    BY <1>2, <2>2, ExitReplies
  <2>3. QED
    BY <1>5, <2>1, <2>2 DEF ExitHandles
<1>6. QED
  BY <1>1, <1>3, <1>4, <1>5 DEF Carried

(* process_relay_session: while the circuit grows the second message is    *)
(* EXTEND, in the finished circuit it is not.                              *)
LEMMA SecondKeeps ==
  ASSUME CircuitInv, NEW r \in Relays, RelaySecond(r)
  PROVE  CircuitInv'
<1> DEFINE c == cur_relays
           m == Decrypt(Head(down[r - 1]), r)
<1>1. Sound(client, c, relay, far[0], down, up) /\ c \in 0 .. N
  BY DEF CircuitInv, Sound, StateTypes
<1>2. relay[r] = "second" /\ client' = client /\ cur_relays' = c
  BY DEF RelaySecond
<1>3. r = c \/ r = c + 1
  BY <1>1, <1>2, Places
<1>4. CASE down' = down /\ up' = up /\ RelayGoes(r, "freed")
  BY <1>1, <1>2, <1>4, StayOrStop DEF Stopped
<1>5. CASE /\ Readable(down, r - 1)
           /\ down' = Received(down, r - 1)
           /\ \E command \in SeenCommands(m) :
                 IF m.cmd = "RELAY" /\ command = "EXTEND"
                 THEN RelayConnects(r)
                 ELSE ExitHandles(r, m)
  <2>1. r = c
    <3>1. SUFFICES ASSUME r = c + 1
                   PROVE  FALSE
      BY <1>3
    <3>2. c < N /\ r - 1 = c
      BY <1>1, <3>1, SmallFacts DEF Relays
    <3>3. AddingOK(Adder(client, c, relay), "second", down[c], up[c])
      BY <1>1, <1>2, <3>1, <3>2 DEF Sound
    <3>4. QED
      BY <1>5, <3>2, <3>3 DEF AddingOK, Readable
  <2>2. relay[r] \notin Stopped /\ r <= c
    BY <1>1, <1>2, <2>1 DEF Stopped
  <2>3. /\ Sound(client, c, relay, far[0], down', up)
        /\ CellsOK(c, relay, down', up)
        /\ m \in DownCells(c, r)
        /\ c < N => Empty(c, down', up)
    BY <1>5, <2>2, CountedReads
  <2>4. m.layers = <<>> /\ m.cmd \in Carried
    BY <1>1, <2>1, <2>3, NoLayer DEF DownCells
  <2>5. SeenCommands(m) = {m.relay}
    BY <2>4 DEF SeenCommands
  <2>6. CASE c < N
    <3>1. m.cmd = "RELAY" /\ m.relay = "EXTEND"
      BY <2>3, <2>6 DEF DownCells
    <3>2. RelayConnects(r)
      BY <1>5, <2>5, <3>1
    <3>3. QED
      BY <1>2, <2>1, <2>3, <2>6, <3>2, ConnectsKeeps
  <2>7. CASE c = N
    <3>1. m.relay # "EXTEND"
      BY <1>1, <2>3, <2>7, SmallFacts DEF DownCells
    <3>2. ExitHandles(r, m)
      BY <1>5, <2>5, <3>1
    <3>3. QED
      BY <1>2, <2>1, <2>3, <2>7, <3>2, HandlesKeeps
  <2>8. QED
    BY <1>1, <2>6, <2>7, SmallFacts
<1>6. QED
  BY <1>4, <1>5 DEF RelaySecond

-----------------------------------------------------------------------------
(* handle_last_fd: only a relay before the last counted one has something  *)
(* to forward, and the layer it takes off is its own.                      *)
LEMMA ForwardsDownKeeps ==
  ASSUME CircuitInv, NEW r \in Relays, MiddleForwardsDown(r)
  PROVE  CircuitInv'
<1> DEFINE c == cur_relays
           m == Decrypt(Head(down[r - 1]), r)
<1>1. Sound(client, c, relay, far[0], down, up) /\ c \in 0 .. N
  BY DEF CircuitInv, Sound, StateTypes
<1>2. relay[r] = "middle" /\ client' = client /\ cur_relays' = c /\ up' = up
      /\ relay[r] \notin Stopped
  BY DEF MiddleForwardsDown, Stopped
<1>3. r <= c /\ r < N
  BY <1>1, <1>2, Places
<1>4. CASE down' = down /\ RelayGoes(r, "abandoned")
  BY <1>1, <1>2, <1>4, StayOrStop DEF Stopped
<1>5. CASE /\ Readable(down, r - 1)
           /\ \E outcome \in Outcomes(far[r]) :
                 /\ down' = Forwarded(r, outcome, m)
                 /\ RelayGoes(r, After(outcome, IF m.cmd = "DESTROY" THEN "freed" ELSE "middle"))
  <2>1. PICK read : read = Received(down, r - 1)
    OBVIOUS
  <2>2. /\ Sound(client, c, relay, far[0], read, up)
        /\ CellsOK(c, relay, read, up)
        /\ m \in DownCells(c, r)
        /\ c < N => Empty(c, read, up) /\ relay[c] \in {"second"} \cup Stopped
    BY <1>2, <1>3, <1>5, <2>1, CountedReads
  <2>3. r \in 0 .. c - 1
    <3>1. r # c
      BY <1>2, <1>3, <2>2
    <3>2. QED
      BY <1>1, <1>3, <3>1, SmallFacts
  <2>4. PICK outcome \in Outcomes(far[r]) :
           /\ down' = Sent(read, r, outcome, m)
           /\ RelayGoes(r, After(outcome, IF m.cmd = "DESTROY" THEN "freed" ELSE "middle"))
    BY <1>5, <2>1 DEF Forwarded
  <2>5. Sound(client, c, relay, far[0], [read EXCEPT ![r] = Append(@, m)], up)
    <3>1. PICK x \in DownCells(c, r) : x = m
      BY <2>2
    <3>2. Sound(client, c, relay, far[0], [read EXCEPT ![r] = Append(@, x)], up)
      BY <2>2, <2>3, PutDown
    <3>3. QED
      BY <3>1, <3>2
  <2>6. Sound(client, c, relay, far[0], down', up')
    BY <1>2, <2>2, <2>4, <2>5 DEF Sent
  <2>7. PICK pc \in {"middle"} \cup Stopped : RelayGoes(r, pc)
    BY <2>4 DEF After, Stopped
  <2>8. QED
    BY <1>2, <2>6, <2>7, StayOrStop
<1>6. QED
  BY <1>4, <1>5 DEF MiddleForwardsDown

(* handle_next_fd: the relay that added the last one has nothing to        *)
(* forward before that one is counted.                                     *)
LEMMA ForwardsUpKeeps ==
  ASSUME CircuitInv, NEW r \in Relays, MiddleForwardsUp(r)
  PROVE  CircuitInv'
<1> DEFINE c == cur_relays
<1>1. Sound(client, c, relay, far[0], down, up) /\ c \in 0 .. N
  BY DEF CircuitInv, Sound, StateTypes
<1>2. relay[r] = "middle" /\ client' = client /\ cur_relays' = c /\ down' = down
      /\ relay[r] \notin Stopped
  BY DEF MiddleForwardsUp, Stopped
<1>3. r <= c /\ r < N /\ r > 0
  BY <1>1, <1>2, Places, SmallFacts DEF Relays
<1>4. CASE up' = up /\ RelayGoes(r, "abandoned")
  BY <1>1, <1>2, <1>4, StayOrStop DEF Stopped
<1>5. CASE /\ Readable(up, r)
           /\ \E outcome \in Outcomes(near[r - 1]) :
                 /\ up' = Sent(Received(up, r), r - 1, outcome, Encrypt(Head(up[r]), r))
                 /\ RelayGoes(r, After(outcome, "middle"))
  <2>1. r # c
    <3>1. SUFFICES ASSUME r = c
                   PROVE  FALSE
      OBVIOUS
    <3>2. Adder(client, c, relay) = "middle" /\ c < N
      BY <1>2, <1>3, <3>1 DEF Adder
    <3>3. AddingOK("middle", relay[c + 1], down[c], up[c])
      BY <1>1, <3>2 DEF Sound
    <3>4. QED
      BY <1>5, <3>1, <3>3 DEF AddingOK, Readable
  <2>2. r \in 0 .. c - 1 /\ r \in 1 .. c /\ r - 1 \in 0 .. c - 1 /\ c # 1
    BY <1>1, <1>3, <2>1, SmallFacts DEF Relays
  <2>3. CellsOK(c, relay, down, up)
    BY <1>1, <2>2 DEF Sound, CutOff
  <2>4. PICK read : read = [up EXCEPT ![r] = Tail(@)]
    OBVIOUS
  <2>5. /\ Sound(client, c, relay, far[0], down, read)
        /\ CellsOK(c, relay, down, read)
        /\ Head(up[r]) \in UpCells(c, r)
        /\ c < N => /\ Empty(c, down, read)
                    /\ relay[c] \in {"middle"} \cup Stopped
                    /\ relay[c + 1] \in {"second"} \cup Stopped
                    /\ down[c] = <<>> /\ up[c] = <<>>
    <3>1. up[r] # <<>>
      BY <1>5 DEF Readable
    <3>2. PICK i \in 0 .. c - 1 : i = r
      BY <2>2
    <3>3. /\ Sound(client, c, relay, far[0], down, [up EXCEPT ![i] = Tail(@)])
          /\ CellsOK(c, relay, down, [up EXCEPT ![i] = Tail(@)])
          /\ Head(up[i]) \in UpCells(c, i)
          /\ c < N => /\ Empty(c, down, [up EXCEPT ![i] = Tail(@)])
                      /\ relay[c] \in {"middle"} \cup Stopped
                      /\ relay[c + 1] \in {"second"} \cup Stopped
                      /\ down[c] = <<>> /\ up[c] = <<>>
      <4>1. up[i] # <<>>
        BY <3>1, <3>2
      <4>2. QED
        BY <1>1, <2>3, <4>1, TakeUp, SMTT(30)
    <3>4. QED
      BY <2>4, <3>2, <3>3
  <2>6. c < N => read[c] = <<>>
    <3>1. c < N => c \in Links
      BY <1>1, SmallFacts DEF Links
    <3>2. up \in Channels
      BY <1>1 DEF Sound, StateTypes
    <3>3. QED
      BY <2>1, <2>4, <2>5, <3>1, <3>2 DEF Channels
  <2>7. PICK i \in 0 .. c - 1 : i = r - 1
    BY <2>2
  <2>8. PICK x \in UpCells(c, i) : x = Encrypt(Head(up[r]), r)
    BY <1>1, <2>2, <2>5, <2>7, UpLayer
  <2>9. Sound(client, c, relay, far[0], down, [read EXCEPT ![i] = Append(@, x)])
    BY <2>5, <2>6, PutUp
  <2>10. PICK outcome \in Outcomes(near[r - 1]) :
            /\ up' = Sent(read, i, outcome, x)
            /\ RelayGoes(r, After(outcome, "middle"))
    BY <1>5, <2>4, <2>7, <2>8 DEF Received
  <2>11. Sound(client, c, relay, far[0], down', up')
    BY <1>2, <2>5, <2>9, <2>10 DEF Sent
  <2>12. PICK pc \in {"middle"} \cup Stopped : RelayGoes(r, pc)
    BY <2>10 DEF After, Stopped
  <2>13. QED
    BY <1>2, <2>11, <2>12, StayOrStop
<1>6. QED
  BY <1>4, <1>5 DEF MiddleForwardsUp

(* handle_event of the exit relay.                                         *)
LEMMA ExitReceivesKeeps ==
  ASSUME CircuitInv, NEW r \in Relays, ExitReceives(r)
  PROVE  CircuitInv'
<1>1. Sound(client, cur_relays, relay, far[0], down, up)
  BY DEF CircuitInv
<1>2. relay[r] = "exit" /\ client' = client /\ cur_relays' = cur_relays /\ relay[r] \notin Stopped
  BY DEF ExitReceives, Stopped
<1>3. r = cur_relays /\ r = N /\ r <= cur_relays
  BY <1>1, <1>2, Places, SmallFacts
<1>4. CASE down' = down /\ up' = up /\ RelayGoes(r, "abandoned")
  BY <1>1, <1>2, <1>4, StayOrStop DEF Stopped
<1>5. CASE /\ Readable(down, r - 1)
           /\ down' = Received(down, r - 1)
           /\ ExitHandles(r, Decrypt(Head(down[r - 1]), r))
  <2>1. /\ Sound(client, N, relay, far[0], down', up)
        /\ CellsOK(N, relay, down', up)
        /\ Decrypt(Head(down[r - 1]), r) \in DownCells(N, N)
    BY <1>2, <1>3, <1>5, CountedReads
  <2>2. QED
    BY <1>2, <1>3, <1>5, <2>1, HandlesKeeps
<1>6. QED
  BY <1>4, <1>5 DEF ExitReceives

(* handle_internet_event of the exit relay.                                *)
LEMMA ExitInternetKeeps ==
  ASSUME CircuitInv, NEW r \in Relays, ExitInternet(r)
  PROVE  CircuitInv'
<1>1. Sound(client, cur_relays, relay, far[0], down, up)
  BY DEF CircuitInv
<1>2. relay[r] = "exit" /\ client' = client /\ cur_relays' = cur_relays /\ down' = down
      /\ relay[r] \notin Stopped
  BY DEF ExitInternet, Stopped
<1>3. r = cur_relays /\ r = N
  BY <1>1, <1>2, Places
<1>4. CellsOK(N, relay, down, up)
  BY <1>1, <1>2, <1>3 DEF Sound, CutOff
<1>5. Relayed("CELL") \in UpCells(N, N)
  <2>1. Relayed("CELL") \in Messages /\ Layers(N, N) = <<>>
    BY MessageTypes, NoLayer, SmallFacts DEF RelayCommands
  <2>2. QED
    BY <2>1 DEF UpCells, Carried, Relayed
<1>6. PICK outcome \in Outcomes(near[r - 1]) :
         /\ up' = Sent(up, r - 1, outcome, Encrypt(Relayed("CELL"), r))
         /\ RelayGoes(r, After(outcome, "exit"))
  BY DEF ExitInternet
<1>7. Sound(client, N, relay, far[0], down', up) /\ CellsOK(N, relay, down', up)
  BY <1>1, <1>2, <1>3, <1>4
<1>8. QED
  BY <1>2, <1>3, <1>5, <1>6, <1>7, ExitReplies

(* A relay process stops.                                                  *)
LEMMA CrashKeeps ==
  ASSUME CircuitInv, NEW r \in Relays, RelayCrashes(r)
  PROVE  CircuitInv'
<1>1. Sound(client, cur_relays, relay, far[0], down', up')
  BY DEF CircuitInv, RelayCrashes
<1>2. RelayGoes(r, "dead") /\ client' = client /\ cur_relays' = cur_relays
  BY DEF RelayCrashes
<1>3. QED
  BY <1>1, <1>2, StayOrStop DEF Stopped

-----------------------------------------------------------------------------
(* The client's thread stays where it is or leaves. *)
LEMMA ClientGoes ==
  ASSUME CircuitInv, Sound(client, cur_relays, relay, far[0], down', up'),
         cur_relays' = cur_relays, relay' = relay, far' = far,
         client' \in {client} \cup Gone, near' \in [Links -> Ends]
  PROVE  CircuitInv'
<1>1. \A d, u : Sound(client, cur_relays, relay, far[0], d, u) =>
                   \A cl \in Gone : Sound(cl, cur_relays, relay, far[0], d, u)
  BY LeaveSound
<1>2. Sound(client', cur_relays, relay, far[0], down', up')
  BY <1>1
<1>3. QED
  BY <1>2 DEF CircuitInv

(* The descriptors stay descriptors when the client closes its own.        *)
LEMMA ClientEndsType ==
  ASSUME CircuitInv, NEW result, near' = near \/ ClientEnds(result)
  PROVE  near' \in [Links -> Ends]
<1>1. \A e \in Ends : Closed(e) \in Ends
  BY DEF Closed, Ends
<1>2. QED
  BY <1>1 DEF CircuitInv, ClientEnds

(* After a send that failed the client ends, otherwise it goes on.         *)
LEMMA ClientLeavesType ==
  ASSUME CircuitInv, NEW outcome, NEW pc, ClientLeaves(outcome, pc)
  PROVE  /\ near' \in [Links -> Ends]
         /\ client' = IF outcome \in {"error", "killed"} THEN "failed" ELSE pc
BY ClientEndsType DEF ClientLeaves, ClientEnds

(* A step of the client that adds the guard. *)
LEMMA GuardStep ==
  ASSUME NEW cl, NEW rel, NEW f, NEW dn, NEW un, Sound(cl, 0, rel, f, dn, un),
         NEW cl2 \in {"tls", "create", "failed"}, NEW f2 \in {"open", "closed"}, NEW w, NEW d, NEW u,
         AddingOK(Adder(cl2, 0, rel), w, d, u), f2 = "closed" => w \in Stopped
  PROVE  Sound(cl2, 0, [rel EXCEPT ![1] = w], f2, [dn EXCEPT ![0] = d], [un EXCEPT ![0] = u])
<1> DEFINE rel2 == [rel EXCEPT ![1] = w]
           dn2 == [dn EXCEPT ![0] = d]
           un2 == [un EXCEPT ![0] = u]
<1>1. /\ N \in Nat /\ 0 < N /\ 0 \in Links /\ 1 \in Relays /\ 0 + 1 = 1
      /\ rel \in [Relays -> RelayStates] /\ dn \in Channels /\ un \in Channels
  BY SmallFacts DEF Sound, StateTypes
<1>2. d \in Opening /\ u \in Answers /\ w \in RelayStates
  BY DEF AddingOK, RelayStates
<1>3. d \in Seq(Messages) /\ u \in Seq(Messages)
  <2>1. \A x, y \in Messages : <<>> \in Seq(Messages) /\ <<x>> \in Seq(Messages)
                                /\ <<x, y>> \in Seq(Messages)
    OBVIOUS
  <2>2. QED
    BY <1>2, <2>1, MessageTypes DEF Opening, Answers
<1>4. /\ rel2 \in [Relays -> RelayStates] /\ rel2[1] = w
      /\ \A q \in Relays \ {0, 1} : rel2[q] = rel[q]
  BY <1>1, <1>2
<1>5. dn2 \in Channels /\ dn2[0] = d /\ \A i \in Links \ {0} : dn2[i] = dn[i]
  BY <1>1, <1>3 DEF Channels
<1>6. un2 \in Channels /\ un2[0] = u /\ \A i \in Links \ {0} : un2[i] = un[i]
  BY <1>1, <1>3 DEF Channels
<1> HIDE DEF rel2, dn2, un2
<1>7. StateTypes(cl2, 0, rel2, f2, dn2, un2)
  BY <1>1, <1>4, <1>5, <1>6 DEF StateTypes, ClientStates, Ends
<1>8. ClientOK(cl2, 0, rel2, f2)
  BY <1>4 DEF ClientOK
<1>9. Adder(cl2, 0, rel2) = Adder(cl2, 0, rel)
  BY DEF Adder
<1>10. CellsOK(0, rel, dn, un) /\ Empty(0, dn, un)
  BY <1>1 DEF CellsOK, TrafficOK, Empty
<1>11. AddingOK(Adder(cl2, 0, rel2), rel2[0 + 1], dn2[0], un2[0])
  BY <1>1, <1>4, <1>5, <1>6, <1>9
<1>12. \A q \in Relays \ {0, 0 + 1} : rel2[q] = rel[q]
  BY <1>1, <1>4
<1>13. Sound(cl2, 0, rel2, f2, dn2, un2)
  BY ONLY <1>1, <1>5, <1>6, <1>7, <1>8, <1>10, <1>11, <1>12, Sound(cl, 0, rel, f, dn, un), AddSound
<1>14. QED
  BY <1>13 DEF rel2, dn2, un2

(* The client connects to the guard, or leaves.                            *)
LEMMA ConnectKeeps ==
  ASSUME CircuitInv, ClientConnect
  PROVE  CircuitInv'
<1>1. Sound(client, cur_relays, relay, far[0], down, up)
  BY DEF CircuitInv
<1>2. client = "connect" /\ cur_relays = 0 /\ cur_relays' = 0 /\ down' = down /\ up' = up
  BY <1>1 DEF ClientConnect, Sound, ClientOK
<1>3. /\ N \in Nat /\ 0 < N /\ 0 \in Links /\ 1 \in Relays
      /\ down \in Channels /\ up \in Channels /\ near \in [Links -> Ends] /\ far \in [Links -> Ends]
  BY SmallFacts DEF CircuitInv, Sound, StateTypes
<1>4. CASE client' = "failed" /\ UNCHANGED <<near, far, relay>>
  BY <1>1, <1>2, <1>3, <1>4, ClientGoes DEF Gone
<1>5. CASE /\ relay[1] = "listening" /\ client' = "tls"
           /\ near' = [near EXCEPT ![0] = "open"]
           /\ far' = [far EXCEPT ![0] = "open"]
           /\ relay' = [relay EXCEPT ![1] = "accepted"]
  <2>1. AddingOK(Adder(client, 0, relay), "listening", down[0], up[0])
    BY <1>1, <1>2, <1>3, <1>5 DEF Sound
  <2>2. down[0] = <<>> /\ up[0] = <<>>
    BY <2>1 DEF AddingOK
  <2>3. AddingOK(Adder("tls", 0, relay), "accepted", <<>>, <<>>)
    BY DEF AddingOK, Adder, Opening, Answers, Created, Stopped
  <2>4. Sound("tls", 0, [relay EXCEPT ![1] = "accepted"], "open",
              [down EXCEPT ![0] = <<>>], [up EXCEPT ![0] = <<>>])
    BY <1>1, <1>2, <2>3, GuardStep
  <2>5. [down EXCEPT ![0] = <<>>] = down /\ [up EXCEPT ![0] = <<>>] = up
    BY <1>3, <2>2 DEF Channels
  <2>6. near' \in [Links -> Ends] /\ far' \in [Links -> Ends] /\ far'[0] = "open"
    BY <1>3, <1>5 DEF Ends
  <2>7. QED
    BY <1>2, <1>5, <2>4, <2>5, <2>6 DEF CircuitInv
<1>6. QED
  BY <1>4, <1>5 DEF ClientConnect

(* handle_tls_sender of the client: the guard has sent its key.            *)
LEMMA ClientTlsKeeps ==
  ASSUME CircuitInv, ClientTls
  PROVE  CircuitInv'
<1>1. Sound(client, cur_relays, relay, far[0], down, up)
  BY DEF CircuitInv
<1>2. client = "tls" /\ cur_relays = 0 /\ cur_relays' = 0 /\ relay' = relay /\ far' = far
  BY <1>1 DEF ClientTls, Sound, ClientOK
<1>3. /\ N \in Nat /\ 0 < N /\ 0 \in Links /\ 1 \in Relays /\ relay \in [Relays -> RelayStates]
      /\ down \in Channels /\ up \in Channels /\ far \in [Links -> Ends]
      /\ AddingOK("exttls", relay[1], down[0], up[0])
      /\ far[0] \in {"open", "closed"} /\ (far[0] = "closed" => relay[1] \in Stopped)
  BY <1>1, <1>2, SmallFacts DEF CircuitInv, Sound, StateTypes, Adder, ClientOK, Ends
<1>4. CASE ClientEnds("failed") /\ UNCHANGED <<up, down>>
  <2>1. client' = "failed" /\ near' \in [Links -> Ends]
    BY <1>4, ClientEndsType DEF ClientEnds
  <2>2. QED
    BY <1>1, <1>2, <1>4, <2>1, ClientGoes DEF Gone
<1>5. CASE /\ Readable(up, 0)
           /\ up' = Received(up, 0)
           /\ \E outcome \in Outcomes(far[0]) :
                 /\ down' = Sent(Sent(down, 0, outcome, Key), 0, outcome, Create)
                 /\ ClientLeaves(outcome, "create")
  <2>1. up[0] = <<Key>> /\ down[0] = <<>> /\ relay[1] \in {"tls"} \cup Stopped
    BY <1>3, <1>5 DEF AddingOK, Answers, Readable
  <2>2. up' = [up EXCEPT ![0] = <<>>]
    <3>1. Tail(<<Key>>) = <<>>
      OBVIOUS
    <3>2. QED
      BY <1>3, <1>5, <2>1, <3>1 DEF Received
  <2>3. PICK outcome \in Outcomes(far[0]) :
           /\ down' = Sent(Sent(down, 0, outcome, Key), 0, outcome, Create)
           /\ ClientLeaves(outcome, "create")
    BY <1>5
  <2>4. PICK d \in {<<>>, <<Key, Create>>} : down' = [down EXCEPT ![0] = d]
    BY <1>3, <2>1, <2>3, SendsOpening
  <2>5. client' \in {"create", "failed"} /\ near' \in [Links -> Ends]
    BY <2>3, ClientLeavesType
  <2>6. AddingOK(Adder(client', 0, relay), relay[1], d, <<>>)
    BY <1>3, <2>1, <2>5 DEF AddingOK, Adder, Opening, Answers, Key, Created, Create, Stopped
  <2>7. PICK cl2 \in {"tls", "create", "failed"} : cl2 = client'
    BY <2>5
  <2>8. Sound(cl2, 0, [relay EXCEPT ![1] = relay[1]], far[0], [down EXCEPT ![0] = d],
              [up EXCEPT ![0] = <<>>])
    <3>1. /\ Sound(client, 0, relay, far[0], down, up)
          /\ AddingOK(Adder(cl2, 0, relay), relay[1], d, <<>>)
          /\ far[0] \in {"open", "closed"} /\ (far[0] = "closed" => relay[1] \in Stopped)
      BY <1>1, <1>2, <1>3, <2>6, <2>7
    <3>2. QED
      BY ONLY <3>1, GuardStep
  <2>9. [relay EXCEPT ![1] = relay[1]] = relay
    BY <1>3
  <2>10. QED
    BY <1>2, <1>3, <2>2, <2>4, <2>5, <2>7, <2>8, <2>9 DEF CircuitInv
<1>6. QED
  BY <1>4, <1>5 DEF ClientTls

(* One turn of the client's loop, when the relay before is counted. *)
LEMMA NextHopKeeps ==
  ASSUME CircuitInv, NEW n \in 1 .. N, NextHop(n), relay' = relay, far' = far,
         NEW cl, cl = (IF n < N THEN "extend" ELSE "ready"),
         Sound(cl, n, relay, far[0], down, up'),
         far[0] = "open" => CellsOK(n, relay, down, up') /\ Empty(n, down, up'),
         relay[n] \in {"second"} \cup Stopped
  PROVE  CircuitInv'
<1> DEFINE m == Relayed("EXTEND")
<1>1. n \in 0 .. N /\ 0 \in 0 .. n - 1 /\ n \in Int
  BY SmallFacts
<1>2. PICK u : u = up'
  OBVIOUS
<1>3. Sound(cl, n, relay, far[0], down, u)
  BY <1>2
<1>4. CASE n = N
  <2>1. client' = "ready" /\ down' = down /\ near' = near /\ cur_relays' = n /\ cl = "ready"
    BY <1>4, SmallFacts DEF NextHop
  <2>2. QED
    BY <1>2, <1>3, <2>1 DEF CircuitInv
<1>5. CASE n < N
  <2>1. PICK outcome \in Outcomes(far[0]) :
           /\ down' = Sent(down, 0, outcome, ClientEncrypt(m, n))
           /\ ClientLeaves(outcome, "extend")
    BY <1>5 DEF NextHop
  <2>2. cur_relays' = n /\ cl = "extend"
    BY <1>5 DEF NextHop
  <2>3. near' \in [Links -> Ends]
        /\ client' = IF outcome \in {"error", "killed"} THEN "failed" ELSE "extend"
    BY <2>1, ClientLeavesType
  <2>4. ASSUME outcome = "sent"
        PROVE  Sound(cl, n, relay, far[0], [down EXCEPT ![0] = Append(@, ClientEncrypt(m, n))], u)
    <3>1. far[0] = "open"
      BY <2>4, Outcome
    <3>2. CellsOK(n, relay, down, u) /\ Empty(n, down, u)
      BY <1>2, <3>1
    <3>3. PICK x \in DownCells(n, 0) : x = ClientEncrypt(m, n)
      <4>1. PICK y \in Messages : y = m /\ y.layers = <<>> /\ y.cmd = "RELAY" /\ y.relay = "EXTEND"
        BY MessageTypes DEF RelayCommands, Relayed
      <4>2. ClientEncrypt(y, n) = With(y, Layers(n, 0))
        BY <1>1, <4>1, ClientWraps
      <4>3. With(y, Layers(n, 0)) \in DownCells(n, 0)
        <5>1. 0 \in Nat
          OBVIOUS
        <5>2. QED
          BY <1>1, <1>5, <4>1, <5>1, WithType DEF DownCells, Carried
      <4>4. QED
        BY <4>1, <4>2, <4>3
    <3>4. Sound(cl, n, relay, far[0], [down EXCEPT ![0] = Append(@, x)], u)
      BY <1>1, <1>3, <3>2, PutDown
    <3>5. QED
      BY <3>3, <3>4
  <2>5. Sound(cl, n, relay, far[0], down', u)
    BY <1>3, <2>1, <2>4 DEF Sent
  <2>6. \A d : Sound(cl, n, relay, far[0], d, u) => Sound("failed", n, relay, far[0], d, u)
    BY LeaveSound DEF Gone
  <2>7. Sound(client', n, relay, far[0], down', u)
    BY <2>2, <2>3, <2>5, <2>6
  <2>8. QED
    BY <1>2, <2>2, <2>3, <2>7 DEF CircuitInv
<1>6. QED
  BY <1>4, <1>5, SmallFacts

(* handle_create_message of the client: the guard is counted with CREATED, *)
(* or at the end of its stream, and then it is gone and no send arrives.   *)
LEMMA CreatedKeeps ==
  ASSUME CircuitInv, ClientCreated
  PROVE  CircuitInv'
<1>1. Sound(client, cur_relays, relay, far[0], down, up)
  BY DEF CircuitInv
<1>2. client = "create" /\ cur_relays = 0 /\ relay' = relay /\ far' = far
  BY <1>1 DEF ClientCreated, Sound, ClientOK
<1>3. /\ N \in Nat /\ 0 < N /\ 0 \in Links /\ 1 \in Relays /\ relay \in [Relays -> RelayStates]
      /\ down \in Channels /\ up \in Channels /\ far \in [Links -> Ends] /\ 1 \in 1 .. N
      /\ AddingOK("extending", relay[1], down[0], up[0])
      /\ far[0] \in {"open", "closed"} /\ (far[0] = "closed" => relay[1] \in Stopped)
  BY <1>1, <1>2, SmallFacts DEF CircuitInv, Sound, StateTypes, Adder, ClientOK, Ends
<1>4. PICK cl : cl = (IF 1 < N THEN "extend" ELSE "ready")
  OBVIOUS
<1>5. CASE Readable(up, 0) /\ up' = Received(up, 0)
  <2>1. up[0] = <<Created>> /\ down[0] = <<>> /\ relay[1] \in {"second"} \cup Stopped
    BY <1>3, <1>5 DEF AddingOK, Answers, Readable
  <2>2. PICK u : u = [up EXCEPT ![0] = <<>>]
    OBVIOUS
  <2>3. up' = u
    <3>1. Tail(<<Created>>) = <<>>
      OBVIOUS
    <3>2. QED
      BY <1>3, <1>5, <2>1, <2>2, <3>1 DEF Received
  <2>4. Sound("create", 0, relay, far[0], down, u) /\ u[0] = <<>>
    <3>1. AddingOK(Adder("create", 0, relay), relay[1], <<>>, <<>>)
      BY <1>3, <2>1 DEF AddingOK, Adder, Opening, Answers, Key, Created, Stopped
    <3>2. Sound("create", 0, [relay EXCEPT ![1] = relay[1]], far[0], [down EXCEPT ![0] = <<>>],
                [up EXCEPT ![0] = <<>>])
      <4>1. /\ Sound("create", 0, relay, far[0], down, up)
            /\ far[0] \in {"open", "closed"} /\ (far[0] = "closed" => relay[1] \in Stopped)
        BY <1>1, <1>2, <1>3
      <4>2. QED
        BY ONLY <3>1, <4>1, GuardStep
    <3>3. [relay EXCEPT ![1] = relay[1]] = relay /\ [down EXCEPT ![0] = <<>>] = down
      BY <1>3, <2>1 DEF Channels
    <3>4. QED
      BY <1>3, <2>2, <3>2, <3>3 DEF Channels
  <2>5. Head(up[0]).cmd = "CREATED"
    BY <2>1 DEF Created
  <2>6. NextHop(1)
    BY <1>5, <2>1, <2>5 DEF ClientCreated, Readable, EndOfFile
  <2>7. Sound(cl, 1, relay, far[0], down, u) /\ CellsOK(1, relay, down, u) /\ Empty(1, down, u)
    <3>1. PICK c \in Int : c = 0
      OBVIOUS
    <3>2. /\ Sound("create", c, relay, far[0], down, u) /\ c < N /\ c + 1 = 1 /\ ~(c > 0)
          /\ cl = (IF c + 1 < N THEN "extend" ELSE "ready")
          /\ relay[c + 1] \in {"second"} \cup Stopped
          /\ down[c] = <<>> /\ u[c] = <<>>
      BY <1>3, <1>4, <2>1, <2>4, <3>1
    <3>3. Sound(cl, c + 1, relay, far[0], down, u)
          /\ CellsOK(c + 1, relay, down, u) /\ Empty(c + 1, down, u)
      BY <3>2, CountSound
    <3>4. QED
      BY <3>2, <3>3
  <2>8. QED
    BY <1>2, <1>3, <1>4, <2>1, <2>3, <2>6, <2>7, NextHopKeeps
<1>6. CASE EndOfFile(up, 0, far[0]) /\ up' = up
  <2>1. CASE NextHop(1)
    <3>1. up[0] = <<>> /\ far[0] = "closed" /\ relay[1] \in Stopped
      BY <1>3, <1>6 DEF EndOfFile
    <3>2. Sound(cl, 1, relay, far[0], down, up)
      <4>1. PICK c \in Int : c = 0
        OBVIOUS
      <4>2. /\ Sound("create", c, relay, far[0], down, up) /\ c < N /\ c + 1 = 1 /\ ~(c > 0)
            /\ cl = (IF c + 1 < N THEN "extend" ELSE "ready")
            /\ relay[c + 1] \in {"second"} \cup Stopped
            /\ c = 0 /\ relay[1] \in Stopped /\ far[0] # "open" /\ up[0] = <<>>
        BY <1>1, <1>2, <1>3, <1>4, <3>1, <4>1
      <4>3. Sound(cl, c + 1, relay, far[0], down, up)
        BY <4>2, CountSound
      <4>4. QED
        BY <4>2, <4>3
    <3>3. QED
      BY <1>2, <1>3, <1>4, <1>6, <2>1, <3>1, <3>2, NextHopKeeps
  <2>2. CASE ClientEnds("failed") /\ UNCHANGED <<cur_relays, down>>
    <3>1. client' = "failed" /\ near' \in [Links -> Ends]
      BY <2>2, ClientEndsType DEF ClientEnds
    <3>2. QED
      BY <1>1, <1>2, <1>6, <2>2, <3>1, ClientGoes DEF Gone
  <2>3. QED
    BY <1>3, <1>6, <2>1, <2>2 DEF ClientCreated, Readable, EndOfFile
<1>7. QED
  BY <1>5, <1>6 DEF ClientCreated

(* create_relay_circuit after its read: the message that came was the only *)
(* one, so the relay it counts has answered.                               *)
LEMMA ClientExtendedKeeps ==
  ASSUME CircuitInv, ClientExtended
  PROVE  CircuitInv'
<1> DEFINE c == cur_relays
<1>1. Sound(client, c, relay, far[0], down, up)
  BY DEF CircuitInv
<1>2. client = "extend" /\ c \in 1 .. N - 1 /\ relay' = relay /\ far' = far
  BY <1>1 DEF ClientExtended, Sound, ClientOK
<1>3. c < N /\ c + 1 \in 1 .. N /\ 0 \in 0 .. c - 1 /\ c \in Nat /\ c > 0
  BY <1>2, SmallFacts
<1>4. CASE ClientEnds("failed") /\ UNCHANGED <<up, cur_relays, down>>
  <2>1. client' = "failed" /\ near' \in [Links -> Ends]
    BY <1>4, ClientEndsType DEF ClientEnds
  <2>2. QED
    BY <1>1, <1>2, <1>4, <2>1, ClientGoes DEF Gone
<1>5. CASE /\ Readable(up, 0) /\ up' = Received(up, 0)
           /\ NextHop(c + 1) \/ (ClientEnds("failed") /\ UNCHANGED <<cur_relays, down>>)
  <2>1. up[0] # <<>>
    BY <1>5 DEF Readable
  <2>2. CellsOK(c, relay, down, up)
    BY <1>1, <2>1 DEF Sound, CutOff
  <2>3. PICK u : u = [up EXCEPT ![0] = Tail(@)]
    OBVIOUS
  <2>4. /\ Sound(client, c, relay, far[0], down, u) /\ CellsOK(c, relay, down, u)
        /\ Empty(c, down, u)
        /\ relay[c] \in {"middle"} \cup Stopped
        /\ relay[c + 1] \in {"second"} \cup Stopped
        /\ down[c] = <<>> /\ up[c] = <<>>
    <3>1. PICK i \in 0 .. c - 1 : i = 0
      BY <1>3
    <3>2. up[i] # <<>>
      BY <2>1, <3>1
    <3>3. /\ Sound(client, c, relay, far[0], down, [up EXCEPT ![i] = Tail(@)])
          /\ CellsOK(c, relay, down, [up EXCEPT ![i] = Tail(@)])
          /\ Empty(c, down, [up EXCEPT ![i] = Tail(@)])
          /\ relay[c] \in {"middle"} \cup Stopped
          /\ relay[c + 1] \in {"second"} \cup Stopped
          /\ down[c] = <<>> /\ up[c] = <<>>
      BY <1>1, <1>3, <2>2, <3>2, TakeUp
    <3>4. QED
      BY <2>3, <3>1, <3>3
  <2>5. u[c] = <<>> /\ up' = u
    <3>1. c \in Links /\ c # 0 /\ up \in Channels
      BY <1>1, <1>2, SmallFacts DEF Links, Sound, StateTypes
    <3>2. QED
      BY <1>5, <2>3, <2>4, <3>1 DEF Channels, Received
  <2>6. CASE NextHop(c + 1)
    <3>1. PICK cl : cl = (IF c + 1 < N THEN "extend" ELSE "ready")
      OBVIOUS
    <3>2. Sound(cl, c + 1, relay, far[0], down, u) /\ CellsOK(c + 1, relay, down, u)
          /\ Empty(c + 1, down, u)
      BY <1>3, <2>4, <2>5, <3>1, CountSound
    <3>3. PICK n \in 1 .. N : n = c + 1
      BY <1>3
    <3>4. /\ NextHop(n) /\ cl = (IF n < N THEN "extend" ELSE "ready")
          /\ Sound(cl, n, relay, far[0], down, up')
          /\ CellsOK(n, relay, down, up') /\ Empty(n, down, up')
          /\ relay[n] \in {"second"} \cup Stopped
      BY <2>4, <2>5, <2>6, <3>1, <3>2, <3>3
    <3>5. QED
      BY <1>2, <3>4, NextHopKeeps
  <2>7. CASE ClientEnds("failed") /\ UNCHANGED <<cur_relays, down>>
    <3>1. client' = "failed" /\ near' \in [Links -> Ends]
      BY <2>7, ClientEndsType DEF ClientEnds
    <3>2. Sound(client, c, relay, far[0], down', up')
      BY <2>4, <2>5, <2>7
    <3>3. QED
      BY <1>2, <2>7, <3>1, <3>2, ClientGoes DEF Gone
  <2>8. QED
    BY <1>5, <2>6, <2>7
<1>6. QED
  BY <1>4, <1>5 DEF ClientExtended

-----------------------------------------------------------------------------
(* The user of a finished circuit sends a message. *)
LEMMA UserPuts ==
  ASSUME CircuitInv, client = "ready", NEW m \in {Padding, Relayed("CELL"), Destroy},
         NEW outcome \in Outcomes(far[0]),
         down' = Sent(down, 0, outcome, ClientEncrypt(m, cur_relays))
  PROVE  Sound(client, cur_relays, relay, far[0], down', up)
<1>1. Sound(client, cur_relays, relay, far[0], down, up) /\ cur_relays = N
  BY DEF CircuitInv, Sound, ClientOK
<1>2. N \in 0 .. N /\ N \in Nat /\ 0 \in Nat /\ ~(N < N)
  BY SmallFacts
<1>3. PICK i \in 0 .. N - 1 : i = 0
  BY SmallFacts
<1>4. CASE outcome = "sent"
  <2>1. far[0] = "open"
    BY <1>4, Outcome
  <2>2. CellsOK(N, relay, down, up)
    BY <1>1, <2>1 DEF Sound, CutOff
  <2>3. PICK y \in Messages : y = m /\ y.layers = <<>> /\ y.cmd \in Carried /\ y.relay # "EXTEND"
    BY MessageTypes DEF RelayCommands, Relayed, Padding, Destroy, Carried
  <2>4. ClientEncrypt(y, N) = With(y, Layers(N, 0))
    BY <1>2, <2>3, ClientWraps
  <2>5. With(y, Layers(N, 0)) \in DownCells(N, 0)
    BY <1>2, <2>3, WithType DEF DownCells
  <2>6. PICK x \in DownCells(N, i) : x = ClientEncrypt(m, N)
    BY <1>3, <2>3, <2>4, <2>5
  <2>7. Sound(client, N, relay, far[0], [down EXCEPT ![i] = Append(@, x)], up)
    BY <1>1, <1>2, <2>2, PutDown
  <2>8. QED
    BY <1>1, <1>3, <1>4, <2>6, <2>7 DEF Sent
<1>5. CASE outcome # "sent"
  BY <1>1, <1>5 DEF Sent
<1>6. QED
  BY <1>4, <1>5

(* The user's ping, connect, send and close.                               *)
LEMMA UserSendsKeeps ==
  ASSUME CircuitInv, UserSends
  PROVE  CircuitInv'
<1>1. client = "ready" /\ cur_relays' = cur_relays /\ relay' = relay /\ far' = far /\ up' = up
  BY DEF UserSends
<1>2. PICK m \in {Padding, Relayed("CELL")}, outcome \in Outcomes(far[0]) :
         /\ down' = Sent(down, 0, outcome, ClientEncrypt(m, cur_relays))
         /\ ClientLeaves(outcome, "ready")
  BY DEF UserSends
<1>3. Sound(client, cur_relays, relay, far[0], down', up)
  BY <1>1, <1>2, UserPuts
<1>4. near' \in [Links -> Ends] /\ client' \in {"failed", "ready"}
  BY <1>2, ClientLeavesType
<1>5. QED
  BY <1>1, <1>3, <1>4, ClientGoes DEF Gone

(* The user's destroy.                                                     *)
LEMMA UserDestroysKeeps ==
  ASSUME CircuitInv, UserDestroys
  PROVE  CircuitInv'
<1>1. client = "ready" /\ cur_relays' = cur_relays /\ relay' = relay /\ far' = far /\ up' = up
  BY DEF UserDestroys
<1>2. PICK outcome \in Outcomes(far[0]) :
         /\ down' = Sent(down, 0, outcome, ClientEncrypt(Destroy, cur_relays))
         /\ ClientEnds(IF outcome = "sent" THEN "destroyed" ELSE "failed")
  BY DEF UserDestroys
<1>3. Sound(client, cur_relays, relay, far[0], down', up)
  BY <1>1, <1>2, UserPuts
<1>4. near' \in [Links -> Ends] /\ client' \in Gone
  BY <1>2, ClientEndsType DEF ClientEnds, Gone
<1>5. QED
  BY <1>1, <1>3, <1>4, ClientGoes

(* The user's exit.                                                        *)
LEMMA UserExitsKeeps ==
  ASSUME CircuitInv, UserExits
  PROVE  CircuitInv'
<1>1. /\ cur_relays' = cur_relays /\ relay' = relay /\ far' = far /\ down' = down /\ up' = up
      /\ ClientEnds("exited")
  BY DEF UserExits
<1>2. near' \in [Links -> Ends] /\ client' \in Gone
  BY <1>1, ClientEndsType DEF ClientEnds, Gone
<1>3. QED
  BY <1>1, <1>2, ClientGoes DEF CircuitInv

(* handle_event of the client.                                             *)
LEMMA ClientReceivesKeeps ==
  ASSUME CircuitInv, ClientReceives
  PROVE  CircuitInv'
<1>1. Sound(client, cur_relays, relay, far[0], down, up) /\ cur_relays = N
  BY DEF CircuitInv, Sound, ClientOK, ClientReceives
<1>2. /\ client = "ready" /\ cur_relays' = cur_relays /\ relay' = relay /\ far' = far
      /\ down' = down
  BY DEF ClientReceives
<1>3. CASE Readable(up, 0) /\ up' = Received(up, 0) /\ client' = client /\ near' = near
  <2>1. PICK i \in 0 .. N - 1 : i = 0
    BY SmallFacts
  <2>2. up[i] # <<>>
    BY <1>3, <2>1 DEF Readable
  <2>3. CellsOK(N, relay, down, up)
    BY <1>1, <2>1, <2>2 DEF Sound, CutOff
  <2>4. Sound(client, N, relay, far[0], down, [up EXCEPT ![i] = Tail(@)])
    BY <1>1, <2>2, <2>3, TakeUp
  <2>5. Sound(client, cur_relays, relay, far[0], down', up')
    BY <1>1, <1>2, <1>3, <2>1, <2>4 DEF Received
  <2>6. near' \in [Links -> Ends]
    BY <1>3 DEF CircuitInv
  <2>7. QED
    BY <1>2, <1>3, <2>5, <2>6, ClientGoes
<1>4. CASE ClientEnds("failed") /\ up' = up
  <2>1. near' \in [Links -> Ends] /\ client' \in Gone
    BY <1>4, ClientEndsType DEF ClientEnds, Gone
  <2>2. QED
    BY <1>1, <1>2, <1>4, <2>1, ClientGoes
<1>5. QED
  BY <1>3, <1>4 DEF ClientReceives

-----------------------------------------------------------------------------
(* Before the client connects nothing is on any link.                      *)
LEMMA InitInv ==
  ASSUME Init
  PROVE  CircuitInv
<1>1. /\ client = "connect" /\ cur_relays = 0 /\ N \in Nat /\ 0 \in Links /\ 1 \in Relays /\ 0 < N
      /\ \A r \in Relays : relay[r] = "listening"
      /\ \A i \in Links : near[i] = "none" /\ far[i] = "none" /\ down[i] = <<>> /\ up[i] = <<>>
  BY SmallFacts DEF Init
<1>2. StateTypes("connect", 0, relay, "none", down, up)
  <2>1. <<>> \in Seq(Messages)
    OBVIOUS
  <2>2. QED
    BY <1>1, <2>1 DEF Init, StateTypes, ClientStates, RelayStates, Ends, Channels
<1>3. ClientOK("connect", 0, relay, "none")
  BY DEF ClientOK
<1>4. ChainOK(0, relay, down, up)
  <2>1. \A r \in 0 + 2 .. N : r \in Relays
    BY <1>1 DEF Relays
  <2>2. \A i \in 0 + 1 .. N - 1 : i \in Links
    BY <1>1 DEF Links
  <2>3. QED
    BY <1>1, <2>1, <2>2 DEF ChainOK
<1>5. AddingOK(Adder("connect", 0, relay), relay[0 + 1], down[0], up[0])
  <2>1. relay[0 + 1] = "listening" /\ down[0] = <<>> /\ up[0] = <<>>
    BY <1>1
  <2>2. QED
    BY <2>1 DEF AddingOK, Adder, Opening, Answers, Created, Stopped
<1>6. CellsOK(0, relay, down, up)
  BY <1>1 DEF CellsOK, TrafficOK
<1>7. Sound("connect", 0, relay, "none", down, up)
  BY <1>2, <1>3, <1>4, <1>5, <1>6 DEF Sound
<1>8. near \in [Links -> Ends] /\ far \in [Links -> Ends] /\ far[0] = "none"
  BY <1>1 DEF Init, Ends
<1>9. QED
  BY <1>1, <1>7, <1>8 DEF CircuitInv

(* The inductive invariant: the state of the circuit is Sound whatever the *)
(* client, its user, the relays and the servers do and whoever stops.      *)
THEOREM CircuitSound == Spec => []CircuitInv
<1>1. Init => CircuitInv
  BY InitInv
<1>2. CircuitInv /\ [Next]_vars => CircuitInv'
  <2> SUFFICES ASSUME CircuitInv, [Next]_vars
               PROVE  CircuitInv'
    OBVIOUS
  <2>1. CASE ClientStep
    BY <2>1, ConnectKeeps, ClientTlsKeeps, CreatedKeeps, ClientExtendedKeeps, ClientReceivesKeeps
       DEF ClientStep
  <2>2. CASE UserStep
    BY <2>2, UserSendsKeeps, UserDestroysKeeps, UserExitsKeeps DEF UserStep
  <2>3. ASSUME NEW r \in Relays, RelayStep(r)
        PROVE  CircuitInv'
    BY <2>3, AcceptsKeeps, TlsKeeps, CreateKeeps, SecondKeeps, ExtendTlsKeeps, ExtendedKeeps
       DEF RelayStep
  <2>4. ASSUME NEW r \in Relays,
               \/ MiddleForwardsDown(r) \/ MiddleForwardsUp(r)
               \/ ExitReceives(r) \/ ExitInternet(r) \/ RelayCrashes(r)
        PROVE  CircuitInv'
    BY <2>4, ForwardsDownKeeps, ForwardsUpKeeps, ExitReceivesKeeps, ExitInternetKeeps, CrashKeeps
  <2>5. CASE UNCHANGED vars
    BY <2>5 DEF vars, links, budgets, CircuitInv
  <2>6. QED
    BY <2>1, <2>2, <2>3, <2>4, <2>5 DEF Next
<1>3. QED
  BY <1>1, <1>2, PTL DEF Spec

(* A sound circuit carries messages with one layer for each counted relay  *)
(* from the next one on.                                                   *)
LEMMA SoundLayers ==
  ASSUME CircuitInv
  PROVE  OneLayerPerHop
<1> DEFINE c == cur_relays
<1>1. Sound(client, c, relay, far[0], down, up) /\ c \in 0 .. N /\ N \in Nat
  BY SmallFacts DEF CircuitInv, Sound, StateTypes
<1>2. SUFFICES ASSUME NEW i \in Links, NEW m \in ToSet(down[i]) \cup ToSet(up[i]), m.cmd \in Carried
               PROVE  m.layers = Layers(c, i)
  BY DEF OneLayerPerHop, Carried, Layers
<1>3. /\ \A s : s = <<>> => ToSet(s) = {}
      /\ \A S : \A s \in Seq(S) : ToSet(s) \subseteq S
  BY DEF ToSet
<1>4. /\ \A s \in Opening : ToSet(s) \subseteq {Key, Create}
      /\ \A s \in Answers : ToSet(s) \subseteq {Key, Created}
  <2>1. \A S : \A x, y \in S : <<>> \in Seq(S) /\ <<x>> \in Seq(S) /\ <<x, y>> \in Seq(S)
    OBVIOUS
  <2>2. Opening \subseteq Seq({Key, Create})
    BY <2>1 DEF Opening
  <2>3. Answers \subseteq Seq({Key, Created})
    BY <2>1 DEF Answers
  <2>4. QED
    BY <1>3, <2>2, <2>3
<1>5. \A x \in {Key, Create, Created} : x.cmd \notin Carried
  BY DEF Key, Create, Created, Carried
<1>6. CASE i < c
  <2>1. i \in 0 .. c - 1
    BY <1>1, <1>6 DEF Links
  <2>2. CASE CellsOK(c, relay, down, up)
    <3>1. down[i] \in Seq(DownCells(c, i)) /\ up[i] \in Seq(UpCells(c, i))
      BY <2>1, <2>2 DEF CellsOK, TrafficOK
    <3>2. m \in DownCells(c, i) \cup UpCells(c, i)
      BY <1>3, <3>1
    <3>3. QED
      BY <3>2 DEF DownCells, UpCells
  <2>3. CASE CutOff(c, relay, far[0], down, up)
    <3>1. i = 0 /\ down[i] \in Opening /\ up[i] = <<>>
      BY <2>1, <2>3 DEF CutOff
    <3>2. QED
      BY <1>2, <1>3, <1>4, <1>5, <3>1
  <2>4. QED
    BY <1>1, <2>2, <2>3 DEF Sound
<1>7. CASE i = c
  <2>1. down[i] \in Opening /\ up[i] \in Answers
    BY <1>1, <1>7 DEF Sound, AddingOK, Links
  <2>2. QED
    BY <1>2, <1>4, <1>5, <2>1
<1>8. CASE i > c
  <2>1. i \in c + 1 .. N - 1
    BY <1>1, <1>8 DEF Links
  <2>2. down[i] = <<>> /\ up[i] = <<>>
    BY <1>1, <2>1 DEF Sound, ChainOK
  <2>3. QED
    BY <1>3, <2>2
<1>9. QED
  BY <1>1, <1>6, <1>7, <1>8 DEF Links

(* Every message of the finished or growing circuit carries, on every      *)
(* link, exactly the layers that the relays ahead of it take off: for      *)
(* circuits of any length, whatever messages cross each other in both      *)
(* directions and whichever relays stop.                                   *)
THEOREM LayersPerHop == Spec => []OneLayerPerHop
<1>1. CircuitInv => OneLayerPerHop
  BY SoundLayers
<1>2. QED
  BY <1>1, CircuitSound, PTL

(* The client counts only relays that hold its key, and all but the last   *)
(* of them forward, or have stopped: handle_create_message and             *)
(* create_relay_circuit count a relay when it answered, or the guard when  *)
(* its connection ended, and by then it is gone.                           *)
THEOREM CircuitChain == Spec => []CircuitIsChain
<1>1. CircuitInv => CircuitIsChain
  <2> SUFFICES ASSUME CircuitInv
               PROVE  CircuitIsChain
    OBVIOUS
  <2>1. /\ ChainOK(cur_relays, relay, down, up) /\ cur_relays \in 0 .. N /\ N \in Nat
        /\ client = "ready" => cur_relays = N
    BY SmallFacts DEF CircuitInv, Sound, StateTypes, ClientOK
  <2>2. \A r \in 1 .. cur_relays : r \in 1 .. cur_relays - 1 \/ (r = cur_relays /\ cur_relays > 0)
    BY <2>1
  <2>3. LastPlaces(cur_relays) \subseteq KeyedRelays
    BY DEF LastPlaces, KeyedRelays
  <2>4. \A r \in 1 .. cur_relays : relay[r] \in KeyedRelays
    BY <2>1, <2>2, <2>3 DEF ChainOK, KeyedRelays
  <2>5. client = "ready" => relay[N] \in {"second", "exit"} \cup Stopped
    BY <2>1, SmallFacts DEF ChainOK, LastPlaces
  <2>6. QED
    BY <2>1, <2>4, <2>5 DEF ChainOK, CircuitIsChain
<1>2. QED
  BY <1>1, CircuitSound, PTL

-----------------------------------------------------------------------------
(* Where the pings of a channel are, and that the pings of all channels    *)
(* can be numbered with 1 .. n, each with a number of its own.             *)
PingsIn(s) == {k \in 1 .. Len(s) : s[k].cmd = "PADDING"}
Numbers(f, c, n) ==
    \A a \in DOMAIN c : \A k \in PingsIn(c[a]) :
       /\ f[a][k] \in 1 .. n
       /\ \A b \in DOMAIN c : \A l \in PingsIn(c[b]) : f[a][k] = f[b][l] => a = b /\ k = l
Unused(v, f, c) == \A a \in DOMAIN c : \A k \in PingsIn(c[a]) : f[a][k] # v
AtMost(n, c) == n \in Nat /\ \E f : Numbers(f, c, n)

(* One message is read from channel a, or sent on it.                      *)
Reads(c, d, a) == d = [c EXCEPT ![a] = Tail(@)]
Sends(c, d, a, m) == d = [c EXCEPT ![a] = Append(@, m)]
Carry(c, D, M) == c \in [D -> Seq(M)]

(* Reading a message moves the ones behind it one place forward.           *)
LEMMA PingsBehind ==
  ASSUME NEW M, NEW s \in Seq(M), s # <<>>
  PROVE  /\ \A k \in PingsIn(Tail(s)) : k \in Nat /\ k # 0 /\ k + 1 \in PingsIn(s)
         /\ Head(s).cmd = "PADDING" => 1 \in PingsIn(s)
<1>1. /\ Tail(s) \in Seq(M) /\ Len(s) \in Nat /\ Len(s) # 0
      /\ Len(Tail(s)) = Len(s) - 1 /\ Head(s) = s[1]
      /\ \A k \in 1 .. Len(s) - 1 : Tail(s)[k] = s[k + 1]
  OBVIOUS
<1>2. \A k \in 1 .. Len(s) - 1 : k \in Nat /\ k # 0 /\ k + 1 \in 1 .. Len(s)
  BY <1>1
<1>3. 1 \in 1 .. Len(s)
  BY <1>1
<1>4. QED
  BY <1>1, <1>2, <1>3 DEF PingsIn

(* Reading a ping that is numbered v: the number n goes to whatever had v. *)
LEMMA ReadNumbers ==
  ASSUME NEW D, NEW M, NEW c \in [D -> Seq(M)], NEW a \in D, c[a] # <<>>, NEW n \in Nat,
         NEW f, Numbers(f, c, n),
         NEW d, d = [c EXCEPT ![a] = Tail(@)]
  PROVE  \E g : /\ Numbers(g, d, n)
                /\ Head(c[a]).cmd = "PADDING" => f[a][1] \in 1 .. n /\ Unused(f[a][1], g, d)
<1> DEFINE g == [b \in D |-> [k \in Nat |-> IF b = a THEN f[b][k + 1] ELSE f[b][k]]]
<1>1. DOMAIN c = D /\ DOMAIN d = D /\ d[a] = Tail(c[a]) /\ \A b \in D : b # a => d[b] = c[b]
  OBVIOUS
<1>2. \A k \in PingsIn(d[a]) : k \in Nat /\ k + 1 # 1 /\ k + 1 \in PingsIn(c[a])
  BY <1>1, PingsBehind
<1>3. \A b \in D : \A k \in PingsIn(c[b]) : k \in Nat
  BY DEF PingsIn
<1>4. \A b \in D : \A k \in PingsIn(d[b]) :
         k \in Nat /\ g[b][k] = IF b = a THEN f[b][k + 1] ELSE f[b][k]
  <2>1. \A b \in D : \A k \in Nat : g[b][k] = IF b = a THEN f[b][k + 1] ELSE f[b][k]
    OBVIOUS
  <2>2. \A b \in D : \A k \in PingsIn(d[b]) : k \in Nat
    BY <1>1, <1>2, <1>3
  <2>3. QED
    BY <2>1, <2>2
<1> HIDE DEF g
<1>5. \A b \in D : \A k \in PingsIn(c[b]) :
         /\ f[b][k] \in 1 .. n
         /\ \A e \in D : \A l \in PingsIn(c[e]) : f[b][k] = f[e][l] => b = e /\ k = l
  BY <1>1 DEF Numbers
<1>6. \A b \in D : \A k \in PingsIn(d[b]) : \E l \in PingsIn(c[b]) :
         g[b][k] = f[b][l] /\ l = IF b = a THEN k + 1 ELSE k
  BY <1>1, <1>2, <1>4
<1>7. Numbers(g, d, n)
  <2> SUFFICES ASSUME NEW b \in D, NEW k \in PingsIn(d[b])
               PROVE  /\ g[b][k] \in 1 .. n
                      /\ \A e \in D : \A l \in PingsIn(d[e]) : g[b][k] = g[e][l] => b = e /\ k = l
    BY <1>1 DEF Numbers
  <2>1. PICK k2 \in PingsIn(c[b]) : g[b][k] = f[b][k2] /\ k2 = IF b = a THEN k + 1 ELSE k
    BY <1>6
  <2>2. g[b][k] \in 1 .. n
    BY <1>5, <2>1
  <2>3. ASSUME NEW e \in D, NEW l \in PingsIn(d[e]), g[b][k] = g[e][l]
        PROVE  b = e /\ k = l
    <3>1. PICK l2 \in PingsIn(c[e]) : g[e][l] = f[e][l2] /\ l2 = IF e = a THEN l + 1 ELSE l
      BY <1>6
    <3>2. f[b][k2] = f[e][l2]
      BY <2>1, <2>3, <3>1
    <3>3. b = e /\ k2 = l2
      BY <1>5, <3>2, Zenon
    <3>4. k \in Nat /\ l \in Nat
      BY <1>4
    <3>5. CASE b = a
      BY <2>1, <3>1, <3>3, <3>4, <3>5
    <3>6. CASE b # a
      BY <2>1, <3>1, <3>3, <3>6
    <3>7. QED
      BY <3>3, <3>5, <3>6
  <2>4. QED
    BY <2>2, <2>3
<1>8. ASSUME Head(c[a]).cmd = "PADDING"
      PROVE  f[a][1] \in 1 .. n /\ Unused(f[a][1], g, d)
  <2>1. 1 \in PingsIn(c[a])
    BY <1>8, PingsBehind
  <2>2. f[a][1] \in 1 .. n
    BY <1>5, <2>1
  <2>3. ASSUME NEW b \in D, NEW k \in PingsIn(d[b]), g[b][k] = f[a][1]
        PROVE  FALSE
    <3>1. PICK k2 \in PingsIn(c[b]) : g[b][k] = f[b][k2] /\ k2 = IF b = a THEN k + 1 ELSE k
      BY <1>6
    <3>2. f[a][1] = f[b][k2]
      BY <2>3, <3>1
    <3>3. b = a /\ k2 = 1
      BY <1>5, <2>1, <3>2, Zenon
    <3>4. QED
      BY <1>2, <3>1, <3>3
  <2>4. QED
    BY <1>1, <2>2, <2>3 DEF Unused
<1>9. QED
  BY <1>7, <1>8

(* What reading does to the number of pings under way.                     *)
LEMMA ReadPings ==
  ASSUME NEW D, NEW M, NEW c, Carry(c, D, M), NEW a \in D, c[a] # <<>>, NEW n, AtMost(n, c),
         NEW d, Reads(c, d, a)
  PROVE  /\ AtMost(n, d)
         /\ Head(c[a]).cmd = "PADDING" => AtMost(n - 1, d)
<1>0. c \in [D -> Seq(M)] /\ d = [c EXCEPT ![a] = Tail(@)]
  BY DEF Carry, Reads
<1>1. n \in Nat
  BY DEF AtMost
<1>2. PICK f : Numbers(f, c, n)
  BY DEF AtMost
<1>3. PICK h : /\ Numbers(h, d, n)
               /\ Head(c[a]).cmd = "PADDING" => f[a][1] \in 1 .. n /\ Unused(f[a][1], h, d)
  BY <1>0, <1>1, <1>2, ReadNumbers
<1>4. ASSUME Head(c[a]).cmd = "PADDING"
      PROVE  AtMost(n - 1, d)
  <2> DEFINE g == [b \in D |-> [k \in PingsIn(d[b]) |-> IF h[b][k] = n THEN f[a][1] ELSE h[b][k]]]
  <2>1. PICK v \in 1 .. n : v = f[a][1]
    BY <1>3, <1>4
  <2>2. DOMAIN d = D
    BY <1>0
  <2>3. \A b \in D : \A k \in PingsIn(d[b]) : g[b][k] = IF h[b][k] = n THEN v ELSE h[b][k]
    BY <2>1
  <2> HIDE DEF g
  <2>4. \A b \in D : \A k \in PingsIn(d[b]) :
           h[b][k] \in 1 .. n /\ h[b][k] # v
    BY <1>3, <1>4, <2>1, <2>2 DEF Numbers, Unused
  <2>5. \A b \in D : \A k \in PingsIn(d[b]) : \A e \in D : \A l \in PingsIn(d[e]) :
           h[b][k] = h[e][l] => b = e /\ k = l
    BY <1>3, <2>2 DEF Numbers
  <2>6. Numbers(g, d, n - 1)
    <3> SUFFICES ASSUME NEW b \in D, NEW k \in PingsIn(d[b])
                 PROVE  /\ g[b][k] \in 1 .. n - 1
                        /\ \A e \in D : \A l \in PingsIn(d[e]) : g[b][k] = g[e][l] => b = e /\ k = l
      BY <2>2 DEF Numbers
    <3>1. PICK x \in 1 .. n : x = h[b][k] /\ x # v /\ g[b][k] = IF x = n THEN v ELSE x
      BY <2>3, <2>4
    <3>2. g[b][k] \in 1 .. n - 1
      BY <1>1, <2>1, <3>1
    <3>3. ASSUME NEW e \in D, NEW l \in PingsIn(d[e]), g[b][k] = g[e][l]
          PROVE  b = e /\ k = l
      <4>1. PICK y \in 1 .. n : y = h[e][l] /\ y # v /\ g[e][l] = IF y = n THEN v ELSE y
        BY <2>3, <2>4
      <4>2. h[b][k] = h[e][l]
        BY <3>1, <3>3, <4>1
      <4>3. QED
        BY <2>5, <3>3, <4>2
    <3>4. QED
      BY <3>2, <3>3
  <2>7. n - 1 \in Nat
    BY <1>1, <2>1
  <2>8. QED
    BY <2>6, <2>7 DEF AtMost
<1>5. QED
  BY <1>1, <1>3, <1>4 DEF AtMost

(* What sending does to it: another message changes nothing, a ping may    *)
(* take the next number.                                                   *)
LEMMA SendPings ==
  ASSUME NEW D, NEW M, NEW c, Carry(c, D, M), NEW a \in D, NEW m \in M, NEW n, AtMost(n, c),
         NEW d, Sends(c, d, a, m)
  PROVE  /\ AtMost(n + 1, d)
         /\ m.cmd # "PADDING" => AtMost(n, d)
<1>0. c \in [D -> Seq(M)] /\ d = [c EXCEPT ![a] = Append(@, m)]
  BY DEF Carry, Sends
<1>1. n \in Nat
  BY DEF AtMost
<1>2. PICK f : Numbers(f, c, n)
  BY DEF AtMost
<1> DEFINE last == Len(c[a]) + 1
           g == [b \in D |-> [k \in PingsIn(d[b]) |-> IF b = a /\ k = last THEN n + 1 ELSE f[b][k]]]
<1>3. DOMAIN c = D /\ DOMAIN d = D /\ d[a] = Append(c[a], m) /\ \A b \in D : b # a => d[b] = c[b]
  BY <1>0
<1>4. \A k \in PingsIn(d[a]) : k \in PingsIn(c[a]) \/ (k = last /\ m.cmd = "PADDING")
  <2>1. /\ Len(Append(c[a], m)) = last /\ Len(c[a]) \in Nat
        /\ Append(c[a], m)[last] = m
        /\ \A k \in 1 .. Len(c[a]) : Append(c[a], m)[k] = c[a][k]
    BY <1>0
  <2>2. \A k \in 1 .. last : k \in 1 .. Len(c[a]) \/ k = last
    BY <2>1
  <2> HIDE DEF last
  <2>3. QED
    BY <1>3, <2>1, <2>2 DEF PingsIn
<1>5. last \notin PingsIn(c[a])
  BY <1>0 DEF PingsIn
<1>6. \A b \in D : \A k \in PingsIn(d[b]) : g[b][k] = IF b = a /\ k = last THEN n + 1 ELSE f[b][k]
  OBVIOUS
<1> HIDE DEF last, g
<1>7. \A b \in D : \A k \in PingsIn(c[b]) :
         /\ f[b][k] \in 1 .. n
         /\ \A e \in D : \A l \in PingsIn(c[e]) : f[b][k] = f[e][l] => b = e /\ k = l
  BY <1>2, <1>3 DEF Numbers
<1>8. ASSUME m.cmd # "PADDING"
      PROVE  Numbers(f, d, n)
  <2>1. \A b \in D : \A k \in PingsIn(d[b]) : k \in PingsIn(c[b])
    BY <1>3, <1>4, <1>8
  <2>2. QED
    BY <1>3, <1>7, <2>1 DEF Numbers
<1>9. Numbers(g, d, n + 1)
  <2> SUFFICES ASSUME NEW b \in D, NEW k \in PingsIn(d[b])
               PROVE  /\ g[b][k] \in 1 .. n + 1
                      /\ \A e \in D : \A l \in PingsIn(d[e]) : g[b][k] = g[e][l] => b = e /\ k = l
    BY <1>3 DEF Numbers
  <2>1. \A e \in D : \A l \in PingsIn(d[e]) :
           \/ e = a /\ l = last /\ g[e][l] = n + 1
           \/ l \in PingsIn(c[e]) /\ g[e][l] = f[e][l]
    BY <1>3, <1>4, <1>5, <1>6
  <2>2. \A e \in D : \A l \in PingsIn(c[e]) : f[e][l] \in 1 .. n + 1 /\ f[e][l] # n + 1
    BY <1>1, <1>7
  <2>3. n + 1 \in 1 .. n + 1
    BY <1>1
  <2>4. ASSUME NEW e \in D, NEW l \in PingsIn(d[e]), g[b][k] = g[e][l]
        PROVE  b = e /\ k = l
    <3>1. CASE e = a /\ l = last /\ g[e][l] = n + 1
      BY <2>1, <2>2, <2>4, <3>1
    <3>2. CASE l \in PingsIn(c[e]) /\ g[e][l] = f[e][l]
      <4>1. g[b][k] # n + 1
        BY <2>2, <2>4, <3>2
      <4>2. k \in PingsIn(c[b]) /\ f[b][k] = f[e][l]
        BY <2>1, <2>4, <3>2, <4>1
      <4>3. QED
        BY <1>7, <3>2, <4>2, Zenon
    <3>3. QED
      BY <2>1, <3>1, <3>2
  <2>5. g[b][k] \in 1 .. n + 1
    BY <2>1, <2>2, <2>3
  <2>6. QED
    BY <2>4, <2>5
<1>10. n + 1 \in Nat
  BY <1>1
<1>11. QED
  BY <1>1, <1>8, <1>9, <1>10 DEF AtMost

(* Numbers may be left over.                                               *)
LEMMA MoreNumbers ==
  ASSUME NEW n, NEW c, AtMost(n, c)
  PROVE  AtMost(n + 1, c)
<1>1. n \in Nat /\ n + 1 \in Nat
  BY DEF AtMost
<1>2. PICK f : Numbers(f, c, n)
  BY DEF AtMost
<1>3. \A x \in 1 .. n : x \in 1 .. n + 1
  BY <1>1
<1>4. Numbers(f, c, n + 1)
  BY <1>2, <1>3 DEF Numbers
<1>5. QED
  BY <1>1, <1>4 DEF AtMost

-----------------------------------------------------------------------------
(* All channels of the circuit: those away from the client, then those     *)
(* towards it.                                                             *)
Both(dn, un) == [j \in 0 .. 2 * N - 1 |-> IF j < N THEN dn[j] ELSE un[j - N]]
PingsUnder(n, dn, un) == AtMost(n, Both(dn, un))

(* Channels of messages.                                                   *)
LEMMA BothTyped ==
  ASSUME NEW dn \in Channels, NEW un \in Channels
  PROVE  /\ Both(dn, un) \in [0 .. 2 * N - 1 -> Seq(Messages)]
         /\ \A i \in Links : /\ i \in 0 .. 2 * N - 1 /\ Both(dn, un)[i] = dn[i]
                             /\ i + N \in 0 .. 2 * N - 1 /\ Both(dn, un)[i + N] = un[i]
<1>1. N \in Nat
  BY CircuitAssumption
<1>2. \A j \in 0 .. 2 * N - 1 : IF j < N THEN j \in Links ELSE j - N \in Links
  BY <1>1 DEF Links
<1>3. \A i \in Links : /\ i \in 0 .. 2 * N - 1 /\ i < N
                       /\ i + N \in 0 .. 2 * N - 1 /\ ~(i + N < N) /\ (i + N) - N = i
  BY <1>1 DEF Links
<1>4. QED
  BY <1>2, <1>3 DEF Both, Channels

(* A change of one channel is a change of one of all.                      *)
Changed(c, d, a, s) == d = [c EXCEPT ![a] = s]
LEMMA BothChanged ==
  ASSUME NEW dn \in Channels, NEW un \in Channels, NEW i \in Links, NEW s, NEW new
  PROVE  /\ Changed(dn, new, i, s) => Changed(Both(dn, un), Both(new, un), i, s)
         /\ Changed(un, new, i, s) => Changed(Both(dn, un), Both(dn, new), i + N, s)
<1>1. N \in Nat
  BY CircuitAssumption
<1>2. \A j \in 0 .. 2 * N - 1 : IF j < N THEN j \in Links /\ j # i + N
                                         ELSE j - N \in Links /\ j # i /\ (j - N = i <=> j = i + N)
  BY <1>1 DEF Links
<1>3. DOMAIN dn = Links /\ DOMAIN un = Links
  BY DEF Channels
<1>4. ASSUME new = [dn EXCEPT ![i] = s]
      PROVE  Both(new, un) = [Both(dn, un) EXCEPT ![i] = s]
  <2>1. \A j \in 0 .. 2 * N - 1 : Both(new, un)[j] = [Both(dn, un) EXCEPT ![i] = s][j]
    BY <1>2, <1>3, <1>4 DEF Both
  <2>2. QED
    BY <2>1 DEF Both
<1>5. ASSUME new = [un EXCEPT ![i] = s]
      PROVE  Both(dn, new) = [Both(dn, un) EXCEPT ![i + N] = s]
  <2>1. \A j \in 0 .. 2 * N - 1 : Both(dn, new)[j] = [Both(dn, un) EXCEPT ![i + N] = s][j]
    BY <1>2, <1>3, <1>5 DEF Both
  <2>2. QED
    BY <2>1 DEF Both
<1>6. QED
  BY <1>4, <1>5 DEF Changed

(* Reading or sending on one channel is reading or sending on one of all.  *)
LEMMA BothMove ==
  ASSUME NEW dn \in Channels, NEW un \in Channels, NEW i \in Links, NEW new, NEW m
  PROVE  /\ Reads(dn, new, i) => Reads(Both(dn, un), Both(new, un), i)
         /\ Reads(un, new, i) => Reads(Both(dn, un), Both(dn, new), i + N)
         /\ Sends(dn, new, i, m) => Sends(Both(dn, un), Both(new, un), i, m)
         /\ Sends(un, new, i, m) => Sends(Both(dn, un), Both(dn, new), i + N, m)
<1>1. Both(dn, un)[i] = dn[i] /\ Both(dn, un)[i + N] = un[i]
  BY BothTyped
<1>2. ASSUME Reads(dn, new, i)
      PROVE  Reads(Both(dn, un), Both(new, un), i)
  <2>1. Changed(dn, new, i, Tail(dn[i]))
    BY <1>2 DEF Reads, Changed
  <2>2. Changed(Both(dn, un), Both(new, un), i, Tail(dn[i]))
    BY <2>1, BothChanged
  <2>3. QED
    BY <1>1, <2>2 DEF Reads, Changed
<1>3. ASSUME Reads(un, new, i)
      PROVE  Reads(Both(dn, un), Both(dn, new), i + N)
  <2>1. Changed(un, new, i, Tail(un[i]))
    BY <1>3 DEF Reads, Changed
  <2>2. Changed(Both(dn, un), Both(dn, new), i + N, Tail(un[i]))
    BY <2>1, BothChanged
  <2>3. QED
    BY <1>1, <2>2 DEF Reads, Changed
<1>4. ASSUME Sends(dn, new, i, m)
      PROVE  Sends(Both(dn, un), Both(new, un), i, m)
  <2>1. Changed(dn, new, i, Append(dn[i], m))
    BY <1>4 DEF Sends, Changed
  <2>2. Changed(Both(dn, un), Both(new, un), i, Append(dn[i], m))
    BY <2>1, BothChanged
  <2>3. QED
    BY <1>1, <2>2 DEF Sends, Changed
<1>5. ASSUME Sends(un, new, i, m)
      PROVE  Sends(Both(dn, un), Both(dn, new), i + N, m)
  <2>1. Changed(un, new, i, Append(un[i], m))
    BY <1>5 DEF Sends, Changed
  <2>2. Changed(Both(dn, un), Both(dn, new), i + N, Append(un[i], m))
    BY <2>1, BothChanged
  <2>3. QED
    BY <1>1, <2>2 DEF Sends, Changed
<1>6. QED
  BY <1>2, <1>3, <1>4, <1>5

(* The next message is read from link i.                                   *)
LEMMA ReadPing ==
  ASSUME NEW n, NEW dn \in Channels, NEW un \in Channels, PingsUnder(n, dn, un), NEW i \in Links
  PROVE  /\ Readable(dn, i) =>
               /\ Received(dn, i) \in Channels /\ Head(dn[i]) \in Messages
               /\ PingsUnder(n, Received(dn, i), un)
               /\ Head(dn[i]).cmd = "PADDING" => PingsUnder(n - 1, Received(dn, i), un)
         /\ Readable(un, i) =>
               /\ Received(un, i) \in Channels /\ Head(un[i]) \in Messages
               /\ PingsUnder(n, dn, Received(un, i))
               /\ Head(un[i]).cmd = "PADDING" => PingsUnder(n - 1, dn, Received(un, i))
<1>1. PICK D : D = 0 .. 2 * N - 1
  OBVIOUS
<1>2. PICK j : j = i + N
  OBVIOUS
<1>3. PICK c : c = Both(dn, un)
  OBVIOUS
<1>4. Carry(c, D, Messages) /\ i \in D /\ j \in D /\ c[i] = dn[i] /\ c[j] = un[i]
  BY <1>1, <1>2, <1>3, BothTyped DEF Carry
<1>5. AtMost(n, c)
  BY <1>3 DEF PingsUnder
<1>6. ASSUME Readable(dn, i)
      PROVE  /\ Received(dn, i) \in Channels /\ Head(dn[i]) \in Messages
             /\ PingsUnder(n, Received(dn, i), un)
             /\ Head(dn[i]).cmd = "PADDING" => PingsUnder(n - 1, Received(dn, i), un)
  <2>1. dn[i] \in Seq(Messages) /\ dn[i] # <<>>
    BY <1>6 DEF Channels, Readable
  <2>2. Received(dn, i) \in Channels /\ Head(dn[i]) \in Messages
    BY <2>1 DEF Received, Channels
  <2>3. PICK d : d = Both(Received(dn, i), un)
    OBVIOUS
  <2>4. Reads(c, d, i) /\ c[i] # <<>>
    <3>1. Reads(dn, Received(dn, i), i)
      BY DEF Reads, Received
    <3>2. QED
      BY <1>3, <1>4, <2>1, <2>3, <3>1, BothMove
  <2>5. AtMost(n, d) /\ (Head(c[i]).cmd = "PADDING" => AtMost(n - 1, d))
    BY <1>4, <1>5, <2>4, ReadPings
  <2>6. QED
    BY <1>4, <2>2, <2>3, <2>5 DEF PingsUnder
<1>7. ASSUME Readable(un, i)
      PROVE  /\ Received(un, i) \in Channels /\ Head(un[i]) \in Messages
             /\ PingsUnder(n, dn, Received(un, i))
             /\ Head(un[i]).cmd = "PADDING" => PingsUnder(n - 1, dn, Received(un, i))
  <2>1. un[i] \in Seq(Messages) /\ un[i] # <<>>
    BY <1>7 DEF Channels, Readable
  <2>2. Received(un, i) \in Channels /\ Head(un[i]) \in Messages
    BY <2>1 DEF Received, Channels
  <2>3. PICK d : d = Both(dn, Received(un, i))
    OBVIOUS
  <2>4. Reads(c, d, j) /\ c[j] # <<>>
    <3>1. Reads(un, Received(un, i), i)
      BY DEF Reads, Received
    <3>2. QED
      BY <1>2, <1>3, <1>4, <2>1, <2>3, <3>1, BothMove
  <2>5. AtMost(n, d) /\ (Head(c[j]).cmd = "PADDING" => AtMost(n - 1, d))
    BY <1>4, <1>5, <2>4, ReadPings
  <2>6. QED
    BY <1>4, <2>2, <2>3, <2>5 DEF PingsUnder
<1>8. QED
  BY <1>6, <1>7

(* A message is sent on link i, or lost.                                   *)
LEMMA SendPing ==
  ASSUME NEW n, NEW dn \in Channels, NEW un \in Channels, PingsUnder(n, dn, un),
         NEW i \in Links, NEW outcome, NEW m \in Messages
  PROVE  /\ Sent(dn, i, outcome, m) \in Channels
         /\ PingsUnder(n + 1, Sent(dn, i, outcome, m), un)
         /\ m.cmd # "PADDING" => PingsUnder(n, Sent(dn, i, outcome, m), un)
         /\ Sent(un, i, outcome, m) \in Channels
         /\ PingsUnder(n + 1, dn, Sent(un, i, outcome, m))
         /\ m.cmd # "PADDING" => PingsUnder(n, dn, Sent(un, i, outcome, m))
<1>1. PICK D : D = 0 .. 2 * N - 1
  OBVIOUS
<1>2. PICK j : j = i + N
  OBVIOUS
<1>3. PICK c : c = Both(dn, un)
  OBVIOUS
<1>4. Carry(c, D, Messages) /\ i \in D /\ j \in D
  BY <1>1, <1>2, <1>3, BothTyped DEF Carry
<1>5. AtMost(n, c) /\ AtMost(n + 1, c)
  BY <1>3, MoreNumbers DEF PingsUnder
<1>6. PICK x : x = [dn EXCEPT ![i] = Append(@, m)]
  OBVIOUS
<1>7. PICK y : y = [un EXCEPT ![i] = Append(@, m)]
  OBVIOUS
<1>8. x \in Channels /\ y \in Channels
  BY <1>6, <1>7 DEF Channels
<1>9. PICK d : d = Both(x, un)
  OBVIOUS
<1>10. PICK e : e = Both(dn, y)
  OBVIOUS
<1>11. Sends(c, d, i, m) /\ Sends(c, e, j, m)
  <2>1. Sends(dn, x, i, m) /\ Sends(un, y, i, m)
    BY <1>6, <1>7 DEF Sends
  <2>2. QED
    BY <1>2, <1>3, <1>9, <1>10, <2>1, BothMove
<1>12. AtMost(n + 1, d) /\ (m.cmd # "PADDING" => AtMost(n, d))
  BY <1>4, <1>5, <1>11, SendPings
<1>13. AtMost(n + 1, e) /\ (m.cmd # "PADDING" => AtMost(n, e))
  BY <1>4, <1>5, <1>11, SendPings
<1>14. /\ Sent(dn, i, outcome, m) \in {x, dn}
       /\ Sent(un, i, outcome, m) \in {y, un}
  BY <1>6, <1>7 DEF Sent
<1>15. PingsUnder(n + 1, dn, un) /\ PingsUnder(n + 1, x, un) /\ PingsUnder(n + 1, dn, y)
  BY <1>3, <1>5, <1>9, <1>10, <1>12, <1>13 DEF PingsUnder
<1>16. m.cmd # "PADDING" => PingsUnder(n, x, un) /\ PingsUnder(n, dn, y)
  BY <1>9, <1>10, <1>12, <1>13 DEF PingsUnder
<1>17. QED
  BY <1>8, <1>14, <1>15, <1>16

(* One relay's layer, put on or taken off, leaves a message of its kind.   *)
LEMMA OneLayer ==
  ASSUME NEW m \in Messages, NEW r \in Relays
  PROVE  /\ Encrypt(m, r) \in Messages /\ Encrypt(m, r).cmd = m.cmd
         /\ Decrypt(m, r) \in Messages /\ Decrypt(m, r).cmd = m.cmd
<1>1. m.layers \in Seq(-N .. N) /\ r \in -N .. N /\ -r \in -N .. N
  BY SmallFacts DEF Messages, Relays
<1>2. /\ \A k \in -N .. N : <<k>> \o m.layers \in Seq(-N .. N)
      /\ m.layers # <<>> => Tail(m.layers) \in Seq(-N .. N)
  <2>1. \A S, s : s \in Seq(S) => /\ \A k \in S : <<k>> \o s \in Seq(S)
                                  /\ s # <<>> => Tail(s) \in Seq(S)
    OBVIOUS
  <2>2. QED
    BY <1>1, <2>1
<1>3. QED
  BY <1>1, <1>2 DEF Encrypt, Decrypt, Messages

(* The client's decryptions take the layers of a message off that comes    *)
(* over the first link, the first relay's first.                           *)
LEMMA ClientUnwraps ==
  ASSUME NEW c \in 0 .. N, NEW m \in Messages, m.layers = Layers(c, 0)
  PROVE  ClientDecrypt(m, c) = With(m, Layers(c, c))
<1> DEFINE F(f) == [i \in 0 .. c |-> IF i = 0 THEN m ELSE Decrypt(f[i - 1], i)]
           after == CHOOSE f : f = F(f)
           g == [i \in 0 .. c |-> With(m, Layers(c, i))]
<1>0. c \in Nat
  BY CircuitAssumption
<1>1. ClientDecrypt(m, c) = after[c]
  BY DEF ClientDecrypt
<1>2. With(m, Layers(c, 0)) = m
  BY DEF With, Messages
<1>3. ASSUME NEW i \in 1 .. c
      PROVE  Decrypt(With(m, Layers(c, i - 1)), i) = With(m, Layers(c, i))
  <2>1. i - 1 \in Nat
    BY <1>0
  <2>2. PICK x \in Messages : x = With(m, Layers(c, i - 1)) /\ x.layers = Layers(c, i - 1)
    BY <2>1, WithType
  <2>3. Decrypt(x, i) = With(x, Layers(c, i))
    BY <2>2, Unwraps
  <2>4. With(x, Layers(c, i)) = With(m, Layers(c, i))
    BY <2>2 DEF With
  <2>5. QED
    BY <2>2, <2>3, <2>4
<1>4. \A i \in 0 .. c : g[i] = IF i = 0 THEN m ELSE Decrypt(g[i - 1], i)
  <2>1. ASSUME NEW i \in 1 .. c
        PROVE  g[i] = Decrypt(g[i - 1], i)
    <3>1. i \in 0 .. c /\ i - 1 \in 0 .. c
      BY <1>0
    <3>2. g[i] = With(m, Layers(c, i)) /\ g[i - 1] = With(m, Layers(c, i - 1))
      BY <3>1
    <3>3. QED
      BY <1>3, <3>2
  <2>2. \A i \in 0 .. c : i = 0 \/ i \in 1 .. c
    BY <1>0
  <2>3. g[0] = m
    BY <1>0, <1>2
  <2>4. QED
    BY <2>1, <2>2, <2>3
<1>5. after = F(after)
  <2>1. g = F(g)
    BY <1>4
  <2>2. \E f : f = F(f)
    BY <2>1
  <2>3. QED
    BY <2>2
<1> HIDE DEF after, g
<1> DEFINE G == {i \in Nat : after[i] = g[i]}
<1>6. 0 \in G
  BY <1>0, <1>4, <1>5
<1>7. \A i \in 0 .. c - 1 : i \in G => i + 1 \in G
  <2> SUFFICES ASSUME NEW i \in 0 .. c - 1, after[i] = g[i]
               PROVE  after[i + 1] = g[i + 1]
    BY <1>0
  <2>1. i + 1 \in 0 .. c /\ i + 1 # 0 /\ (i + 1) - 1 = i
    BY <1>0
  <2>2. after[i + 1] = Decrypt(after[i], i + 1)
    BY <1>5, <2>1
  <2>3. g[i + 1] = Decrypt(g[i], i + 1)
    BY <1>4, <2>1
  <2>4. QED
    BY <2>2, <2>3
<1> HIDE DEF G
<1>8. \A i \in 0 .. c : i \in G
  BY <1>0, <1>6, <1>7, UpTo
<1>9. after[c] = g[c]
  BY <1>0, <1>8 DEF G
<1>10. g[c] = With(m, Layers(c, c))
  BY <1>0 DEF g
<1>11. QED
  BY <1>1, <1>9, <1>10

(* What the client sends is the message it encrypts.                       *)
LEMMA ClientMakes ==
  ASSUME NEW c \in 0 .. N, NEW m \in Messages, m.layers = <<>>
  PROVE  ClientEncrypt(m, c) \in Messages /\ ClientEncrypt(m, c).cmd = m.cmd
<1>1. ClientEncrypt(m, c) = With(m, Layers(c, 0))
  BY ClientWraps
<1>2. QED
  BY <1>1, WithType

-----------------------------------------------------------------------------
(* The inductive invariant: a ping the user has not seen come back for     *)
(* every one that is under way, in either direction.                       *)
PingInv ==
    /\ streams \in BOOLEAN
    /\ cells \in 0 .. MaxCells /\ events \in 0 .. MaxEvents /\ crashes \in 0 .. MaxCrashes
    /\ pings <= cells
    /\ PingsUnder(pings, down, up)

(* What the circuit's own invariant says of its channels, and where links  *)
(* of relays are.                                                          *)
LEMMA CircuitLinks ==
  ASSUME CircuitInv
  PROVE  /\ down \in Channels /\ up \in Channels /\ 0 \in Links /\ cur_relays \in 0 .. N
         /\ \A r \in Relays : /\ r - 1 \in Links
                              /\ relay[r] \in {"exttls", "extending", "middle"} => r \in Links
<1>1. Sound(client, cur_relays, relay, far[0], down, up)
  BY DEF CircuitInv
<1>2. \A r \in Relays : relay[r] \in {"exttls", "extending", "middle"} => r < N
  BY <1>1, Places
<1>3. \A r \in Relays : r - 1 \in Links /\ (r < N => r \in Links)
  BY SmallFacts DEF Relays, Links
<1>4. QED
  BY <1>1, <1>2, <1>3, SmallFacts DEF Sound, StateTypes

(* A step that leaves budgets and streams alone.                           *)
LEMMA PingsKept ==
  ASSUME PingInv, streams' \in BOOLEAN, UNCHANGED <<pings, budgets>>, PingsUnder(pings, down', up')
  PROVE  PingInv'
<1>1. pings' = pings /\ cells' = cells /\ events' = events /\ crashes' = crashes
  BY DEF budgets
<1>2. PingsUnder(pings, down, up)' <=> PingsUnder(pings', down', up')
  BY DEF PingsUnder, Both, AtMost, Numbers
<1>3. QED
  BY <1>1, <1>2 DEF PingInv

(* A message that goes on, or back, on another link.                       *)
LEMMA HandedOn ==
  ASSUME NEW n, NEW dn \in Channels, NEW un \in Channels, PingsUnder(n, dn, un),
         NEW i \in Links, NEW j \in Links, NEW outcome, NEW m \in Messages
  PROVE  /\ Readable(dn, i) /\ m.cmd = Head(dn[i]).cmd =>
               /\ PingsUnder(n, Sent(Received(dn, i), j, outcome, m), un)
               /\ PingsUnder(n, Received(dn, i), Sent(un, j, outcome, m))
         /\ Readable(un, i) /\ m.cmd = Head(un[i]).cmd =>
               PingsUnder(n, dn, Sent(Received(un, i), j, outcome, m))
<1>1. n \in Nat
  BY DEF PingsUnder, AtMost
<1>2. (n - 1) + 1 = n
  BY <1>1
<1>3. ASSUME Readable(dn, i), m.cmd = Head(dn[i]).cmd
      PROVE  /\ PingsUnder(n, Sent(Received(dn, i), j, outcome, m), un)
             /\ PingsUnder(n, Received(dn, i), Sent(un, j, outcome, m))
  <2>1. PICK x : x = Received(dn, i)
    OBVIOUS
  <2>2. x \in Channels /\ PingsUnder(n, x, un) /\ (m.cmd = "PADDING" => PingsUnder(n - 1, x, un))
    BY <1>3, <2>1, ReadPing
  <2>3. CASE m.cmd = "PADDING"
    <3>1. PICK k : k = n - 1
      OBVIOUS
    <3>2. /\ PingsUnder(k + 1, Sent(x, j, outcome, m), un)
          /\ PingsUnder(k + 1, x, Sent(un, j, outcome, m))
      BY <2>2, <2>3, <3>1, SendPing
    <3>3. QED
      BY <1>2, <2>1, <3>1, <3>2
  <2>4. CASE m.cmd # "PADDING"
    BY <2>1, <2>2, <2>4, SendPing
  <2>5. QED
    BY <2>3, <2>4
<1>4. ASSUME Readable(un, i), m.cmd = Head(un[i]).cmd
      PROVE  PingsUnder(n, dn, Sent(Received(un, i), j, outcome, m))
  <2>1. PICK x : x = Received(un, i)
    OBVIOUS
  <2>2. x \in Channels /\ PingsUnder(n, dn, x) /\ (m.cmd = "PADDING" => PingsUnder(n - 1, dn, x))
    BY <1>4, <2>1, ReadPing
  <2>3. CASE m.cmd = "PADDING"
    <3>1. PICK k : k = n - 1
      OBVIOUS
    <3>2. PingsUnder(k + 1, dn, Sent(x, j, outcome, m))
      BY <2>2, <2>3, <3>1, SendPing
    <3>3. QED
      BY <1>2, <2>1, <3>1, <3>2
  <2>4. CASE m.cmd # "PADDING"
    BY <2>1, <2>2, <2>4, SendPing
  <2>5. QED
    BY <2>3, <2>4
<1>5. QED
  BY <1>3, <1>4

(* A step that reads the next message of a link, or none, and sends none.  *)
LEMMA OnlyReads ==
  ASSUME CircuitInv, PingInv, NEW i \in Links
  PROVE  /\ PingsUnder(pings, down, up)
         /\ Readable(down, i) => PingsUnder(pings, Received(down, i), up)
         /\ Readable(up, i) => PingsUnder(pings, down, Received(up, i))
BY CircuitLinks, ReadPing DEF PingInv

-----------------------------------------------------------------------------
(* connect_server_by_sockaddr sends nothing.                               *)
LEMMA ConnectPings ==
  ASSUME CircuitInv, PingInv, ClientConnect
  PROVE  PingInv'
BY PingsKept DEF ClientConnect, PingInv

(* handle_tls_sender and CREATE are no pings.                              *)
LEMMA ClientTlsPings ==
  ASSUME CircuitInv, PingInv, ClientTls
  PROVE  PingInv'
<1>1. streams' = streams /\ UNCHANGED <<pings, budgets>>
  BY DEF ClientTls
<1>2. CASE down' = down /\ up' = up
  BY <1>1, <1>2, PingsKept DEF PingInv
<1>3. CASE Readable(up, 0) /\ up' = Received(up, 0)
           /\ \E outcome \in Outcomes(far[0]) :
                 down' = Sent(Sent(down, 0, outcome, Key), 0, outcome, Create)
  <2>1. PICK outcome : down' = Sent(Sent(down, 0, outcome, Key), 0, outcome, Create)
    BY <1>3
  <2>2. PICK x : x = Sent(down, 0, outcome, Key)
    OBVIOUS
  <2>3. /\ Key \in Messages /\ Key.cmd # "PADDING"
        /\ Create \in Messages /\ Create.cmd # "PADDING"
    BY MessageTypes DEF Key, Create
  <2>4. up' \in Channels /\ PingsUnder(pings, down, up') /\ down \in Channels /\ 0 \in Links
    BY <1>3, CircuitLinks, ReadPing DEF PingInv
  <2>5. x \in Channels /\ PingsUnder(pings, x, up')
    BY <2>2, <2>3, <2>4, SendPing
  <2>6. PingsUnder(pings, down', up')
    BY <2>1, <2>2, <2>3, <2>4, <2>5, SendPing
  <2>7. QED
    BY <1>1, <2>6, PingsKept DEF PingInv
<1>4. QED
  BY <1>2, <1>3 DEF ClientTls

(* One turn of create_relay_circuit sends EXTEND or nothing.               *)
LEMMA NextHopPings ==
  ASSUME CircuitInv, PingInv, NEW n \in 0 .. N, NextHop(n), NEW un \in Channels,
         PingsUnder(pings, down, un)
  PROVE  PingsUnder(pings, down', un)
<1>1. CASE down' = down
  BY <1>1
<1>2. CASE \E outcome : down' = Sent(down, 0, outcome, ClientEncrypt(Relayed("EXTEND"), n))
  <2>1. PICK outcome : down' = Sent(down, 0, outcome, ClientEncrypt(Relayed("EXTEND"), n))
    BY <1>2
  <2>2. /\ Relayed("EXTEND") \in Messages
        /\ Relayed("EXTEND").layers = <<>> /\ Relayed("EXTEND").cmd # "PADDING"
    BY MessageTypes DEF Relayed, RelayCommands
  <2>3. PICK m \in Messages : m = ClientEncrypt(Relayed("EXTEND"), n) /\ m.cmd # "PADDING"
    BY <2>2, ClientMakes
  <2>4. QED
    BY <2>1, <2>3, CircuitLinks, SendPing
<1>3. QED
  BY <1>1, <1>2 DEF NextHop

(* handle_create_message may go on with an EXTEND.                         *)
LEMMA CreatedPings ==
  ASSUME CircuitInv, PingInv, ClientCreated
  PROVE  PingInv'
<1>1. streams' = streams /\ UNCHANGED <<pings, budgets>> /\ 1 \in 0 .. N
  BY SmallFacts DEF ClientCreated
<1>2. up' \in Channels /\ PingsUnder(pings, down, up')
  BY CircuitLinks, ReadPing DEF ClientCreated, PingInv
<1>3. down' = down \/ NextHop(1)
  BY DEF ClientCreated
<1>4. PingsUnder(pings, down', up')
  BY <1>1, <1>2, <1>3, NextHopPings
<1>5. QED
  BY <1>1, <1>4, PingsKept DEF PingInv

(* create_relay_circuit may go on with another.                            *)
LEMMA ExtendedPings ==
  ASSUME CircuitInv, PingInv, ClientExtended
  PROVE  PingInv'
<1>1. streams' = streams /\ UNCHANGED <<pings, budgets>>
  BY DEF ClientExtended
<1>2. cur_relays + 1 \in 0 .. N
  BY SmallFacts DEF ClientExtended, CircuitInv, Sound, ClientOK
<1>3. up' \in Channels /\ PingsUnder(pings, down, up')
  BY CircuitLinks, ReadPing DEF ClientExtended, PingInv
<1>4. down' = down \/ NextHop(cur_relays + 1)
  BY DEF ClientExtended
<1>5. PingsUnder(pings, down', up')
  BY <1>2, <1>3, <1>4, NextHopPings
<1>6. QED
  BY <1>1, <1>5, PingsKept DEF PingInv

(* The user's ping is one more to come back, whether it could be sent or   *)
(* not.                                                                    *)
LEMMA UserSendsPings ==
  ASSUME CircuitInv, PingInv, UserSends
  PROVE  PingInv'
<1>1. /\ cells < MaxCells /\ cells' = cells + 1
      /\ streams' = streams /\ events' = events /\ crashes' = crashes /\ up' = up
  BY DEF UserSends
<1>2. PICK m \in {Padding, Relayed("CELL")}, outcome \in Outcomes(far[0]) :
         /\ down' = Sent(down, 0, outcome, ClientEncrypt(m, cur_relays))
         /\ pings' = IF m.cmd = "PADDING" THEN pings + 1 ELSE pings
  BY DEF UserSends
<1>3. m \in Messages /\ m.layers = <<>>
  BY MessageTypes DEF Padding, Relayed, RelayCommands
<1>4. PICK x \in Messages : x = ClientEncrypt(m, cur_relays) /\ x.cmd = m.cmd
  BY <1>3, CircuitLinks, ClientMakes
<1>5. /\ PingsUnder(pings + 1, down', up)
      /\ x.cmd # "PADDING" => PingsUnder(pings, down', up)
  BY <1>2, <1>4, CircuitLinks, SendPing DEF PingInv
<1>6. PingsUnder(pings', down', up')
  BY <1>1, <1>2, <1>4, <1>5
<1>7. pings \in Nat
  BY DEF PingInv, PingsUnder, AtMost
<1>8. cells' \in 0 .. MaxCells /\ pings' <= cells'
  BY <1>1, <1>2, <1>7, CircuitAssumption DEF PingInv
<1>9. PingsUnder(pings, down, up)' <=> PingsUnder(pings', down', up')
  BY DEF PingsUnder, Both, AtMost, Numbers
<1>10. QED
  BY <1>1, <1>6, <1>8, <1>9 DEF PingInv

(* TOR_DESTROY is no ping.                                                 *)
LEMMA UserDestroysPings ==
  ASSUME CircuitInv, PingInv, UserDestroys
  PROVE  PingInv'
<1>1. streams' = streams /\ UNCHANGED <<pings, budgets>> /\ up' = up
  BY DEF UserDestroys
<1>2. PICK outcome : down' = Sent(down, 0, outcome, ClientEncrypt(Destroy, cur_relays))
  BY DEF UserDestroys
<1>3. Destroy \in Messages /\ Destroy.layers = <<>> /\ Destroy.cmd # "PADDING"
  BY MessageTypes DEF Destroy
<1>4. PICK m \in Messages : m = ClientEncrypt(Destroy, cur_relays) /\ m.cmd # "PADDING"
  BY <1>3, CircuitLinks, ClientMakes
<1>5. PingsUnder(pings, down', up)
  BY <1>2, <1>4, CircuitLinks, SendPing DEF PingInv
<1>6. QED
  BY <1>1, <1>5, PingsKept DEF PingInv

(* The user's exit sends nothing.                                          *)
LEMMA UserExitsPings ==
  ASSUME CircuitInv, PingInv, UserExits
  PROVE  PingInv'
BY PingsKept DEF UserExits, PingInv

(* What the client takes for a ping that came back is one: one was under   *)
(* way.                                                                    *)
LEMMA ClientReceivesPings ==
  ASSUME CircuitInv, PingInv, ClientReceives
  PROVE  PingInv'
<1>1. /\ streams' = streams /\ UNCHANGED budgets /\ down' = down /\ cur_relays = N
      /\ Sound(client, cur_relays, relay, far[0], down, up)
  BY DEF ClientReceives, CircuitInv, Sound, ClientOK
<1>2. CASE up' = up /\ pings' = pings
  BY <1>1, <1>2, PingsKept DEF PingInv
<1>3. CASE Readable(up, 0) /\ up' = Received(up, 0)
           /\ pings' = IF ClientDecrypt(Head(up[0]), cur_relays) = Padding
                       THEN pings - 1 ELSE pings
  <2>1. PICK i \in 0 .. N - 1 : i = 0
    BY SmallFacts
  <2>2. up[i] # <<>>
    BY <1>3, <2>1 DEF Readable
  <2>3. CellsOK(N, relay, down, up)
    BY <1>1, <2>1, <2>2 DEF Sound, CutOff
  <2>4. up[i] \in Seq(UpCells(N, i))
    BY <2>3 DEF CellsOK, TrafficOK
  <2>5. Head(up[i]) \in UpCells(N, i)
    BY <2>2, <2>4
  <2>6. PICK m \in Messages : m = Head(up[0]) /\ m.layers = Layers(N, 0)
    BY <2>1, <2>5 DEF UpCells
  <2>7. N \in 0 .. N
    BY SmallFacts
  <2>8. ClientDecrypt(m, N) = With(m, Layers(N, N)) /\ With(m, Layers(N, N)).cmd = m.cmd
    BY <2>6, <2>7, ClientUnwraps, WithType, SmallFacts
  <2>9. ClientDecrypt(m, N) = Padding => m.cmd = "PADDING"
    BY <2>8 DEF Padding
  <2>10. /\ PingsUnder(pings, down, up')
         /\ m.cmd = "PADDING" => PingsUnder(pings - 1, down, up')
    BY <1>3, <2>6, CircuitLinks, ReadPing DEF PingInv
  <2>11. PingsUnder(pings', down', up')
    BY <1>1, <1>3, <2>6, <2>9, <2>10
  <2>12. pings \in Nat /\ pings' <= pings
    BY <1>3 DEF PingInv, PingsUnder, AtMost
  <2>13. pings' <= cells /\ pings' \in Nat
    BY <2>11, <2>12, CircuitAssumption DEF PingInv, PingsUnder, AtMost
  <2>14. PingsUnder(pings, down, up)' <=> PingsUnder(pings', down', up')
    BY DEF PingsUnder, Both, AtMost, Numbers
  <2>15. QED
    BY <1>1, <2>11, <2>13, <2>14 DEF PingInv, budgets
<1>4. QED
  BY <1>2, <1>3 DEF ClientReceives

-----------------------------------------------------------------------------
(* handle_tls_recviever sends the relay's key.                             *)
LEMMA AcceptsPings ==
  ASSUME CircuitInv, PingInv, NEW r \in Relays, RelayAccepts(r)
  PROVE  PingInv'
<1>1. streams' = streams /\ UNCHANGED <<pings, budgets>> /\ down' = down
  BY DEF RelayAccepts
<1>2. PICK outcome : up' = Sent(up, r - 1, outcome, Key)
  BY DEF RelayAccepts
<1>3. Key \in Messages /\ Key.cmd # "PADDING"
  BY MessageTypes DEF Key
<1>4. PingsUnder(pings, down, up')
  BY <1>2, <1>3, CircuitLinks, SendPing DEF PingInv
<1>5. QED
  BY <1>1, <1>4, PingsKept DEF PingInv

(* It reads the client's.                                                  *)
LEMMA TlsPings ==
  ASSUME CircuitInv, PingInv, NEW r \in Relays, RelayTls(r)
  PROVE  PingInv'
<1>1. streams' = streams /\ UNCHANGED <<pings, budgets>> /\ up' = up
  BY DEF RelayTls
<1>2. PingsUnder(pings, down', up)
  BY CircuitLinks, OnlyReads DEF RelayTls
<1>3. QED
  BY <1>1, <1>2, PingsKept DEF PingInv

(* handle_create_message of a relay sends CREATED.                         *)
LEMMA CreatePings ==
  ASSUME CircuitInv, PingInv, NEW r \in Relays, RelayCreate(r)
  PROVE  PingInv'
<1>1. streams' = streams /\ UNCHANGED <<pings, budgets>>
  BY DEF RelayCreate
<1>2. down' \in Channels /\ PingsUnder(pings, down', up)
  BY CircuitLinks, ReadPing DEF RelayCreate, PingInv
<1>3. up' = up \/ \E outcome : up' = Sent(up, r - 1, outcome, Created)
  BY DEF RelayCreate
<1>4. Created \in Messages /\ Created.cmd # "PADDING"
  BY MessageTypes DEF Created
<1>5. PingsUnder(pings, down', up')
  BY <1>2, <1>3, <1>4, CircuitLinks, SendPing
<1>6. QED
  BY <1>1, <1>5, PingsKept DEF PingInv

(* The exit relay, or the one that becomes it, has read a message: a ping  *)
(* goes back in its place, a stream's answer is none.                      *)
LEMMA HandlesPings ==
  ASSUME CircuitInv, PingInv, NEW r \in Relays, UNCHANGED <<pings, budgets>>,
         Readable(down, r - 1), down' = Received(down, r - 1),
         ExitHandles(r, Decrypt(Head(down[r - 1]), r))
  PROVE  PingInv'
<1>1. down' \in Channels /\ Head(down[r - 1]) \in Messages /\ PingsUnder(pings, down', up)
  BY CircuitLinks, ReadPing DEF PingInv
<1>2. PICK m \in Messages : m = Decrypt(Head(down[r - 1]), r) /\ m.cmd = Head(down[r - 1]).cmd
  BY <1>1, OneLayer
<1>3. ExitHandles(r, m)
  BY <1>2
<1>4. streams' \in BOOLEAN
  BY <1>3 DEF ExitHandles, PingInv
<1>5. CASE up' = up
  BY <1>1, <1>4, <1>5, PingsKept
<1>6. CASE m.cmd = "PADDING"
  <2>1. PICK outcome : up' = Sent(up, r - 1, outcome, Echo(r, m))
    BY <1>3, <1>6 DEF ExitHandles
  <2>2. PICK x \in Messages : x = Echo(r, m) /\ x.cmd = m.cmd
    BY OneLayer DEF Echo
  <2>3. x.cmd = Head(down[r - 1]).cmd
    BY <1>2, <2>2
  <2>4. PingsUnder(pings, Received(down, r - 1), Sent(up, r - 1, outcome, x))
    BY <2>3, CircuitLinks, HandedOn DEF PingInv
  <2>5. QED
    BY <1>4, <2>1, <2>2, <2>4, PingsKept
<1>7. CASE \E outcome : up' = Sent(up, r - 1, outcome, Encrypt(Relayed("CELL"), r))
  <2>1. PICK outcome : up' = Sent(up, r - 1, outcome, Encrypt(Relayed("CELL"), r))
    BY <1>7
  <2>2. Relayed("CELL") \in Messages /\ Relayed("CELL").cmd # "PADDING"
    BY MessageTypes DEF Relayed, RelayCommands
  <2>3. PICK x \in Messages : x = Encrypt(Relayed("CELL"), r) /\ x.cmd # "PADDING"
    BY <2>2, OneLayer
  <2>4. PingsUnder(pings, down', up')
    BY <1>1, <2>1, <2>3, CircuitLinks, SendPing
  <2>5. QED
    BY <1>4, <2>4, PingsKept
<1>8. QED
  BY <1>3, <1>5, <1>6, <1>7 DEF ExitHandles

(* process_relay_session: the second message is answered, or it calls the *)
(* next relay.                                                             *)
LEMMA SecondPings ==
  ASSUME CircuitInv, PingInv, NEW r \in Relays, RelaySecond(r)
  PROVE  PingInv'
<1>1. UNCHANGED <<pings, budgets>>
  BY DEF RelaySecond
<1>2. CASE down' = down /\ up' = up /\ streams' = streams
  BY <1>1, <1>2, PingsKept DEF PingInv
<1>3. CASE Readable(down, r - 1) /\ down' = Received(down, r - 1) /\ RelayConnects(r)
  <2>1. up' = up /\ streams' = streams
    BY <1>3 DEF RelayConnects
  <2>2. PingsUnder(pings, down', up')
    BY <1>3, <2>1, CircuitLinks, OnlyReads
  <2>3. QED
    BY <1>1, <2>1, <2>2, PingsKept DEF PingInv
<1>4. CASE /\ Readable(down, r - 1) /\ down' = Received(down, r - 1)
           /\ ExitHandles(r, Decrypt(Head(down[r - 1]), r))
  BY <1>1, <1>4, HandlesPings
<1>5. QED
  BY <1>2, <1>3, <1>4 DEF RelaySecond

(* extend_relay sends its key and CREATE.                                  *)
LEMMA ExtendTlsPings ==
  ASSUME CircuitInv, PingInv, NEW r \in Relays, RelayExtendTls(r)
  PROVE  PingInv'
<1>1. streams' = streams /\ UNCHANGED <<pings, budgets>> /\ r \in Links
  BY CircuitLinks DEF RelayExtendTls
<1>2. CASE down' = down /\ up' = up
  BY <1>1, <1>2, PingsKept DEF PingInv
<1>3. CASE Readable(up, r) /\ up' = Received(up, r)
           /\ \E outcome \in Outcomes(far[r]) :
                 down' = Sent(Sent(down, r, outcome, Key), r, outcome, Create)
  <2>1. PICK outcome : down' = Sent(Sent(down, r, outcome, Key), r, outcome, Create)
    BY <1>3
  <2>2. PICK x : x = Sent(down, r, outcome, Key)
    OBVIOUS
  <2>3. /\ Key \in Messages /\ Key.cmd # "PADDING"
        /\ Create \in Messages /\ Create.cmd # "PADDING"
    BY MessageTypes DEF Key, Create
  <2>4. up' \in Channels /\ PingsUnder(pings, down, up') /\ down \in Channels
    BY <1>1, <1>3, CircuitLinks, ReadPing DEF PingInv
  <2>5. x \in Channels /\ PingsUnder(pings, x, up')
    BY <1>1, <2>2, <2>3, <2>4, SendPing
  <2>6. PingsUnder(pings, down', up')
    BY <1>1, <2>1, <2>2, <2>3, <2>4, <2>5, SendPing
  <2>7. QED
    BY <1>1, <2>6, PingsKept DEF PingInv
<1>4. QED
  BY <1>2, <1>3 DEF RelayExtendTls

(* extend_relay sends EXTENDED.                                            *)
LEMMA RelayExtendedPings ==
  ASSUME CircuitInv, PingInv, NEW r \in Relays, RelayExtended(r)
  PROVE  PingInv'
<1>1. /\ streams' = streams /\ UNCHANGED <<pings, budgets>> /\ down' = down
      /\ r \in Links /\ r - 1 \in Links
  BY CircuitLinks DEF RelayExtended
<1>2. CASE up' = up
  BY <1>1, <1>2, PingsKept DEF PingInv
<1>3. CASE Readable(up, r) /\ up' = Received(up, r)
  <2>1. PingsUnder(pings, down', up')
    BY <1>1, <1>3, OnlyReads
  <2>2. QED
    BY <1>1, <2>1, PingsKept DEF PingInv
<1>4. CASE Readable(up, r)
           /\ \E outcome : up' = Sent(Received(up, r), r - 1, outcome, Encrypt(Relayed("EXTENDED"), r))
  <2>1. PICK outcome : up' = Sent(Received(up, r), r - 1, outcome, Encrypt(Relayed("EXTENDED"), r))
    BY <1>4
  <2>2. Relayed("EXTENDED") \in Messages /\ Relayed("EXTENDED").cmd # "PADDING"
    BY MessageTypes DEF Relayed, RelayCommands
  <2>3. PICK m \in Messages : m = Encrypt(Relayed("EXTENDED"), r) /\ m.cmd # "PADDING"
    BY <2>2, OneLayer
  <2>4. PICK x \in Channels : x = Received(up, r) /\ PingsUnder(pings, down, x)
    BY <1>1, <1>4, CircuitLinks, ReadPing DEF PingInv
  <2>5. PingsUnder(pings, down, up')
    BY <1>1, <2>1, <2>3, <2>4, CircuitLinks, SendPing
  <2>6. QED
    BY <1>1, <2>5, PingsKept DEF PingInv
<1>5. QED
  BY <1>2, <1>3, <1>4 DEF RelayExtended

(* handle_last_fd sends what it read.                                      *)
LEMMA ForwardsDownPings ==
  ASSUME CircuitInv, PingInv, NEW r \in Relays, MiddleForwardsDown(r)
  PROVE  PingInv'
<1>1. /\ streams' = streams /\ UNCHANGED <<pings, budgets>> /\ up' = up
      /\ r \in Links /\ r - 1 \in Links
  BY CircuitLinks DEF MiddleForwardsDown
<1>2. CASE down' = down
  BY <1>1, <1>2, PingsKept DEF PingInv
<1>3. CASE Readable(down, r - 1)
           /\ \E outcome : down' = Sent(Received(down, r - 1), r, outcome, Decrypt(Head(down[r - 1]), r))
  <2>1. PICK outcome : down' = Sent(Received(down, r - 1), r, outcome, Decrypt(Head(down[r - 1]), r))
    BY <1>3
  <2>2. Head(down[r - 1]) \in Messages
    BY <1>1, <1>3, CircuitLinks, ReadPing DEF PingInv
  <2>3. PICK m \in Messages : m = Decrypt(Head(down[r - 1]), r) /\ m.cmd = Head(down[r - 1]).cmd
    BY <2>2, OneLayer
  <2>4. PingsUnder(pings, Sent(Received(down, r - 1), r, outcome, m), up)
    BY <1>1, <1>3, <2>3, CircuitLinks, HandedOn DEF PingInv
  <2>5. QED
    BY <1>1, <2>1, <2>3, <2>4, PingsKept DEF PingInv
<1>4. QED
  BY <1>2, <1>3 DEF MiddleForwardsDown, Forwarded

(* handle_next_fd sends what it read.                                      *)
LEMMA ForwardsUpPings ==
  ASSUME CircuitInv, PingInv, NEW r \in Relays, MiddleForwardsUp(r)
  PROVE  PingInv'
<1>1. /\ streams' = streams /\ UNCHANGED <<pings, budgets>> /\ down' = down
      /\ r \in Links /\ r - 1 \in Links
  BY CircuitLinks DEF MiddleForwardsUp
<1>2. CASE up' = up
  BY <1>1, <1>2, PingsKept DEF PingInv
<1>3. CASE Readable(up, r)
           /\ \E outcome : up' = Sent(Received(up, r), r - 1, outcome, Encrypt(Head(up[r]), r))
  <2>1. PICK outcome : up' = Sent(Received(up, r), r - 1, outcome, Encrypt(Head(up[r]), r))
    BY <1>3
  <2>2. Head(up[r]) \in Messages
    BY <1>1, <1>3, CircuitLinks, ReadPing DEF PingInv
  <2>3. PICK m \in Messages : m = Encrypt(Head(up[r]), r) /\ m.cmd = Head(up[r]).cmd
    BY <2>2, OneLayer
  <2>4. PingsUnder(pings, down, Sent(Received(up, r), r - 1, outcome, m))
    BY <1>1, <1>3, <2>3, CircuitLinks, HandedOn DEF PingInv
  <2>5. QED
    BY <1>1, <2>1, <2>3, <2>4, PingsKept DEF PingInv
<1>4. QED
  BY <1>2, <1>3 DEF MiddleForwardsUp

(* handle_event of the exit relay.                                         *)
LEMMA ExitReceivesPings ==
  ASSUME CircuitInv, PingInv, NEW r \in Relays, ExitReceives(r)
  PROVE  PingInv'
<1>1. UNCHANGED <<pings, budgets>>
  BY DEF ExitReceives
<1>2. CASE down' = down /\ up' = up /\ streams' = streams
  BY <1>1, <1>2, PingsKept DEF PingInv
<1>3. CASE /\ Readable(down, r - 1) /\ down' = Received(down, r - 1)
           /\ ExitHandles(r, Decrypt(Head(down[r - 1]), r))
  BY <1>1, <1>3, HandlesPings
<1>4. QED
  BY <1>2, <1>3 DEF ExitReceives

(* handle_internet_event sends DATA or END.                                *)
LEMMA ExitInternetPings ==
  ASSUME CircuitInv, PingInv, NEW r \in Relays, ExitInternet(r)
  PROVE  PingInv'
<1>1. /\ events < MaxEvents /\ events' = events + 1 /\ streams' \in BOOLEAN
      /\ pings' = pings /\ cells' = cells /\ crashes' = crashes /\ down' = down
  BY DEF ExitInternet
<1>2. PICK outcome : up' = Sent(up, r - 1, outcome, Encrypt(Relayed("CELL"), r))
  BY DEF ExitInternet
<1>3. Relayed("CELL") \in Messages /\ Relayed("CELL").cmd # "PADDING"
  BY MessageTypes DEF Relayed, RelayCommands
<1>4. PICK m \in Messages : m = Encrypt(Relayed("CELL"), r) /\ m.cmd # "PADDING"
  BY <1>3, OneLayer
<1>5. PingsUnder(pings, down, up')
  BY <1>2, <1>4, CircuitLinks, SendPing DEF PingInv
<1>6. events' \in 0 .. MaxEvents
  BY <1>1, CircuitAssumption DEF PingInv
<1>7. PingsUnder(pings, down, up)' <=> PingsUnder(pings', down', up')
  BY DEF PingsUnder, Both, AtMost, Numbers
<1>8. QED
  BY <1>1, <1>5, <1>6, <1>7 DEF PingInv

(* A relay that stops sends nothing.                                       *)
LEMMA CrashPings ==
  ASSUME CircuitInv, PingInv, NEW r \in Relays, RelayCrashes(r)
  PROVE  PingInv'
<1>1. /\ crashes < MaxCrashes /\ crashes' = crashes + 1
      /\ UNCHANGED <<streams, pings, cells, events, down, up>>
  BY DEF RelayCrashes
<1>2. crashes' \in 0 .. MaxCrashes
  BY <1>1, CircuitAssumption DEF PingInv
<1>3. PingsUnder(pings, down, up)' <=> PingsUnder(pings', down', up')
  BY DEF PingsUnder, Both, AtMost, Numbers
<1>4. QED
  BY <1>1, <1>2, <1>3 DEF PingInv

(* Before the client connects no ping is under way.                        *)
LEMMA InitPings ==
  ASSUME Init
  PROVE  PingInv
<1>1. /\ streams = FALSE /\ pings = 0 /\ cells = 0 /\ events = 0 /\ crashes = 0
      /\ \A i \in Links : down[i] = <<>> /\ up[i] = <<>>
      /\ down \in Channels /\ up \in Channels
  <2>1. <<>> \in Seq(Messages)
    OBVIOUS
  <2>2. QED
    BY <2>1 DEF Init, Channels
<1>2. \A j \in 0 .. 2 * N - 1 : Both(down, up)[j] = <<>>
  <2>1. \A j \in 0 .. 2 * N - 1 : IF j < N THEN j \in Links ELSE j - N \in Links
    BY CircuitAssumption DEF Links
  <2>2. QED
    BY <1>1, <2>1 DEF Both
<1>3. DOMAIN Both(down, up) = 0 .. 2 * N - 1
  BY DEF Both
<1>4. \A j \in DOMAIN Both(down, up) : PingsIn(Both(down, up)[j]) = {}
  <2>1. PingsIn(<<>>) = {}
    BY DEF PingsIn
  <2>2. QED
    BY <1>2, <1>3, <2>1
<1>5. \A f : Numbers(f, Both(down, up), 0)
  BY <1>4 DEF Numbers
<1>6. PingsUnder(0, down, up)
  BY <1>5 DEF PingsUnder, AtMost
<1>7. PingsUnder(pings, down, up)
  BY <1>1, <1>6
<1>8. streams \in BOOLEAN
  BY DEF Init
<1>9. /\ pings <= cells
      /\ cells \in 0 .. MaxCells /\ events \in 0 .. MaxEvents /\ crashes \in 0 .. MaxCrashes
  BY <1>1, CircuitAssumption
<1>10. QED
  BY <1>7, <1>8, <1>9 DEF PingInv

(* No ping is ever doubled: whatever the relays echo, forward or lose and  *)
(* whoever stops, no more pings are under way than the user waits for.     *)
THEOREM PingsCounted == Spec => []PingInv
<1>1. Init => PingInv
  BY InitPings
<1>2. CircuitInv /\ PingInv /\ [Next]_vars => PingInv'
  <2> SUFFICES ASSUME CircuitInv, PingInv, [Next]_vars
               PROVE  PingInv'
    OBVIOUS
  <2>1. CASE ClientStep
    BY <2>1, ConnectPings, ClientTlsPings, CreatedPings, ExtendedPings, ClientReceivesPings
       DEF ClientStep
  <2>2. CASE UserStep
    BY <2>2, UserSendsPings, UserDestroysPings, UserExitsPings DEF UserStep
  <2>3. ASSUME NEW r \in Relays, RelayStep(r)
        PROVE  PingInv'
    BY <2>3, AcceptsPings, TlsPings, CreatePings, SecondPings, ExtendTlsPings, RelayExtendedPings
       DEF RelayStep
  <2>4. ASSUME NEW r \in Relays,
               \/ MiddleForwardsDown(r) \/ MiddleForwardsUp(r)
               \/ ExitReceives(r) \/ ExitInternet(r) \/ RelayCrashes(r)
        PROVE  PingInv'
    BY <2>4, ForwardsDownPings, ForwardsUpPings, ExitReceivesPings, ExitInternetPings, CrashPings
  <2>5. CASE UNCHANGED vars
    BY <2>5, PingsKept DEF vars, links, budgets, PingInv
  <2>6. QED
    BY <2>1, <2>2, <2>3, <2>4, <2>5 DEF Next
<1>3. QED
  BY <1>1, <1>2, CircuitSound, PTL DEF Spec

(* Every variable of the circuit keeps its type, and the client never      *)
(* counts down a ping it did not send: ClientReceives subtracts one from   *)
(* pings with nothing to keep it from going below zero.                    *)
THEOREM CircuitTypes == Spec => []TypeOK
<1>1. CircuitInv /\ PingInv => TypeOK
  <2> SUFFICES ASSUME CircuitInv, PingInv
               PROVE  TypeOK
    OBVIOUS
  <2>1. StateTypes(client, cur_relays, relay, far[0], down, up)
    BY DEF CircuitInv, Sound
  <2>2. pings \in 0 .. MaxCells
    BY CircuitAssumption DEF PingInv, PingsUnder, AtMost
  <2>3. QED
    BY <2>1, <2>2 DEF TypeOK, StateTypes, Channels, PingInv, CircuitInv, Ends
<1>2. QED
  BY <1>1, CircuitSound, PingsCounted, PTL

-----------------------------------------------------------------------------
(* What the layers of encryption do to the bytes of a message. *)

(* A block of the bytes, and messages as arrays of bytes. *)
BlockAt(data, first, t) == [j \in 1 .. AES_BYTES |-> data[first + t * AES_BYTES + j - 1]]
IsMessage(data) == data = [i \in Positions |-> data[i]]

(* Position i is byte j of the full block t of length bytes from first on. *)
InBlock(i, first, length, t, j) ==
    /\ t \in Nat /\ j \in 1 .. AES_BYTES
    /\ (t + 1) * AES_BYTES <= length
    /\ i = first + t * AES_BYTES + j - 1

(* Every position before the end of the full blocks is in one of them ... *)
LEMMA Placed ==
  ASSUME NEW first \in Nat, NEW length \in Nat, NEW i \in Nat, first <= i,
         i < first + AES_BYTES * (length \div AES_BYTES)
  PROVE  \E t, j : InBlock(i, first, length, t, j)
<1> DEFINE A == AES_BYTES
           x == i - first
           t == x \div A
           j == 1 + (x % A)
           full == length \div A
<1>1. A \in Nat \ {0} /\ x \in Nat
  BY CipherAssumption
<1>2. x < A * full
  BY <1>1
<1> HIDE DEF x, full, A
<1>3. t \in Nat /\ x % A \in 0 .. A - 1 /\ x = A * t + (x % A)
  BY <1>1, Division
<1>4. full \in Nat /\ length % A \in 0 .. A - 1 /\ length = A * full + (length % A)
  BY <1>1, Division DEF full
<1> HIDE DEF t
<1>5. A * full \in Nat /\ A * t \in Nat /\ A * full <= length
  <2>1. A * full \in Nat /\ A * t \in Nat
    BY <1>1, <1>3, <1>4, Growing
  <2>2. QED
    BY <1>4, <2>1
<1>6. t < full
  <2>1. full <= t => A * full <= A * t
    BY <1>1, <1>3, <1>4, Growing
  <2>2. QED
    BY <1>1, <1>2, <1>3, <1>4, <1>5, <2>1
<1>7. A * (t + 1) <= A * full
  BY <1>1, <1>3, <1>4, <1>6, Growing
<1>8. (t + 1) * A = A * (t + 1) /\ t * A = A * t
  BY <1>1, <1>3
<1>9. (t + 1) * A <= length
  <2>1. A * (t + 1) \in Nat
    BY <1>1, <1>3
  <2>2. QED
    BY <1>5, <1>7, <1>8, <2>1
<1>10. i = first + t * A + j - 1
  <2>1. i = first + x
    BY DEF x
  <2> DEFINE r == x % A
  <2>2. r \in Nat /\ x = t * A + r
    BY <1>1, <1>3, <1>5, <1>8
  <2> HIDE DEF r
  <2>3. i = first + t * A + (1 + r) - 1
    BY <1>5, <1>8, <2>1, <2>2
  <2>4. QED
    BY <2>3, Zenon DEF r
<1>11. InBlock(i, first, length, t, j)
  BY <1>1, <1>3, <1>9, <1>10 DEF InBlock, A
<1>12. QED
  BY <1>11

(* ... and the loop does to a full block what AES does to it. *)
LEMMA FullBlock ==
  ASSUME NEW op, NEW undo, NEW k, NEW data, NEW first \in Nat \ {0}, NEW length \in Nat,
         first + length - 1 <= TOR_MSG_SIZE,
         NEW i, NEW t, NEW j, InBlock(i, first, length, t, j)
  PROVE  Symmetric(op, undo, k, data, first, length)[i]
            = Aes128(op, undo, k, BlockAt(data, first, t))[j]
<1> DEFINE A == AES_BYTES
           turns == IF length = 0 THEN 0 ELSE (length - 1) \div A
           remainder == length - turns * A
           Block(n) == [m \in 1 .. A |-> IF n < turns \/ m <= remainder
                                         THEN data[first + n * A + m - 1] ELSE Zero]
<1>1. /\ A \in Nat \ {0} /\ TOR_MSG_SIZE \in Nat
      /\ t \in Nat /\ j \in 1 .. A /\ (t + 1) * A <= length /\ i = first + t * A + j - 1
  BY CipherAssumption DEF InBlock
<1>2. t * A \in Nat /\ (t + 1) * A = t * A + A
  BY <1>1
<1>3. i \in first .. first + length - 1 /\ i \in Positions
  BY <1>1, <1>2 DEF Positions
<1>4. (i - first) \div A = t /\ 1 + ((i - first) % A) = j
  <2>1. i - first = A * t + (j - 1) /\ j - 1 \in 0 .. A - 1 /\ i - first \in Nat
    BY <1>1, <1>2
  <2>2. (i - first) % A = j - 1
    <3>1. (A * t + (j - 1)) % A = j - 1
      BY <1>1, <2>1, Remainder
    <3>2. QED
      BY <2>1, <3>1
  <2> DEFINE q == (i - first) \div A
             r == (i - first) % A
             x == i - first
  <2>3. q \in Nat /\ x = A * q + r /\ r = j - 1 /\ x = A * t + (j - 1)
    BY <1>1, <2>1, <2>2, Division
  <2> HIDE DEF q, r, x
  <2>4. A * q = A * t
    <3>1. A * q \in Nat /\ A * t \in Nat
      BY <1>1, <2>3
    <3>2. QED
      BY <2>3, <3>1, <1>1
  <2>5. q = t
    BY <1>1, <2>3, <2>4
  <2>6. QED
    BY <1>1, <2>2, <2>5 DEF q
<1>5. turns \in Nat /\ length = turns * A + remainder /\ remainder \in 1 .. A
  <2>1. length > 0
    BY <1>1, <1>2
  <2>2. turns = (length - 1) \div A
    BY <2>1
  <2> DEFINE h == (length - 1) % A
  <2>3. turns \in Nat /\ h \in 0 .. A - 1 /\ length - 1 = A * turns + h
    BY <1>1, <2>1, <2>2
  <2> HIDE DEF turns, h
  <2>4. A * turns = turns * A
    BY <1>1, <2>3
  <2>5. QED
    BY <1>1, <2>3, <2>4
<1> HIDE DEF turns
<1>6. t < turns \/ (t = turns /\ remainder = A)
  <2>1. t * A + A <= turns * A + remainder
    BY <1>1, <1>2, <1>5
  <2>2. t >= turns + 1 => t * A >= turns * A + A
    <3>1. t >= turns + 1 => t * A >= (turns + 1) * A
      BY <1>1, <1>5
    <3>2. (turns + 1) * A = turns * A + A
      BY <1>1, <1>5
    <3>3. QED
      BY <3>1, <3>2
  <2>3. turns * A \in Nat
    BY <1>1, <1>5
  <2>4. ~(t >= turns + 1)
    BY <1>1, <1>2, <1>5, <2>1, <2>2, <2>3
  <2>5. t = turns => remainder = A
    BY <1>1, <1>5, <2>1, <2>3
  <2>6. QED
    BY <1>1, <1>5, <2>4, <2>5
<1>7. Block(t) = BlockAt(data, first, t)
  <2>1. \A m \in 1 .. A : t < turns \/ m <= remainder
    BY <1>1, <1>5, <1>6
  <2>2. QED
    BY <2>1 DEF BlockAt
<1>8. t \in 0 .. turns
  BY <1>1, <1>5, <1>6
<1>9. Symmetric(op, undo, k, data, first, length)
         = [n \in Positions |->
              IF n \in first .. first + length - 1
              THEN [m \in 0 .. turns |-> Aes128(op, undo, k, Block(m))]
                      [(n - first) \div A][1 + ((n - first) % A)]
              ELSE data[n]]
  BY Zenon DEF Symmetric, turns, remainder
<1>10. Symmetric(op, undo, k, data, first, length)[i]
          = [m \in 0 .. turns |-> Aes128(op, undo, k, Block(m))][t][j]
  <2> HIDE DEF Block
  <2>1. QED
    BY <1>3, <1>4, <1>9
<1>11. QED
  <2> HIDE DEF Block
  <2>1. [m \in 0 .. turns |-> Aes128(op, undo, k, Block(m))][t] = Aes128(op, undo, k, Block(t))
    BY <1>8
  <2>2. QED
    BY <1>7, <1>10, <2>1

(* What the bytes of a block under AES name. *)
LEMMA Terms ==
  ASSUME NEW op, NEW k, NEW B, NEW f, f = [j \in 1 .. AES_BYTES |-> <<op, k, B, j>>],
         NEW j \in 1 .. AES_BYTES
  PROVE  f[j][1] = op /\ f[j][2] = k /\ f[j][3] = B /\ f[j] = <<op, k, B, j>>
OBVIOUS

LEMMA BlockSize == AES_BYTES \in Nat \ {0} /\ 1 \in 1 .. AES_BYTES /\ AES_BYTES \in 1 .. AES_BYTES
<1>1. AES_BYTES \in Nat \ {0}
  BY CipherAssumption
<1>2. QED
  BY <1>1

(* What is not in first .. first + length - 1 stays as it is ... *)
LEMMA LeftAlone ==
  ASSUME NEW op, NEW undo, NEW k, NEW data, NEW first \in Nat, NEW length \in Nat
  PROVE  /\ IsMessage(Symmetric(op, undo, k, data, first, length))
         /\ \A i \in Positions : i \notin first .. first + length - 1 =>
               Symmetric(op, undo, k, data, first, length)[i] = data[i]
<1> DEFINE X == Symmetric(op, undo, k, data, first, length)
           Result(i) == [t \in 0 .. (IF length = 0 THEN 0 ELSE (length - 1) \div AES_BYTES) |->
             Aes128(op, undo, k, [j \in 1 .. AES_BYTES |->
               IF t < (IF length = 0 THEN 0 ELSE (length - 1) \div AES_BYTES)
                  \/ j <= length - (IF length = 0 THEN 0 ELSE (length - 1) \div AES_BYTES) * AES_BYTES
               THEN data[first + t * AES_BYTES + j - 1] ELSE Zero])]
             [(i - first) \div AES_BYTES][1 + ((i - first) % AES_BYTES)]
<1>1. X = [i \in Positions |-> IF i \in first .. first + length - 1 THEN Result(i) ELSE data[i]]
  BY Zenon DEF Symmetric
<1> HIDE DEF X, Result
<1>2. X = [i \in Positions |-> X[i]]
  BY <1>1, Zenon
<1>3. \A i \in Positions : i \notin first .. first + length - 1 => X[i] = data[i]
  BY <1>1, Zenon
<1>4. QED
  BY <1>2, <1>3, Zenon DEF IsMessage, X

(* ... and what is behind the last full block is wrapped, as the zeros it  *)
(* is filled up with are never the end of what the inverse gave.           *)
Wrapped(byte, op, k) == \E B, j : byte = <<op, k, B, j>>

LEMMA TailWraps ==
  ASSUME NEW op, NEW undo, undo # "zero", NEW k, NEW data,
         NEW first \in Nat \ {0}, NEW length \in Nat, first + length - 1 <= TOR_MSG_SIZE,
         NEW i \in first .. first + length - 1,
         i >= first + AES_BYTES * (length \div AES_BYTES)
  PROVE  Wrapped(Symmetric(op, undo, k, data, first, length)[i], op, k)
<1> DEFINE A == AES_BYTES
           turns == IF length = 0 THEN 0 ELSE (length - 1) \div A
           remainder == length - turns * A
           Block(n) == [m \in 1 .. A |-> IF n < turns \/ m <= remainder
                                         THEN data[first + n * A + m - 1] ELSE Zero]
           full == length \div A
           q == (i - first) \div A
           s == 1 + ((i - first) % A)
<1>1. A \in Nat \ {0} /\ TOR_MSG_SIZE \in Nat /\ length > 0 /\ i \in Positions /\ i - first \in Nat
  BY CipherAssumption DEF Positions
<1>2. /\ full \in Nat /\ length % A \in 0 .. A - 1 /\ length = A * full + (length % A)
      /\ i - first >= A * full /\ i - first < length
  <2>1. full \in Nat /\ length % A \in 0 .. A - 1 /\ length = A * full + (length % A)
    BY <1>1, Division
  <2>2. A * full \in Nat
    BY <1>1, <2>1
  <2> HIDE DEF full
  <2>3. i >= first + A * full
    BY DEF full
  <2>4. i - first >= A * full /\ i - first < length
    BY <1>1, <2>2, <2>3
  <2>5. QED
    BY <2>1, <2>4
<1>3. q \in Nat /\ s \in 1 .. A /\ i - first = A * q + (s - 1)
  <2> DEFINE r == (i - first) % A
             x == i - first
  <2>1. q \in Nat /\ r \in 0 .. A - 1 /\ x = A * q + r
    BY <1>1, Division
  <2>2. A * q \in Nat /\ s = 1 + r
    BY <1>1, <2>1
  <2> HIDE DEF q, s, r, x
  <2>3. q \in Nat /\ s \in 1 .. A /\ x = A * q + (s - 1)
    BY <1>1, <2>1, <2>2
  <2>4. QED
    BY <2>3 DEF x
<1>4. turns \in Nat /\ (length - 1) % A \in 0 .. A - 1 /\ length - 1 = A * turns + ((length - 1) % A)
  <2>1. turns = (length - 1) \div A /\ length - 1 \in Nat
    BY <1>1
  <2>2. QED
    BY <1>1, <2>1, Division
<1>5. q = turns /\ remainder \in 1 .. A - 1
  <2> DEFINE x == i - first
             h == length % A
             g == (length - 1) % A
             y == length - 1
  <2>1. /\ x = A * q + (s - 1) /\ x >= A * full /\ x <= y
        /\ length = A * full + h /\ h \in 0 .. A - 1
        /\ y = A * turns + g /\ g \in 0 .. A - 1 /\ y = length - 1
        /\ x \in Nat /\ y \in Nat
    BY <1>1, <1>2, <1>3, <1>4
  <2>2. turns * A = A * turns
    BY <1>1, <1>4
  <2> HIDE DEF x, h, g, y, q, s, full, turns
  <2>3. A * q \in Nat /\ A * full \in Nat /\ A * turns \in Nat
    BY <1>1, <1>2, <1>3, <1>4
  <2>4. A * (q + 1) = A * q + A /\ A * (full + 1) = A * full + A /\ A * (turns + 1) = A * turns + A
    BY <1>1, <1>2, <1>3, <1>4
  <2>5. ~(q + 1 <= full)
    <3>1. q + 1 <= full => A * (q + 1) <= A * full
      BY <1>1, <1>2, <1>3, Growing
    <3>2. QED
      BY <1>1, <1>3, <2>1, <2>3, <2>4, <3>1
  <2>6. ~(full + 1 <= q)
    <3>1. full + 1 <= q => A * (full + 1) <= A * q
      BY <1>1, <1>2, <1>3, Growing
    <3>2. QED
      BY <1>1, <1>3, <2>1, <2>3, <2>4, <3>1
  <2>7. q = full
    BY <1>2, <1>3, <2>5, <2>6
  <2>8. ~(q + 1 <= turns)
    <3>1. q + 1 <= turns => A * (q + 1) <= A * turns
      BY <1>1, <1>4, <1>3, Growing
    <3>2. QED
      BY <1>1, <1>3, <2>1, <2>3, <2>4, <2>7, <3>1
  <2>9. ~(turns + 1 <= q)
    <3>1. turns + 1 <= q => A * (turns + 1) <= A * q
      BY <1>1, <1>4, <1>3, Growing
    <3>2. QED
      BY <1>1, <1>3, <2>1, <2>3, <2>4, <3>1
  <2>10. q = turns
    BY <1>3, <1>4, <2>8, <2>9
  <2>11. remainder \in 1 .. A - 1
    BY <1>1, <2>1, <2>2, <2>3, <2>7, <2>10
  <2>12. QED
    BY <2>10, <2>11
<1> HIDE DEF turns, remainder
<1>6. Block(turns)[A] = Zero
  BY <1>1, <1>4, <1>5
<1>7. Block(turns) # [j \in 1 .. A |-> <<undo, k, Block(turns)[1][3], j>>]
  <2> DEFINE inner == Block(turns)[1][3]
             undone == [j \in 1 .. A |-> <<undo, k, inner, j>>]
  <2> HIDE DEF inner
  <2>1. undone = [j \in 1 .. AES_BYTES |-> <<undo, k, inner, j>>]
    OBVIOUS
  <2> HIDE DEF undone
  <2>2. undone[A][1] = undo
    BY <2>1, BlockSize, Terms
  <2>3. Zero[1] = "zero"
    BY DEF Zero
  <2> HIDE DEF Block
  <2>4. Block(turns) # undone
    BY <1>6, <2>2, <2>3
  <2>5. QED
    BY <2>4, Zenon DEF undone, inner
<1>8. Aes128(op, undo, k, Block(turns)) = [j \in 1 .. A |-> <<op, k, Block(turns), j>>]
  <2> HIDE DEF Block
  <2>1. QED
    BY <1>7, Zenon DEF Aes128
<1>9. Symmetric(op, undo, k, data, first, length)
         = [n \in Positions |->
              IF n \in first .. first + length - 1
              THEN [m \in 0 .. turns |-> Aes128(op, undo, k, Block(m))]
                      [(n - first) \div A][1 + ((n - first) % A)]
              ELSE data[n]]
  BY Zenon DEF Symmetric, turns, remainder
<1>10. Symmetric(op, undo, k, data, first, length)[i]
          = [m \in 0 .. turns |-> Aes128(op, undo, k, Block(m))][q][s]
  <2> HIDE DEF Block
  <2>1. QED
    BY <1>1, <1>9
<1>11. Symmetric(op, undo, k, data, first, length)[i] = <<op, k, Block(turns), s>>
  <2> HIDE DEF Block, q, s
  <2>1. [m \in 0 .. turns |-> Aes128(op, undo, k, Block(m))][q] = Aes128(op, undo, k, Block(turns))
    BY <1>4, <1>5
  <2>2. QED
    BY <1>3, <1>8, <1>10, <2>1
<1>12. QED
  BY <1>11, Zenon DEF Wrapped

(* AES wraps a block of which the first byte is not one that the inverse   *)
(* gave under the same key, and undoes one that it gave.                   *)
Wrap(op, k, block) == [j \in 1 .. AES_BYTES |-> <<op, k, block, j>>]

LEMMA AesWraps ==
  ASSUME NEW op, NEW undo, NEW k, NEW block, block[1][1] # undo \/ block[1][2] # k
  PROVE  Aes128(op, undo, k, block) = Wrap(op, k, block)
<1> DEFINE inner == block[1][3]
           undone == [j \in 1 .. AES_BYTES |-> <<undo, k, inner, j>>]
<1> HIDE DEF inner
<1>1. undone = [j \in 1 .. AES_BYTES |-> <<undo, k, inner, j>>]
  OBVIOUS
<1> HIDE DEF undone
<1>2. undone[1][1] = undo /\ undone[1][2] = k
  BY <1>1, BlockSize, Terms
<1>3. block # undone
  BY <1>2
<1>4. QED
  BY <1>3, Zenon DEF Aes128, undone, inner, Wrap

LEMMA AesUndoes ==
  ASSUME NEW op, NEW undo, NEW k, NEW inner
  PROVE  Aes128(op, undo, k, Wrap(undo, k, inner)) = inner
<1> DEFINE block == Wrap(undo, k, inner)
<1>1. block = [j \in 1 .. AES_BYTES |-> <<undo, k, inner, j>>]
  BY DEF Wrap
<1> HIDE DEF block
<1>2. block[1][3] = inner
  BY <1>1, BlockSize, Terms
<1>3. Aes128(op, undo, k, block) = inner
  BY <1>1, <1>2, Zenon DEF Aes128
<1>4. QED
  BY <1>3 DEF block

(* Block t of the length bytes from first on is a full one; where its      *)
(* byte j is.                                                              *)
FullIn(first, length, t) ==
    /\ first \in Nat \ {0} /\ length \in Nat /\ first + length - 1 <= TOR_MSG_SIZE
    /\ t \in Nat /\ (t + 1) * AES_BYTES <= length
At(first, t, j) == first + t * AES_BYTES + j - 1

LEMMA FullAt ==
  ASSUME NEW first, NEW length, NEW t, FullIn(first, length, t), NEW j \in 1 .. AES_BYTES
  PROVE  /\ At(first, t, j) \in Positions
         /\ At(first, t, j) \in first .. first + AES_BYTES * (length \div AES_BYTES) - 1
         /\ InBlock(At(first, t, j), first, length, t, j)
<1> DEFINE A == AES_BYTES
           full == length \div A
           i == At(first, t, j)
<1>1. A \in Nat \ {0} /\ TOR_MSG_SIZE \in Nat
  BY CipherAssumption
<1>2. /\ first \in Nat \ {0} /\ length \in Nat /\ first + length - 1 <= TOR_MSG_SIZE
      /\ t \in Nat /\ (t + 1) * A <= length
  BY DEF FullIn
<1>3. t * A \in Nat /\ (t + 1) * A = t * A + A /\ A * (t + 1) = t * A + A
  BY <1>1, <1>2
<1>4. i \in Nat /\ first <= i /\ i <= first + t * A + A - 1
  BY <1>1, <1>2, <1>3 DEF At
<1>5. i \in Positions
  <2> HIDE DEF i
  <2>1. i <= first + length - 1
    BY <1>1, <1>2, <1>3, <1>4
  <2>2. QED
    BY <1>1, <1>2, <1>4, <2>1 DEF Positions
<1>6. InBlock(i, first, length, t, j)
  BY <1>2 DEF InBlock, At
<1>7. t + 1 <= full
  <2>1. full \in Nat /\ length % A \in 0 .. A - 1 /\ length = A * full + (length % A)
    BY <1>1, <1>2, Division
  <2> HIDE DEF full
  <2>2. A * full \in Nat /\ A * (full + 1) = A * full + A
    BY <1>1, <2>1
  <2>3. full + 1 <= t + 1 => A * (full + 1) <= A * (t + 1)
    BY <1>1, <1>2, <2>1, Growing
  <2>4. QED
    BY <1>1, <1>2, <1>3, <2>1, <2>2, <2>3
<1>8. A * (t + 1) <= A * full /\ full \in Nat /\ A * full \in Nat
  <2>1. full \in Nat
    BY <1>1, <1>2, Division
  <2>2. QED
    BY <1>1, <1>2, <1>7, <2>1, Growing
<1>9. i \in first .. first + A * full - 1
  <2> HIDE DEF i, full
  <2>1. QED
    BY <1>1, <1>2, <1>3, <1>4, <1>8
<1>10. QED
  BY <1>5, <1>6, <1>9

LEMMA BlockByte ==
  ASSUME NEW data, NEW first, NEW t, NEW j \in 1 .. AES_BYTES
  PROVE  BlockAt(data, first, t)[j] = data[At(first, t, j)]
BY Zenon DEF BlockAt, At

LEMMA FullBlockAt ==
  ASSUME NEW op, NEW undo, NEW k, NEW data,
         NEW first, NEW length, NEW t, FullIn(first, length, t), NEW j \in 1 .. AES_BYTES
  PROVE  Symmetric(op, undo, k, data, first, length)[At(first, t, j)]
            = Aes128(op, undo, k, BlockAt(data, first, t))[j]
<1>1. first \in Nat \ {0} /\ length \in Nat /\ first + length - 1 <= TOR_MSG_SIZE
  BY DEF FullIn
<1>2. PICK i : i = At(first, t, j)
  OBVIOUS
<1>3. InBlock(i, first, length, t, j)
  BY <1>2, FullAt
<1>4. Symmetric(op, undo, k, data, first, length)[i]
         = Aes128(op, undo, k, BlockAt(data, first, t))[j]
  BY ONLY <1>1, <1>3, FullBlock
<1>5. QED
  BY <1>2, <1>4

(* Every position before the end of the full blocks is that of a byte of   *)
(* one of them.                                                            *)
LEMMA PlacedAt ==
  ASSUME NEW first \in Nat \ {0}, NEW length \in Nat, first + length - 1 <= TOR_MSG_SIZE,
         NEW i \in Nat, first <= i, i < first + AES_BYTES * (length \div AES_BYTES)
  PROVE  \E t : \E j \in 1 .. AES_BYTES : FullIn(first, length, t) /\ i = At(first, t, j)
<1>1. PICK t, j : InBlock(i, first, length, t, j)
  BY Placed
<1>2. FullIn(first, length, t) /\ j \in 1 .. AES_BYTES /\ i = At(first, t, j)
  BY <1>1, Zenon DEF InBlock, FullIn, At
<1>3. QED
  BY <1>2

(* A full block encrypted, and one that was encrypted decrypted. *)
LEMMA BlockWraps ==
  ASSUME NEW op, NEW undo, NEW k, NEW X, NEW first, NEW length, NEW t, FullIn(first, length, t),
         X[At(first, t, 1)][1] # undo \/ X[At(first, t, 1)][2] # k
  PROVE  BlockAt(Symmetric(op, undo, k, X, first, length), first, t)
            = Wrap(op, k, BlockAt(X, first, t))
<1> DEFINE Y == Symmetric(op, undo, k, X, first, length)
           B == BlockAt(X, first, t)
           W == Wrap(op, k, B)
<1>1. B[1] = X[At(first, t, 1)]
  BY BlockByte, BlockSize
<1>2. Aes128(op, undo, k, B) = W
  <2> HIDE DEF B
  <2>1. B[1][1] # undo \/ B[1][2] # k
    BY <1>1
  <2>2. QED
    BY <2>1, AesWraps
<1>3. \A j \in 1 .. AES_BYTES : Y[At(first, t, j)] = W[j]
  <2>1. \A j \in 1 .. AES_BYTES : Y[At(first, t, j)] = Aes128(op, undo, k, B)[j]
    BY FullBlockAt
  <2> HIDE DEF Y, B, W
  <2>2. QED
    BY <1>2, <2>1
<1> HIDE DEF Y, B
<1>4. BlockAt(Y, first, t) = [j \in 1 .. AES_BYTES |-> Y[At(first, t, j)]]
  BY Zenon DEF BlockAt, At
<1>5. W = [j \in 1 .. AES_BYTES |-> W[j]]
  BY DEF Wrap
<1>6. BlockAt(Y, first, t) = W
  <2> HIDE DEF W
  <2>1. QED
    BY <1>3, <1>4, <1>5
<1>7. QED
  BY <1>6 DEF Y, B

LEMMA BlockUnwraps ==
  ASSUME NEW op, NEW undo, NEW k, NEW X, NEW Y, NEW first, NEW length, NEW t,
         FullIn(first, length, t), NEW j \in 1 .. AES_BYTES,
         BlockAt(X, first, t) = Wrap(undo, k, BlockAt(Y, first, t))
  PROVE  Symmetric(op, undo, k, X, first, length)[At(first, t, j)] = Y[At(first, t, j)]
<1>1. Symmetric(op, undo, k, X, first, length)[At(first, t, j)]
         = Aes128(op, undo, k, BlockAt(X, first, t))[j]
  BY FullBlockAt
<1>2. BlockAt(Y, first, t)[j] = Y[At(first, t, j)]
  BY BlockByte
<1>3. Aes128(op, undo, k, Wrap(undo, k, BlockAt(Y, first, t))) = BlockAt(Y, first, t)
  BY AesUndoes
<1>4. QED
  BY <1>1, <1>2, <1>3, Zenon

(* The layer of a link is undone at its other end, whatever the relay      *)
(* before has made of the message: all its blocks are full, and none of    *)
(* its bytes comes from decrypting under the key of a link.                *)
Fine(X) == \A i \in Positions : X[i][1] # "dec" \/ X[i][2] \in 1 .. MaxHops

LEMMA LinkPlaced ==
  ASSUME NEW i \in Positions
  PROVE  \E t : \E j \in 1 .. AES_BYTES : FullIn(1, TOR_MSG_SIZE, t) /\ i = At(1, t, j)
<1> DEFINE A == AES_BYTES
           size == TOR_MSG_SIZE
           full == size \div A
<1>1. A \in Nat \ {0} /\ size \in Nat /\ size % A = 0
  BY CipherAssumption
<1>2. full \in Nat /\ size = A * full + (size % A)
  BY <1>1, Division
<1>3. A * full = size
  <2>1. A * full \in Nat
    BY <1>1, <1>2
  <2> HIDE DEF full
  <2>2. QED
    BY <1>1, <1>2, <2>1
<1>4. i \in Nat /\ 1 <= i /\ i < 1 + A * full
  <2> HIDE DEF full
  <2>1. QED
    BY <1>1, <1>3 DEF Positions
<1>5. 1 \in Nat \ {0} /\ 1 + size - 1 <= size
  BY <1>1
<1>6. QED
  BY <1>1, <1>4, <1>5, PlacedAt

LEMMA LinkRoundTrip ==
  ASSUME NEW X, IsMessage(X), Fine(X), NEW r \in Nat \ {0}
  PROVE  LinkDecrypt(LinkEncrypt(X, r), r) = X
<1> DEFINE Y == LinkEncrypt(X, r)
           Z == LinkDecrypt(Y, r)
           k == LinkKey(r)
<1>1. /\ Y = Symmetric("enc", "dec", k, X, 1, TOR_MSG_SIZE)
      /\ Z = Symmetric("dec", "enc", k, Y, 1, TOR_MSG_SIZE)
  BY Zenon DEF LinkEncrypt, LinkDecrypt, symmetric_encrypt, symmetric_decrypt
<1>2. k \notin 1 .. MaxHops
  <2>1. MaxHops \in Nat
    BY CipherAssumption
  <2>2. QED
    BY <2>1 DEF LinkKey
<1> HIDE DEF Y, k
<1>3. IsMessage(Z)
  <2>1. 1 \in Nat /\ TOR_MSG_SIZE \in Nat
    BY CipherAssumption
  <2> HIDE DEF Z
  <2>2. QED
    BY <1>1, <2>1, LeftAlone
<1> HIDE DEF Z
<1>4. ASSUME NEW i \in Positions
      PROVE  Z[i] = X[i]
  <2>1. PICK t : \E j \in 1 .. AES_BYTES : FullIn(1, TOR_MSG_SIZE, t) /\ i = At(1, t, j)
    BY LinkPlaced
  <2>2. PICK j \in 1 .. AES_BYTES : FullIn(1, TOR_MSG_SIZE, t) /\ i = At(1, t, j)
    BY <2>1
  <2>3. At(1, t, 1) \in Positions
    BY <2>2, FullAt, BlockSize
  <2>4. X[At(1, t, 1)][1] # "dec" \/ X[At(1, t, 1)][2] # k
    BY <1>2, <2>3 DEF Fine
  <2>5. BlockAt(Y, 1, t) = Wrap("enc", k, BlockAt(X, 1, t))
    BY <1>1, <2>2, <2>4, BlockWraps
  <2>6. Z[At(1, t, j)] = X[At(1, t, j)]
    BY <1>1, <2>2, <2>5, BlockUnwraps
  <2>7. QED
    BY <2>2, <2>6
<1>5. Z = X
  BY <1>3, <1>4, Zenon DEF IsMessage
<1>6. QED
  BY <1>5 DEF Z, Y

(* What one onion layer of encryption and one of decryption do, up to the  *)
(* end of the last full block and behind it.                               *)
Agree(X, Y) == \A i \in 1 .. FullEnd : X[i] = Y[i]
Clear(X) == \A i \in Positions : X[i][1] # "dec"

LEMMA Sizes ==
  /\ FullEnd \in Nat /\ FullEnd <= TOR_MSG_SIZE /\ Header = 3
  /\ Header + 1 \in Nat \ {0} /\ TOR_MSG_SIZE - Header \in Nat
  /\ (Header + 1) + (TOR_MSG_SIZE - Header) - 1 = TOR_MSG_SIZE
  /\ FullEnd = (Header + 1) + AES_BYTES * ((TOR_MSG_SIZE - Header) \div AES_BYTES) - 1
<1> DEFINE A == AES_BYTES
           L == TOR_MSG_SIZE - Header
           full == L \div A
<1>1. A \in Nat \ {0} /\ TOR_MSG_SIZE \in Nat /\ TOR_MSG_SIZE > 3 /\ Header = 3
  BY CipherAssumption DEF Header
<1>2. L \in Nat
  BY <1>1
<1>3. full \in Nat /\ L % A \in 0 .. A - 1 /\ L = A * full + (L % A)
  BY <1>1, <1>2, Division
<1>4. A * full \in Nat
  <2> HIDE DEF full
  <2>1. QED
    BY <1>1, <1>3
<1>5. FullEnd = 3 + A * full
  BY <1>1 DEF FullEnd
<1>6. A * full <= L
  <2> HIDE DEF full, L
  <2>1. QED
    BY <1>1, <1>2, <1>3, <1>4
<1> HIDE DEF full
<1>7. FullEnd \in Nat /\ FullEnd <= TOR_MSG_SIZE
  BY <1>1, <1>4, <1>5, <1>6
<1>8. FullEnd = (Header + 1) + A * full - 1
  BY <1>1, <1>4, <1>5
<1>9. QED
  BY <1>1, <1>2, <1>7, <1>8 DEF full

OnionBlock(t) == FullIn(Header + 1, TOR_MSG_SIZE - Header, t)

LEMMA OnionPlaced ==
  ASSUME NEW i \in 1 .. FullEnd, i > Header
  PROVE  \E t : \E j \in 1 .. AES_BYTES : OnionBlock(t) /\ i = At(Header + 1, t, j)
<1>1. i \in Nat /\ Header + 1 <= i
      /\ i < (Header + 1) + AES_BYTES * ((TOR_MSG_SIZE - Header) \div AES_BYTES)
  <2> DEFINE full == AES_BYTES * ((TOR_MSG_SIZE - Header) \div AES_BYTES)
  <2>1. FullEnd = (Header + 1) + full - 1 /\ FullEnd \in Nat /\ Header = 3
    BY Sizes
  <2>2. full \in Int
    BY CipherAssumption, Sizes
  <2> HIDE DEF full
  <2>3. i \in Nat /\ Header + 1 <= i /\ i < (Header + 1) + full
    BY <2>1, <2>2
  <2>4. QED
    BY <2>3 DEF full
<1>2. (Header + 1) + (TOR_MSG_SIZE - Header) - 1 <= TOR_MSG_SIZE
  BY CipherAssumption, Sizes
<1>3. PICK first \in Nat \ {0} : first = Header + 1
  BY Sizes
<1>4. PICK length \in Nat : length = TOR_MSG_SIZE - Header
  BY Sizes
<1>5. \E t : \E j \in 1 .. AES_BYTES : FullIn(first, length, t) /\ i = At(first, t, j)
  <2>1. /\ first + length - 1 <= TOR_MSG_SIZE /\ i \in Nat /\ first <= i
        /\ i < first + AES_BYTES * (length \div AES_BYTES)
    BY <1>1, <1>2, <1>3, <1>4
  <2>2. QED
    BY ONLY <2>1, first \in Nat \ {0}, length \in Nat, PlacedAt
<1>6. QED
  BY <1>3, <1>4, <1>5, Zenon DEF OnionBlock

LEMMA OnionAt ==
  ASSUME NEW t, OnionBlock(t), NEW j \in 1 .. AES_BYTES
  PROVE  At(Header + 1, t, j) \in Positions /\ At(Header + 1, t, j) \in 1 .. FullEnd
<1> DEFINE first == Header + 1
           length == TOR_MSG_SIZE - Header
           i == At(first, t, j)
<1>1. i \in Positions /\ i \in first .. first + AES_BYTES * (length \div AES_BYTES) - 1
  BY FullAt DEF OnionBlock
<1>2. FullEnd = first + AES_BYTES * (length \div AES_BYTES) - 1 /\ first = 4 /\ FullEnd \in Nat
  BY Sizes
<1>3. i \in first .. FullEnd
  BY <1>1, <1>2
<1> HIDE DEF i
<1>4. i \in 1 .. FullEnd
  BY <1>2, <1>3
<1>5. QED
  BY <1>1, <1>4 DEF i

OnionSymmetric(op, undo, k, X) == Symmetric(op, undo, k, X, Header + 1, TOR_MSG_SIZE - Header)

(* The header of Y is that of X, and its tail is wrapped. *)
EndsLayered(Y, op, k, X) ==
    /\ IsMessage(Y)
    /\ \A i \in 1 .. Header : Y[i] = X[i]
    /\ \A i \in Positions : i > FullEnd => Wrapped(Y[i], op, k)

LEMMA OnionLayer ==
  ASSUME NEW op, NEW undo, undo # "zero", NEW k, NEW X, NEW Y,
         Y = OnionSymmetric(op, undo, k, X)
  PROVE  EndsLayered(Y, op, k, X)
<1>1. PICK first \in Nat \ {0} : first = Header + 1
  BY Sizes
<1>2. PICK length \in Nat : length = TOR_MSG_SIZE - Header
  BY Sizes
<1>3. /\ first + length - 1 = TOR_MSG_SIZE /\ TOR_MSG_SIZE \in Nat /\ first = 4 /\ Header = 3
      /\ FullEnd = first + AES_BYTES * (length \div AES_BYTES) - 1 /\ FullEnd \in Nat
      /\ FullEnd <= TOR_MSG_SIZE
  BY <1>1, <1>2, Sizes, CipherAssumption
<1>4. Y = Symmetric(op, undo, k, X, first, length)
  BY <1>1, <1>2 DEF OnionSymmetric
<1>5. IsMessage(Y) /\ \A i \in Positions : i \notin first .. first + length - 1 => Y[i] = X[i]
  <2>1. first \in Nat
    OBVIOUS
  <2>2. QED
    BY ONLY <1>4, <2>1, length \in Nat, LeftAlone
<1>6. \A i \in 1 .. Header : i \in Positions /\ i \notin first .. first + length - 1
  BY <1>3 DEF Positions
<1>7. ASSUME NEW i \in Positions, i > FullEnd
      PROVE  Wrapped(Y[i], op, k)
  <2> DEFINE full == AES_BYTES * (length \div AES_BYTES)
  <2>1. FullEnd = first + full - 1 /\ full \in Int
    BY <1>3, CipherAssumption
  <2> HIDE DEF full
  <2>2. i >= first + full
    BY <1>3, <1>7, <2>1 DEF Positions
  <2>3. full >= 0
    <3>1. PICK n \in Nat : n = length \div AES_BYTES
      BY Division, BlockSize
    <3>2. AES_BYTES * n \in Nat
      BY <3>1, BlockSize
    <3>3. QED
      BY <3>1, <3>2 DEF full
  <2>4. i \in first .. first + length - 1
    BY <1>3, <2>1, <2>2, <2>3 DEF Positions
  <2>5. i >= first + AES_BYTES * (length \div AES_BYTES) /\ first + length - 1 <= TOR_MSG_SIZE
    BY <1>3, <2>2 DEF full
  <2>6. Wrapped(Symmetric(op, undo, k, X, first, length)[i], op, k)
    BY <2>4, <2>5, TailWraps
  <2>7. QED
    BY <1>4, <2>6
<1>8. QED
  BY <1>5, <1>6, <1>7 DEF EndsLayered

LEMMA WrappedTerm ==
  ASSUME NEW byte, NEW op, NEW k, Wrapped(byte, op, k)
  PROVE  byte[1] = op /\ byte[2] = k
<1>1. PICK B : \E j : byte = <<op, k, B, j>>
  BY Zenon DEF Wrapped
<1>2. PICK j : byte = <<op, k, B, j>>
  BY <1>1
<1>3. QED
  BY <1>2

(* Encrypting leaves nothing that came from decrypting, ... *)
LEMMA EncryptClear ==
  ASSUME NEW X, Clear(X), NEW r
  PROVE  IsMessage(OnionEncrypt(X, r)) /\ Clear(OnionEncrypt(X, r))
<1> DEFINE Y == OnionEncrypt(X, r)
           k == OnionKey(r)
<1>1. Y = OnionSymmetric("enc", "dec", k, X)
  BY Zenon DEF OnionSymmetric, OnionEncrypt, symmetric_encrypt
<1> HIDE DEF Y, k
<1>2. /\ IsMessage(Y)
      /\ \A i \in 1 .. Header : Y[i] = X[i]
      /\ \A i \in Positions : i > FullEnd => Wrapped(Y[i], "enc", k)
  <2>1. EndsLayered(Y, "enc", k, X)
    BY <1>1, OnionLayer
  <2>2. QED
    BY <2>1, Zenon DEF EndsLayered
<1>3. ASSUME NEW i \in Positions
      PROVE  Y[i][1] # "dec"
  <2>1. i \in 1 .. Header \/ i > FullEnd \/ (i \in 1 .. FullEnd /\ i > Header)
    BY Sizes, CipherAssumption DEF Positions
  <2>2. CASE i \in 1 .. Header
    BY <1>2, <1>3, <2>2 DEF Clear
  <2>3. CASE i > FullEnd
    <3>1. Y[i][1] = "enc"
      BY <1>2, <2>3, WrappedTerm
    <3>2. QED
      BY <3>1
  <2>4. CASE i \in 1 .. FullEnd /\ i > Header
    <3>1. PICK t : \E j \in 1 .. AES_BYTES : OnionBlock(t) /\ i = At(Header + 1, t, j)
      BY <2>4, OnionPlaced
    <3>2. PICK j \in 1 .. AES_BYTES : OnionBlock(t) /\ i = At(Header + 1, t, j)
      BY <3>1
    <3>3. X[At(Header + 1, t, 1)][1] # "dec"
      BY <3>2, OnionAt, BlockSize DEF Clear
    <3>4. BlockAt(Y, Header + 1, t) = Wrap("enc", k, BlockAt(X, Header + 1, t))
      BY <1>1, <3>2, <3>3, BlockWraps DEF OnionBlock, OnionSymmetric
    <3>5. BlockAt(Y, Header + 1, t)[j] = Y[i]
      BY <3>2, BlockByte
    <3>6. Wrap("enc", k, BlockAt(X, Header + 1, t))[j][1] = "enc"
      BY Terms DEF Wrap
    <3>7. QED
      BY <3>4, <3>5, <3>6
  <2>5. QED
    BY <2>1, <2>2, <2>3, <2>4
<1>4. QED
  BY <1>2, <1>3 DEF Clear, Y

(* ... and decrypting under the same key gives what was encrypted, up to   *)
(* the end of the last full block.                                         *)
LEMMA OnionUnwraps ==
  ASSUME NEW X, NEW Y, NEW r, Clear(Y), Agree(X, OnionEncrypt(Y, r))
  PROVE  /\ Agree(OnionDecrypt(X, r), Y)
         /\ IsMessage(OnionDecrypt(X, r))
         /\ \A i \in Positions : i > FullEnd => Wrapped(OnionDecrypt(X, r)[i], "dec", OnionKey(r))
<1> DEFINE W == OnionEncrypt(Y, r)
           Z == OnionDecrypt(X, r)
           k == OnionKey(r)
<1>1. W = OnionSymmetric("enc", "dec", k, Y)
  BY Zenon DEF OnionSymmetric, OnionEncrypt, symmetric_encrypt
<1>2. Z = OnionSymmetric("dec", "enc", k, X)
  BY Zenon DEF OnionSymmetric, OnionDecrypt, symmetric_decrypt
<1>3. Agree(X, W)
  OBVIOUS
<1> HIDE DEF W, Z, k
<1>4. \A i \in 1 .. Header : W[i] = Y[i]
  <2>1. EndsLayered(W, "enc", k, Y)
    BY <1>1, OnionLayer
  <2>2. QED
    BY <2>1, Zenon DEF EndsLayered
<1>5. /\ IsMessage(Z)
      /\ \A i \in 1 .. Header : Z[i] = X[i]
      /\ \A i \in Positions : i > FullEnd => Wrapped(Z[i], "dec", k)
  <2>1. EndsLayered(Z, "dec", k, X)
    BY <1>2, OnionLayer
  <2>2. QED
    BY <2>1, Zenon DEF EndsLayered
<1>6. ASSUME NEW i \in 1 .. FullEnd
      PROVE  Z[i] = Y[i]
  <2>1. i \in 1 .. Header \/ i > Header
    BY Sizes
  <2>2. CASE i \in 1 .. Header
    BY <1>3, <1>4, <1>5, <2>2 DEF Agree
  <2>3. CASE i > Header
    <3>1. PICK t : \E j \in 1 .. AES_BYTES : OnionBlock(t) /\ i = At(Header + 1, t, j)
      BY <2>3, OnionPlaced
    <3>2. PICK j \in 1 .. AES_BYTES : OnionBlock(t) /\ i = At(Header + 1, t, j)
      BY <3>1
    <3>3. Y[At(Header + 1, t, 1)][1] # "dec"
      BY <3>2, OnionAt, BlockSize DEF Clear
    <3>4. BlockAt(W, Header + 1, t) = Wrap("enc", k, BlockAt(Y, Header + 1, t))
      BY <1>1, <3>2, <3>3, BlockWraps DEF OnionBlock, OnionSymmetric
    <3>5. BlockAt(X, Header + 1, t) = BlockAt(W, Header + 1, t)
      <4>1. \A m \in 1 .. AES_BYTES : X[At(Header + 1, t, m)] = W[At(Header + 1, t, m)]
        BY <1>3, <3>2, OnionAt DEF Agree
      <4>2. QED
        BY <4>1, Zenon DEF BlockAt, At
    <3>6. Z[At(Header + 1, t, j)] = Y[At(Header + 1, t, j)]
      BY <1>2, <3>2, <3>4, <3>5, BlockUnwraps DEF OnionBlock, OnionSymmetric
    <3>7. QED
      BY <3>2, <3>6
  <2>4. QED
    BY <2>1, <2>2, <2>3
<1>7. QED
  BY <1>5, <1>6 DEF Agree, Z, k

(* The loops over the onion keys: turn i of amount turns, and what the     *)
(* message is after n of them.                                             *)
OnionTurn(sends, data, amount, i) ==
    IF sends THEN OnionEncrypt(data, amount + 1 - i) ELSE OnionDecrypt(data, i)
OnionTurns(f, sends, data, amount, n) ==
    f = [i \in 0 .. n |-> IF i = 0 THEN data ELSE OnionTurn(sends, f[i - 1], amount, i)]

TurnByTurn(f, sends, data, amount, n) ==
    /\ f[0] = data
    /\ \A i \in 1 .. n : f[i] = OnionTurn(sends, f[i - 1], amount, i)

LEMMA TurnsAre ==
  ASSUME NEW f, NEW sends, NEW data, NEW amount, NEW n \in Nat,
         OnionTurns(f, sends, data, amount, n)
  PROVE  TurnByTurn(f, sends, data, amount, n)
<1>1. f = [i \in 0 .. n |-> IF i = 0 THEN data ELSE OnionTurn(sends, f[i - 1], amount, i)]
  BY Zenon DEF OnionTurns
<1>2. ASSUME NEW i \in 0 .. n
      PROVE  f[i] = IF i = 0 THEN data ELSE OnionTurn(sends, f[i - 1], amount, i)
  BY <1>1, Zenon
<1>3. 0 \in 0 .. n /\ \A i \in 1 .. n : i \in 0 .. n /\ i # 0
  OBVIOUS
<1>4. f[0] = data
  BY <1>2, <1>3
<1>5. ASSUME NEW i \in 1 .. n
      PROVE  f[i] = OnionTurn(sends, f[i - 1], amount, i)
  BY <1>2, <1>3
<1>6. QED
  BY <1>4, <1>5 DEF TurnByTurn

LEMMA TurnsExist ==
  ASSUME NEW sends, NEW data, NEW amount, NEW max \in Nat
  PROVE  \E f : OnionTurns(f, sends, data, amount, max)
<1> DEFINE G == {n \in Nat : \E f : OnionTurns(f, sends, data, amount, n)}
<1>1. 0 \in G
  <2> DEFINE f == [i \in 0 .. 0 |-> data]
  <2>1. \A i \in 0 .. 0 : i = 0
    OBVIOUS
  <2>2. [i \in 0 .. 0 |-> IF i = 0 THEN data ELSE OnionTurn(sends, f[i - 1], amount, i)] = f
    BY <2>1
  <2>3. OnionTurns(f, sends, data, amount, 0)
    BY <2>2, Zenon DEF OnionTurns
  <2>4. QED
    BY <2>3
<1>2. ASSUME NEW n \in 0 .. max - 1, n \in G
      PROVE  n + 1 \in G
  <2>1. n \in Nat
    OBVIOUS
  <2>2. PICK f : OnionTurns(f, sends, data, amount, n)
    BY <1>2
  <2>3. f[0] = data /\ \A i \in 1 .. n : f[i] = OnionTurn(sends, f[i - 1], amount, i)
    BY <2>1, <2>2, TurnsAre DEF TurnByTurn
  <2> DEFINE last == OnionTurn(sends, f[n], amount, n + 1)
             g == [i \in 0 .. n + 1 |-> IF i = n + 1 THEN last ELSE f[i]]
  <2>4. ASSUME NEW i \in 0 .. n + 1
        PROVE  g[i] = IF i = 0 THEN data ELSE OnionTurn(sends, g[i - 1], amount, i)
    <3>1. i = 0 \/ i = n + 1 \/ i \in 1 .. n
      OBVIOUS
    <3>2. CASE i = 0
      <4>1. g[i] = f[i]
        BY <2>1, <3>2
      <4>2. QED
        BY <2>3, <3>2, <4>1
    <3>3. CASE i = n + 1
      <4>1. i # 0 /\ i - 1 = n /\ n \in 0 .. n + 1 /\ n # n + 1
        BY <2>1, <3>3
      <4>2. g[i] = last /\ g[n] = f[n]
        BY <3>3, <4>1
      <4> HIDE DEF g
      <4>3. QED
        BY <3>3, <4>1, <4>2
    <3>4. CASE i \in 1 .. n
      <4>1. i # 0 /\ i - 1 \in 0 .. n + 1 /\ i - 1 # n + 1 /\ i # n + 1
        BY <2>1, <3>4
      <4>2. g[i] = f[i] /\ g[i - 1] = f[i - 1]
        BY <4>1, Zenon
      <4>3. f[i] = OnionTurn(sends, f[i - 1], amount, i)
        BY <2>3, <3>4
      <4> HIDE DEF g
      <4>4. QED
        BY <4>1, <4>2, <4>3, Zenon
    <3>5. QED
      BY <3>1, <3>2, <3>3, <3>4
  <2>5. g = [i \in 0 .. n + 1 |-> g[i]]
    BY Zenon
  <2> HIDE DEF g
  <2>6. OnionTurns(g, sends, data, amount, n + 1)
    BY <2>4, <2>5, Zenon DEF OnionTurns
  <2>7. QED
    BY <2>1, <2>6
<1>3. max \in G
  <2> HIDE DEF G
  <2>1. \A n \in 0 .. max : n \in G
    BY <1>1, <1>2, UpTo
  <2>2. QED
    BY <2>1
<1>4. QED
  BY <1>3

LEMMA EncryptsAll ==
  ASSUME NEW data, NEW amount \in Nat
  PROVE  \E f : OnionTurns(f, TRUE, data, amount, amount) /\ OnionEncryptAll(data, amount) = f[amount]
<1> DEFINE F(g) == [i \in 0 .. amount |-> IF i = 0 THEN data ELSE OnionEncrypt(g[i - 1], amount + 1 - i)]
           f == CHOOSE g : g = F(g)
<1>1. OnionEncryptAll(data, amount) = f[amount]
  BY Zenon DEF OnionEncryptAll
<1>2. \A g : OnionTurns(g, TRUE, data, amount, amount) <=> g = F(g)
  BY Zenon DEF OnionTurns, OnionTurn
<1>3. \E g : g = F(g)
  <2> HIDE DEF F
  <2>1. QED
    BY <1>2, TurnsExist
<1>4. f = F(f)
  <2> HIDE DEF F
  <2>1. QED
    BY <1>3
<1> HIDE DEF f
<1>5. QED
  BY <1>1, <1>2, <1>4

LEMMA DecryptsAll ==
  ASSUME NEW data, NEW amount \in Nat
  PROVE  \E f : OnionTurns(f, FALSE, data, amount, amount) /\ OnionDecryptAll(data, amount) = f[amount]
<1> DEFINE F(g) == [i \in 0 .. amount |-> IF i = 0 THEN data ELSE OnionDecrypt(g[i - 1], i)]
           f == CHOOSE g : g = F(g)
<1>1. OnionDecryptAll(data, amount) = f[amount]
  BY Zenon DEF OnionDecryptAll
<1>2. \A g : OnionTurns(g, FALSE, data, amount, amount) <=> g = F(g)
  BY Zenon DEF OnionTurns, OnionTurn
<1>3. \E g : g = F(g)
  <2> HIDE DEF F
  <2>1. QED
    BY <1>2, TurnsExist
<1>4. f = F(f)
  <2> HIDE DEF F
  <2>1. QED
    BY <1>3
<1> HIDE DEF f
<1>5. QED
  BY <1>1, <1>2, <1>4

(* No layer that was put on contains a byte that came from decrypting, and *)
(* each is the one that the key of its turn takes off.                     *)
LEMMA PlainIsClear ==
  ASSUME NEW name
  PROVE  IsMessage(PlainMessage(name)) /\ Clear(PlainMessage(name))
<1> DEFINE X == PlainMessage(name)
<1>1. \A i \in Positions : X[i] = <<"plain", name, <<>>, i>>
  BY Zenon DEF PlainMessage
<1>2. IsMessage(X)
  BY Zenon DEF PlainMessage, IsMessage
<1> HIDE DEF X
<1>3. \A i \in Positions : X[i][1] = "plain"
  BY <1>1
<1>4. Clear(X)
  BY <1>3 DEF Clear
<1>5. QED
  BY <1>2, <1>4 DEF X

LEMMA LayersClear ==
  ASSUME NEW f, NEW data, IsMessage(data), Clear(data), NEW c \in Nat,
         OnionTurns(f, TRUE, data, c, c)
  PROVE  \A i \in 0 .. c : IsMessage(f[i]) /\ Clear(f[i])
<1> DEFINE G == {i \in Nat : IsMessage(f[i]) /\ Clear(f[i])}
<1>1. f[0] = data /\ \A i \in 1 .. c : f[i] = OnionTurn(TRUE, f[i - 1], c, i)
  <2>1. TurnByTurn(f, TRUE, data, c, c)
    BY TurnsAre
  <2>2. QED
    BY <2>1, Zenon DEF TurnByTurn
<1>2. 0 \in G
  BY <1>1
<1>3. ASSUME NEW i \in 0 .. c - 1, i \in G
      PROVE  i + 1 \in G
  <2>1. i + 1 \in 1 .. c /\ i + 1 \in Nat /\ (i + 1) - 1 = i
    OBVIOUS
  <2>2. f[i + 1] = OnionTurn(TRUE, f[i], c, i + 1)
    BY <1>1, <2>1
  <2>3. PICK r : f[i + 1] = OnionEncrypt(f[i], r)
    BY <2>2, Zenon DEF OnionTurn
  <2>4. IsMessage(f[i + 1]) /\ Clear(f[i + 1])
    BY <1>3, <2>3, EncryptClear
  <2>5. QED
    BY <2>1, <2>4
<1> HIDE DEF G
<1>4. \A i \in 0 .. c : i \in G
  BY <1>2, <1>3, UpTo
<1>5. QED
  BY <1>4 DEF G

LEMMA LayerOf ==
  ASSUME NEW f, NEW data, NEW c \in Nat, NEW r \in 1 .. c, OnionTurns(f, TRUE, data, c, c)
  PROVE  f[c + 1 - r] = OnionEncrypt(f[c - r], r)
<1>1. \A i \in 1 .. c : f[i] = OnionTurn(TRUE, f[i - 1], c, i)
  <2>1. TurnByTurn(f, TRUE, data, c, c)
    BY TurnsAre
  <2>2. QED
    BY <2>1, Zenon DEF TurnByTurn
<1>2. PICK i \in 1 .. c : i = c + 1 - r /\ i - 1 = c - r /\ c + 1 - i = r
  OBVIOUS
<1>3. f[i] = OnionEncrypt(f[i - 1], c + 1 - i)
  BY <1>1, Zenon DEF OnionTurn
<1>4. QED
  BY <1>2, <1>3

LEMMA Unlayered ==
  ASSUME NEW f, NEW g, NEW data, NEW X, IsMessage(data), Clear(data), NEW c \in Nat,
         OnionTurns(f, TRUE, data, c, c), OnionTurns(g, FALSE, X, c, c), Agree(X, f[c])
  PROVE  Agree(g[c], data)
<1> DEFINE G == {i \in Nat : Agree(g[i], f[c - i])}
<1>1. f[0] = data /\ g[0] = X /\ \A i \in 1 .. c : g[i] = OnionTurn(FALSE, g[i - 1], c, i)
  <2>1. TurnByTurn(f, TRUE, data, c, c) /\ TurnByTurn(g, FALSE, X, c, c)
    BY TurnsAre
  <2>2. QED
    BY <2>1, Zenon DEF TurnByTurn
<1>2. 0 \in G
  <2>1. c - 0 = c
    OBVIOUS
  <2>2. QED
    BY <1>1, <2>1
<1>3. ASSUME NEW i \in 0 .. c - 1, i \in G
      PROVE  i + 1 \in G
  <2>1. PICK r \in 1 .. c : r = i + 1 /\ r - 1 = i /\ c + 1 - r = c - i
    OBVIOUS
  <2>2. g[r] = OnionDecrypt(g[i], r)
    <3>1. g[r] = OnionDecrypt(g[r - 1], r)
      BY <1>1, Zenon DEF OnionTurn
    <3>2. QED
      BY <2>1, <3>1
  <2>3. f[c - i] = OnionEncrypt(f[c - r], r)
    <3>1. f[c + 1 - r] = OnionEncrypt(f[c - r], r)
      BY LayerOf
    <3>2. QED
      BY <2>1, <3>1
  <2>4. Clear(f[c - r])
    <3>1. c - r \in 0 .. c
      OBVIOUS
    <3>2. QED
      BY <3>1, LayersClear
  <2>5. Agree(g[i], OnionEncrypt(f[c - r], r))
    BY <1>3, <2>3
  <2>6. Agree(OnionDecrypt(g[i], r), f[c - r])
    BY <2>4, <2>5, OnionUnwraps
  <2>7. r \in Nat /\ Agree(g[r], f[c - r])
    BY <2>2, <2>6
  <2>8. QED
    BY <2>1, <2>7
<1>4. c \in G
  <2> HIDE DEF G
  <2>1. \A i \in 0 .. c : i \in G
    BY <1>2, <1>3, UpTo
  <2>2. QED
    BY <2>1
<1>5. c - c = 0
  OBVIOUS
<1>6. QED
  BY <1>1, <1>4, <1>5

(* A relay takes off the layer of its link and its onion layer. *)
LEMMA Peeled ==
  ASSUME NEW f, NEW data, IsMessage(data), Clear(data), NEW c \in 1 .. MaxHops,
         OnionTurns(f, TRUE, data, c, c), NEW r \in 1 .. c,
         NEW X, IsMessage(X), Fine(X), Agree(X, f[c + 1 - r]),
         NEW Y, Y = RelayPeels(LinkEncrypt(X, r), r)
  PROVE  IsMessage(Y) /\ Fine(Y) /\ Agree(Y, f[c - r])
<1>1. c \in Nat /\ r \in Nat \ {0} /\ r \in 1 .. MaxHops /\ c - r \in 0 .. c
  BY CipherAssumption
<1>2. Y = OnionDecrypt(X, r)
  <2>1. LinkDecrypt(LinkEncrypt(X, r), r) = X
    BY <1>1, LinkRoundTrip
  <2>2. QED
    BY <2>1, Zenon DEF RelayPeels
<1>3. f[c + 1 - r] = OnionEncrypt(f[c - r], r)
  BY <1>1, LayerOf
<1>4. Clear(f[c - r])
  BY <1>1, LayersClear
<1>5. /\ Agree(Y, f[c - r]) /\ IsMessage(Y)
      /\ \A i \in Positions : i > FullEnd => Wrapped(Y[i], "dec", OnionKey(r))
  BY <1>2, <1>3, <1>4, OnionUnwraps
<1>6. ASSUME NEW i \in Positions
      PROVE  Y[i][1] # "dec" \/ Y[i][2] \in 1 .. MaxHops
  <2>1. i \in 1 .. FullEnd \/ i > FullEnd
    BY Sizes, CipherAssumption DEF Positions
  <2>2. CASE i \in 1 .. FullEnd
    BY <1>4, <1>5, <1>6, <2>2 DEF Agree, Clear
  <2>3. CASE i > FullEnd
    <3>1. Y[i][2] = OnionKey(r)
      BY <1>5, <2>3, WrappedTerm
    <3>2. QED
      BY <1>1, <3>1 DEF OnionKey
  <2>4. QED
    BY <2>1, <2>2, <2>3
<1>7. QED
  BY <1>5, <1>6 DEF Fine

(* The inductive invariant: on link r a request still has the layers of    *)
(* relays r to hops, as far as the full blocks go, and an answer has those *)
(* of the same relays, byte for byte; whoever has it without a link has    *)
(* the full blocks of the message itself.                                  *)
LayersOf(f, name) == OnionTurns(f, TRUE, PlainMessage(name), hops, hops)

OnItsWay ==
    /\ hops \in 1 .. MaxHops
    /\ place = "link" => link \in 1 .. hops
    /\ place = "exit" => link = hops
GoingDown ==
    place = "link" /\ ~upward =>
        \E f : \E X : /\ LayersOf(f, "request")
                     /\ IsMessage(X) /\ Fine(X) /\ Agree(X, f[hops + 1 - link])
                     /\ bytes = LinkEncrypt(X, link)
GoingUp ==
    place = "link" /\ upward =>
        \E f : LayersOf(f, "answer") /\ bytes = LinkEncrypt(f[hops + 1 - link], link)
HasArrived ==
    /\ place = "exit" => Agree(bytes, PlainMessage("request"))
    /\ place = "home" => Agree(bytes, PlainMessage("answer"))
CipherInv == OnItsWay /\ GoingDown /\ GoingUp /\ HasArrived

LEMMA LayersFine ==
  ASSUME NEW f, NEW name, LayersOf(f, name), hops \in 1 .. MaxHops, NEW i \in 0 .. hops
  PROVE  IsMessage(f[i]) /\ Clear(f[i]) /\ Fine(f[i])
<1>1. hops \in Nat
  BY CipherAssumption
<1>2. IsMessage(f[i]) /\ Clear(f[i])
  BY <1>1, PlainIsClear, LayersClear DEF LayersOf
<1>3. QED
  BY <1>2 DEF Clear, Fine

LEMMA ClientSendsDown ==
  ASSUME CipherInv, ClientSends
  PROVE  CipherInv'
<1>1. hops \in 1 .. MaxHops /\ hops \in Nat /\ UNCHANGED hops
  BY CipherAssumption DEF CipherInv, OnItsWay, ClientSends
<1>2. place' = "link" /\ link' = 1 /\ upward' = FALSE
  BY DEF ClientSends
<1>3. PICK f : /\ OnionTurns(f, TRUE, PlainMessage("request"), hops, hops)
               /\ OnionEncryptAll(PlainMessage("request"), hops) = f[hops]
  BY <1>1, EncryptsAll
<1>4. LayersOf(f, "request") /\ LayersOf(f, "request")'
  BY <1>1, <1>3 DEF LayersOf
<1>5. bytes' = LinkEncrypt(f[hops], 1)
  BY <1>3 DEF ClientSends
<1>6. IsMessage(f[hops]) /\ Fine(f[hops])
  <2>1. hops \in 0 .. hops
    BY <1>1
  <2>2. QED
    BY <1>1, <1>4, <2>1, LayersFine
<1>7. hops + 1 - 1 = hops /\ Agree(f[hops], f[hops])
  BY <1>1 DEF Agree
<1>8. GoingDown'
  <2>1. /\ LayersOf(f, "request")' /\ IsMessage(f[hops]) /\ Fine(f[hops])
        /\ Agree(f[hops], f[hops' + 1 - link']) /\ bytes' = LinkEncrypt(f[hops], link')
    BY <1>1, <1>2, <1>4, <1>5, <1>6, <1>7
  <2>2. QED
    BY <2>1, Zenon DEF GoingDown
<1>9. OnItsWay' /\ GoingUp' /\ HasArrived'
  BY <1>1, <1>2 DEF OnItsWay, GoingUp, HasArrived
<1>10. QED
  BY <1>8, <1>9 DEF CipherInv

LEMMA PeeledOnItsWay ==
  ASSUME CipherInv, place = "link", ~upward
  PROVE  \E f : /\ LayersOf(f, "request")
                /\ IsMessage(RelayPeels(bytes, link)) /\ Fine(RelayPeels(bytes, link))
                /\ Agree(RelayPeels(bytes, link), f[hops - link])
<1>1. hops \in 1 .. MaxHops /\ link \in 1 .. hops
  BY DEF CipherInv, OnItsWay
<1>2. PICK f : \E X : /\ LayersOf(f, "request")
                      /\ IsMessage(X) /\ Fine(X) /\ Agree(X, f[hops + 1 - link])
                      /\ bytes = LinkEncrypt(X, link)
  BY DEF CipherInv, GoingDown
<1>3. PICK X : /\ LayersOf(f, "request")
               /\ IsMessage(X) /\ Fine(X) /\ Agree(X, f[hops + 1 - link])
               /\ bytes = LinkEncrypt(X, link)
  BY <1>2
<1>4. PICK Y : Y = RelayPeels(LinkEncrypt(X, link), link)
  OBVIOUS
<1>5. IsMessage(Y) /\ Fine(Y) /\ Agree(Y, f[hops - link])
  <2>1. IsMessage(PlainMessage("request")) /\ Clear(PlainMessage("request"))
    BY PlainIsClear
  <2>2. OnionTurns(f, TRUE, PlainMessage("request"), hops, hops)
    BY <1>3 DEF LayersOf
  <2>3. IsMessage(X) /\ Fine(X) /\ Agree(X, f[hops + 1 - link])
    BY <1>3
  <2>4. QED
    BY ONLY <1>1, <1>4, <2>1, <2>2, <2>3, Peeled
<1>6. Y = RelayPeels(bytes, link)
  BY <1>3, <1>4
<1>7. QED
  BY <1>3, <1>5, <1>6

LEMMA ForwardsDown ==
  ASSUME CipherInv, RelayForwardsDown
  PROVE  CipherInv'
<1>1. /\ hops \in 1 .. MaxHops /\ link \in 1 .. hops /\ link < hops /\ UNCHANGED hops
      /\ place = "link" /\ ~upward
  BY DEF CipherInv, OnItsWay, RelayForwardsDown
<1>2. place' = "link" /\ link' = link + 1 /\ ~upward'
      /\ bytes' = LinkEncrypt(RelayPeels(bytes, link), link + 1)
  BY <1>1 DEF RelayForwardsDown
<1>3. PICK f : /\ LayersOf(f, "request")
               /\ IsMessage(RelayPeels(bytes, link)) /\ Fine(RelayPeels(bytes, link))
               /\ Agree(RelayPeels(bytes, link), f[hops - link])
  BY <1>1, PeeledOnItsWay
<1>4. hops' + 1 - link' = hops - link /\ link' \in 1 .. hops'
  BY <1>1, <1>2, CipherAssumption
<1>5. GoingDown'
  <2> DEFINE X == RelayPeels(bytes, link)
  <2>1. LayersOf(f, "request")'
    BY <1>1, <1>3 DEF LayersOf
  <2>2. /\ IsMessage(X) /\ Fine(X) /\ Agree(X, f[hops' + 1 - link'])
        /\ bytes' = LinkEncrypt(X, link')
    BY <1>2, <1>3, <1>4
  <2> HIDE DEF X
  <2>3. QED
    BY <2>1, <2>2, Zenon DEF GoingDown
<1>6. OnItsWay' /\ GoingUp' /\ HasArrived'
  BY <1>1, <1>2, <1>4 DEF OnItsWay, GoingUp, HasArrived
<1>7. QED
  BY <1>5, <1>6 DEF CipherInv

LEMMA ExitOpensIt ==
  ASSUME CipherInv, ExitOpens
  PROVE  CipherInv'
<1>1. /\ hops \in 1 .. MaxHops /\ link = hops /\ UNCHANGED <<hops, link, upward>>
      /\ place = "link" /\ ~upward /\ place' = "exit" /\ bytes' = RelayPeels(bytes, link)
  BY DEF CipherInv, OnItsWay, ExitOpens
<1>2. PICK f : LayersOf(f, "request") /\ Agree(RelayPeels(bytes, link), f[hops - link])
  BY <1>1, PeeledOnItsWay
<1>3. hops - link = 0 /\ hops \in Nat
  BY <1>1, CipherAssumption
<1>4. f[0] = PlainMessage("request")
  <2>1. TurnByTurn(f, TRUE, PlainMessage("request"), hops, hops)
    BY <1>2, <1>3, TurnsAre DEF LayersOf
  <2>2. QED
    BY <2>1, Zenon DEF TurnByTurn
<1>5. Agree(bytes', PlainMessage("request"))
  BY <1>1, <1>2, <1>3, <1>4
<1>6. HasArrived'
  <2>1. Agree(bytes, PlainMessage("request"))'
    BY <1>5 DEF Agree, PlainMessage
  <2>2. QED
    BY <1>1, <2>1 DEF HasArrived
<1>7. OnItsWay' /\ GoingUp' /\ GoingDown'
  BY <1>1 DEF OnItsWay, GoingUp, GoingDown
<1>8. QED
  BY <1>6, <1>7 DEF CipherInv

LEMMA ExitSendsIt ==
  ASSUME CipherInv, ExitSends
  PROVE  CipherInv'
<1>1. /\ hops \in 1 .. MaxHops /\ hops \in Nat /\ link = hops /\ UNCHANGED <<hops, link>>
      /\ place' = "link" /\ upward' = TRUE
      /\ bytes' = LinkEncrypt(OnionEncrypt(PlainMessage("answer"), hops), hops)
  BY CipherAssumption DEF CipherInv, OnItsWay, ExitSends, RelayWraps
<1>2. PICK f : OnionTurns(f, TRUE, PlainMessage("answer"), hops, hops)
  BY <1>1, TurnsExist
<1>3. LayersOf(f, "answer")'
  BY <1>1, <1>2 DEF LayersOf
<1>4. hops' + 1 - link' = 1 /\ hops + 1 - hops = 1 /\ hops - hops = 0 /\ hops \in 1 .. hops
  BY <1>1
<1>5. f[1] = OnionEncrypt(PlainMessage("answer"), hops)
  <2>1. f[hops + 1 - hops] = OnionEncrypt(f[hops - hops], hops)
    BY <1>1, <1>2, <1>4, LayerOf
  <2>2. TurnByTurn(f, TRUE, PlainMessage("answer"), hops, hops)
    BY <1>1, <1>2, TurnsAre
  <2>3. f[0] = PlainMessage("answer")
    BY <2>2, Zenon DEF TurnByTurn
  <2>4. QED
    BY <1>4, <2>1, <2>3
<1>6. GoingUp'
  <2>1. bytes' = LinkEncrypt(f[hops' + 1 - link'], link')
    BY <1>1, <1>4, <1>5
  <2>2. QED
    BY <1>3, <2>1 DEF GoingUp
<1>7. OnItsWay' /\ GoingDown' /\ HasArrived'
  BY <1>1 DEF OnItsWay, GoingDown, HasArrived
<1>8. QED
  BY <1>6, <1>7 DEF CipherInv

(* At its end the link's layer comes off an answer, whole. *)
LEMMA AnswerOnItsWay ==
  ASSUME CipherInv, place = "link", upward
  PROVE  \E f : LayersOf(f, "answer") /\ LinkDecrypt(bytes, link) = f[hops + 1 - link]
<1>1. hops \in 1 .. MaxHops /\ hops \in Nat /\ link \in 1 .. hops /\ link \in Nat \ {0}
      /\ hops + 1 - link \in 0 .. hops
  BY CipherAssumption DEF CipherInv, OnItsWay
<1>2. PICK f : LayersOf(f, "answer") /\ bytes = LinkEncrypt(f[hops + 1 - link], link)
  BY DEF CipherInv, GoingUp
<1>3. IsMessage(f[hops + 1 - link]) /\ Fine(f[hops + 1 - link])
  BY <1>1, <1>2, LayersFine
<1>4. LinkDecrypt(bytes, link) = f[hops + 1 - link]
  BY <1>1, <1>2, <1>3, LinkRoundTrip
<1>5. QED
  BY <1>2, <1>4

LEMMA ForwardsUp ==
  ASSUME CipherInv, RelayForwardsUp
  PROVE  CipherInv'
<1>1. /\ hops \in 1 .. MaxHops /\ hops \in Nat /\ link \in 1 .. hops /\ link > 1
      /\ UNCHANGED <<hops, place, upward>> /\ place = "link" /\ upward /\ link' = link - 1
      /\ bytes' = LinkEncrypt(OnionEncrypt(LinkDecrypt(bytes, link), link - 1), link - 1)
  BY CipherAssumption DEF CipherInv, OnItsWay, RelayForwardsUp, RelayWraps
<1>2. PICK f : LayersOf(f, "answer") /\ LinkDecrypt(bytes, link) = f[hops + 1 - link]
  BY <1>1, AnswerOnItsWay
<1>3. PICK r \in 1 .. hops : r = link - 1 /\ hops - r = hops + 1 - link
  BY <1>1
<1>4. f[hops + 1 - r] = OnionEncrypt(f[hops - r], r)
  <2>1. OnionTurns(f, TRUE, PlainMessage("answer"), hops, hops)
    BY <1>2 DEF LayersOf
  <2>2. QED
    BY <1>1, <2>1, LayerOf
<1>5. bytes' = LinkEncrypt(f[hops' + 1 - link'], link')
  <2>1. link' = r /\ hops' = hops
    BY <1>1, <1>3
  <2>2. bytes' = LinkEncrypt(OnionEncrypt(f[hops - r], r), r)
    BY <1>1, <1>2, <1>3
  <2>3. QED
    BY <1>4, <2>1, <2>2
<1>6. LayersOf(f, "answer")'
  BY <1>1, <1>2 DEF LayersOf
<1>7. OnItsWay' /\ GoingUp' /\ GoingDown' /\ HasArrived'
  <2>1. GoingUp'
    BY <1>5, <1>6 DEF GoingUp
  <2>2. link' \in 1 .. hops'
    BY <1>1, <1>3
  <2>3. QED
    BY <1>1, <2>1, <2>2 DEF OnItsWay, GoingDown, HasArrived
<1>8. QED
  BY <1>7 DEF CipherInv

LEMMA ClientOpensIt ==
  ASSUME CipherInv, ClientOpens
  PROVE  CipherInv'
<1>1. /\ hops \in 1 .. MaxHops /\ hops \in Nat /\ link = 1 /\ UNCHANGED <<hops, link, upward>>
      /\ place = "link" /\ upward /\ place' = "home"
      /\ bytes' = OnionDecryptAll(LinkDecrypt(bytes, link), hops)
  BY CipherAssumption DEF CipherInv, OnItsWay, ClientOpens
<1>2. PICK f : LayersOf(f, "answer") /\ LinkDecrypt(bytes, link) = f[hops + 1 - link]
  BY <1>1, AnswerOnItsWay
<1>3. hops + 1 - link = hops
  BY <1>1
<1>4. PICK X : X = LinkDecrypt(bytes, link) /\ X = f[hops]
  BY <1>2, <1>3
<1>5. PICK g : OnionTurns(g, FALSE, X, hops, hops) /\ OnionDecryptAll(X, hops) = g[hops]
  BY <1>1, DecryptsAll
<1>6. Agree(g[hops], PlainMessage("answer"))
  <2>1. OnionTurns(f, TRUE, PlainMessage("answer"), hops, hops)
    BY <1>2 DEF LayersOf
  <2>2. Agree(X, f[hops])
    BY <1>4 DEF Agree
  <2>3. QED
    BY <1>1, <1>5, <2>1, <2>2, PlainIsClear, Unlayered
<1>7. bytes' = g[hops]
  BY <1>1, <1>4, <1>5
<1>8. HasArrived'
  <2>1. Agree(bytes, PlainMessage("answer"))'
    BY <1>6, <1>7 DEF Agree, PlainMessage
  <2>2. QED
    BY <1>1, <2>1 DEF HasArrived
<1>9. OnItsWay' /\ GoingUp' /\ GoingDown'
  BY <1>1 DEF OnItsWay, GoingUp, GoingDown
<1>10. QED
  BY <1>8, <1>9 DEF CipherInv

LEMMA CipherStep == CipherInv /\ [CipherNext]_cipherVars => CipherInv'
<1> SUFFICES ASSUME CipherInv, [CipherNext]_cipherVars
             PROVE  CipherInv'
  OBVIOUS
<1>1. CASE ClientSends
  BY <1>1, ClientSendsDown
<1>2. CASE RelayForwardsDown
  BY <1>2, ForwardsDown
<1>3. CASE ExitOpens
  BY <1>3, ExitOpensIt
<1>4. CASE ExitSends
  BY <1>4, ExitSendsIt
<1>5. CASE RelayForwardsUp
  BY <1>5, ForwardsUp
<1>6. CASE ClientOpens
  BY <1>6, ClientOpensIt
<1>7. CASE UNCHANGED cipherVars
  BY <1>7 DEF cipherVars, CipherInv, OnItsWay, GoingDown, GoingUp, HasArrived, LayersOf, Agree,
              PlainMessage
<1>8. QED
  BY <1>1, <1>2, <1>3, <1>4, <1>5, <1>6, <1>7 DEF CipherNext

LEMMA ArrivedWhole == CipherInv => FullBlocksArrive
<1> SUFFICES ASSUME CipherInv, NEW name \in Arrived, NEW i \in 1 .. FullEnd
             PROVE  bytes[i] = PlainMessage(name)[i]
  BY DEF FullBlocksArrive
<1>1. \/ place = "exit" /\ name = "request"
      \/ place = "home" /\ name = "answer"
  BY DEF Arrived
<1>2. Agree(bytes, PlainMessage(name))
  BY <1>1 DEF CipherInv, HasArrived
<1>3. QED
  BY <1>2 DEF Agree

(* The header and the full blocks of a message arrive as they were sent,   *)
(* through send_tor_buffer and recv_tor_buffer of the client and of any    *)
(* number of relays, whatever the size of a block and of a message that is *)
(* a whole number of blocks long.                                          *)
THEOREM FullBlocksAreKept == CipherSpec => []FullBlocksArrive
<1>1. CipherInit => CipherInv
  BY DEF CipherInit, CipherInv, OnItsWay, GoingDown, GoingUp, HasArrived
<1>2. QED
  BY <1>1, CipherStep, ArrivedWhole, PTL DEF CipherSpec
=============================================================================
