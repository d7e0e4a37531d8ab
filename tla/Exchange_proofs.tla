---------------------------- MODULE Exchange_proofs ----------------------------
(***************************************************************************)
(* What one end of a connection hears is what the other has said, for      *)
(* every size of packets and chunks, every cut of the streams, any number  *)
(* of requests, and any number of receives that are given up and of        *)
(* processes that end.                                                     *)
(***************************************************************************)
EXTENDS Exchange, Division_proofs, SequenceTheorems

-----------------------------------------------------------------------------
(* The inductive invariant                                                   *)

\* What an end has heard ends where its receive began, or earlier, when a
\* receive was given up inside a packet; until then it is what was said.
StreamInv(e) ==
    /\ PktUnits * Len(heard[e]) <= from[e]
    /\ InStep(e) => /\ Len(heard[e]) <= Len(said[Other(e)])
                    /\ \A i \in 1..Len(heard[e]) : heard[e][i] = said[Other(e)][i]

\* Commands ask for no responses.
QueueInv(e) == \A i \in 1..Len(queue[e]) : queue[e][i].msg_code # "RES"

\* An end says ACP before anything else, or can say no more.
GreetingInv(e) ==
    /\ pc[e] = "hello" => said[e] = <<>>
    /\ said[e] = <<>> => pc[e] \in {"hello"} \cup Gone \/ link[e] # "up"
    /\ said[e] # <<>> => said[e][1].msg_code = "ACP"

\* Packet p is a piece of a chunk.
Piece(p) == p.msg_code = "RES" /\ p.error = 0

\* What an end has said tiles the chunks, but for the one it is at work on.
TileInv(e) ==
    \A i \in 1..Len(said[e]) :
        Piece(said[e][i]) =>
            /\ said[e][i].size \in 1..DATA_MAX
            /\ said[e][i].offset + said[e][i].size <= said[e][i].hash
            /\ Begins(said[e][i]) \/ (i > 1 /\ Continues(said[e][i - 1], said[e][i]))
            /\ \/ Finishes(said[e][i]) \/ i = Len(said[e])
               \/ Continues(said[e][i], said[e][i + 1])

\* The last packet is the one before what is still to be sent: a piece, unless
\* nothing of the chunk was sent yet.
Last(e) == said[e][Len(said[e])]
RestInv(e) ==
    /\ pc[e] = "respond" =>
          /\ rest[e].size > 0
          /\ link[e] = "up" /\ rest[e].offset # 0 =>
                /\ said[e] # <<>> /\ Piece(Last(e))
                /\ Last(e).hash = rest[e].offset + rest[e].size
                /\ Last(e).offset + Last(e).size = rest[e].offset
    /\ (said[e] # <<>> /\ Piece(Last(e)) /\ ~Finishes(Last(e))
           /\ link[e] = "up" /\ pc[e] \in Serving) =>
          pc[e] = "respond" /\ rest[e].offset # 0

SpeechInv(e) == QueueInv(e) /\ GreetingInv(e) /\ TileInv(e) /\ RestInv(e)

Inv == TypeOK /\ \A e \in Ends : StreamInv(e) /\ SpeechInv(e)

-----------------------------------------------------------------------------
(* The two ends, and positions in a stream                                   *)

LEMMA OtherEnd ==
    \A e \in Ends : /\ Other(e) \in Ends /\ Other(e) # e
                    /\ Other(Other(e)) = e
                    /\ \A g \in Ends : g = e \/ g = Other(e)
<1>1. PICK a \in Ends, b \in Ends : a # b /\ Ends = {a, b}
    BY ExchangeAssumption
<1>2. Other(a) = b /\ Other(b) = a
    BY <1>1 DEF Other
<1> QED
    BY <1>1, <1>2

LEMMA Constants == /\ PktUnits \in Nat /\ PktUnits > 0
                   /\ DATA_MAX \in Nat /\ DATA_MAX > 0
                   /\ Chunks \subseteq Nat /\ MaxRequests \in Nat /\ MaxFaults \in Nat
BY ExchangeAssumption

LEMMA Product ==
    ASSUME NEW n \in Nat
    PROVE  PktUnits * n \in Nat /\ PktUnits * (n + 1) = PktUnits * n + PktUnits
BY Constants

LEMMA PacketTypes ==
    /\ \A code \in Codes : Plain(code) \in Packets
    /\ \A p \in Packets : pkt_unmarshall(pkt_marshall(p)) = p
    /\ \A p \in Packets :
          /\ p.msg_code \in Codes /\ p.error \in 0..255
          /\ p.offset \in Nat /\ p.size \in Nat /\ p.hash \in Nat
<1>1. \A code \in Codes : Plain(code) \in Packets
    BY DEF Plain, pkt_create, Packets
<1>2. \A p \in Packets : pkt_unmarshall(pkt_marshall(p)) = p
    BY DEF pkt_marshall, pkt_unmarshall, pkt_create, Packets
<1> QED
    BY <1>1, <1>2 DEF Packets

\* A complete receive that began at a multiple of PktUnits reads the packet that
\* was said there, and any complete receive lies inside a packet that was said.
LEMMA Reading ==
    ASSUME TypeOK, NEW e \in Ends, NEW p \in Readings(e)
    PROVE  /\ p \in Packets
           /\ read[e] = from[e] + PktUnits
           /\ from[e] = PktUnits * Len(heard[e]) =>
                 /\ Len(heard[e]) + 1 <= Len(said[Other(e)])
                 /\ p = said[Other(e)][Len(heard[e]) + 1]
<1> DEFINE f == Other(e)
           k == from[e] \div PktUnits
           n == Len(said[f])
           q == said[f][k + 1]
<1>1. /\ f \in Ends /\ said[f] \in Seq(Packets) /\ n \in Nat
      /\ from[e] \in Nat /\ read[e] \in Nat /\ limit[e] \in Nat
      /\ heard[e] \in Seq(Packets) /\ Len(heard[e]) \in Nat
    <2>1. /\ \A g \in Ends : said[g] \in Seq(Packets) /\ heard[g] \in Seq(Packets)
          /\ \A g \in Ends : from[g] \in Nat /\ read[g] \in Nat /\ limit[g] \in Nat
        BY DEF TypeOK
    <2>2. f \in Ends
        BY OtherEnd
    <2> HIDE DEF f
    <2> QED
        BY <2>1, <2>2
<1>2. read[e] = from[e] + PktUnits
    BY <1>1, Constants DEF Readings, Complete, Held
<1>3. from[e] + PktUnits <= PktUnits * n
    <2>1. read[e] <= limit[e] /\ limit[e] <= Sent(f)
        BY DEF TypeOK
    <2>2. Sent(f) = PktUnits * n
        BY DEF Sent
    <2>3. PktUnits * n \in Nat
        BY <1>1, Product
    <2> HIDE DEF f, n
    <2> QED
        BY <1>1, <1>2, <2>1, <2>2, <2>3, Constants
<1>4. k \in Nat /\ k + 1 <= n
    <2> HIDE DEF n, f
    <2>1. n \in Int /\ from[e] \in Int /\ from[e] >= 0 /\ PktUnits \in Int /\ PktUnits > 0
        BY <1>1, Constants
    <2>2. k \in Int /\ k >= 0 /\ k + 1 <= n
        BY <1>3, <2>1, Fits
    <2> QED
        BY <2>2
<1> HIDE DEF k
<1>5. q \in Packets
    BY <1>1, <1>4
<1>6. \/ from[e] % PktUnits = 0 /\ p = pkt_unmarshall(pkt_marshall(q))
      \/ from[e] % PktUnits # 0 /\ \E code \in Codes : p = Plain(code)
    BY DEF Readings, Codes, k
<1> HIDE DEF q
<1>7. p \in Packets
    BY <1>5, <1>6, PacketTypes
<1>8. ASSUME from[e] = PktUnits * Len(heard[e])
      PROVE  Len(heard[e]) = k /\ p = q
    <2> DEFINE c == Len(heard[e])
    <2>1. c \in Nat /\ PktUnits * c \in Nat /\ from[e] = PktUnits * c
        BY <1>1, <1>8, Product
    <2> HIDE DEF c
    <2>2. /\ c \in Int /\ from[e] \in Int /\ PktUnits \in Int /\ PktUnits > 0
          /\ 0 \in Int /\ 0 \in 0..PktUnits - 1 /\ from[e] = PktUnits * c + 0
        BY <1>1, <2>1, Constants
    <2>3. k = c /\ from[e] % PktUnits = 0
        BY <2>2, Divided DEF k
    <2> QED
        BY <1>5, <1>6, <2>3, PacketTypes DEF c
<1> QED
    BY <1>2, <1>4, <1>7, <1>8 DEF q

-----------------------------------------------------------------------------
(* The streams                                                               *)

ControlOK ==
    /\ pc \in [Ends -> Serving \cup Gone]
    /\ queue \in [Ends -> Seq(Packets)]
    /\ asked \in [Ends -> 0..MaxRequests]
    /\ rest \in [Ends -> [offset : Nat, size : Nat]]
    /\ said \in [Ends -> Seq(Packets)]
    /\ faults \in 0..MaxFaults
    /\ link \in [Ends -> {"up", "closed", "due", "reset"}]

PositionsOK ==
    /\ heard \in [Ends -> Seq(Packets)]
    /\ from \in [Ends -> Nat] /\ read \in [Ends -> Nat] /\ limit \in [Ends -> Nat]
    /\ \A e \in Ends : /\ Held(e) \in 0..PktUnits
                       /\ read[e] <= limit[e]
                       /\ limit[e] <= Sent(Other(e))

LEMMA TypeParts == TypeOK <=> ControlOK /\ PositionsOK
BY DEF TypeOK, ControlOK, PositionsOK

\* Nothing that was said is taken back, and no more can reach an end than was
\* said to it.
Grows ==
    /\ said' \in [Ends -> Seq(Packets)]
    /\ \A g \in Ends : /\ Len(said[g]) <= Len(said'[g])
                       /\ \A i \in 1..Len(said[g]) : said'[g][i] = said[g][i]
    /\ limit' \in [Ends -> Nat]
    /\ \A g \in Ends : limit[g] <= limit'[g] /\ limit'[g] <= Sent(Other(g))'

\* The facts about one end.
LEMMA EndTypes ==
    ASSUME TypeOK, NEW g \in Ends
    PROVE  /\ pc[g] \in Serving \cup Gone
           /\ queue[g] \in Seq(Packets) /\ Len(queue[g]) \in Nat
           /\ said[g] \in Seq(Packets) /\ Len(said[g]) \in Nat
           /\ heard[g] \in Seq(Packets) /\ Len(heard[g]) \in Nat
           /\ rest[g].offset \in Nat /\ rest[g].size \in Nat
           /\ from[g] \in Nat /\ read[g] \in Nat /\ limit[g] \in Nat
           /\ from[g] <= read[g] /\ read[g] - from[g] <= PktUnits
           /\ read[g] <= limit[g] /\ limit[g] <= Sent(Other(g))
           /\ link[g] \in {"up", "closed", "due", "reset"}
<1>1. /\ from[g] \in Nat /\ read[g] \in Nat /\ limit[g] \in Nat
      /\ Held(g) \in 0..PktUnits
      /\ read[g] <= limit[g] /\ limit[g] <= Sent(Other(g))
    BY DEF TypeOK
<1>2. from[g] <= read[g] /\ read[g] - from[g] <= PktUnits
    BY <1>1, Constants DEF Held
<1>3. /\ pc[g] \in Serving \cup Gone /\ rest[g].offset \in Nat /\ rest[g].size \in Nat
      /\ queue[g] \in Seq(Packets) /\ said[g] \in Seq(Packets) /\ heard[g] \in Seq(Packets)
      /\ link[g] \in {"up", "closed", "due", "reset"}
    BY DEF TypeOK
<1> QED
    BY <1>1, <1>2, <1>3

LEMMA GrownTypes ==
    ASSUME Grows, NEW g \in Ends
    PROVE  /\ said'[g] \in Seq(Packets) /\ Len(said'[g]) \in Nat
           /\ Len(said[g]) <= Len(said'[g])
           /\ \A i \in 1..Len(said[g]) : said'[g][i] = said[g][i]
           /\ limit'[g] \in Nat /\ limit[g] <= limit'[g]
           /\ limit'[g] <= Sent(Other(g))'
BY DEF Grows

LEMMA GrowsNot ==
    ASSUME TypeOK, UNCHANGED <<said, limit>>
    PROVE  Grows
<1>1. \A g \in Ends : /\ said[g] \in Seq(Packets) /\ Len(said[g]) \in Nat
                     /\ limit[g] \in Nat /\ Sent(Other(g))' = Sent(Other(g))
    BY DEF TypeOK, Sent
<1> QED
    BY <1>1 DEF Grows, TypeOK

LEMMA PositionsSame ==
    ASSUME TypeOK, Grows, UNCHANGED <<from, read, heard>>
    PROVE  PositionsOK'
<1>1. ASSUME NEW g \in Ends
      PROVE  Held(g)' \in 0..PktUnits /\ read'[g] <= limit'[g]
    BY DEF TypeOK, Held, Grows
<1> QED
    BY <1>1 DEF PositionsOK, TypeOK, Grows

LEMMA PositionsTake ==
    ASSUME TypeOK, Grows, NEW e \in Ends, NEW p \in Readings(e), TakePacket(e, p)
    PROVE  PositionsOK'
<1>1. /\ from' = [from EXCEPT ![e] = read[e]]
      /\ heard' = [heard EXCEPT ![e] = Append(@, p)]
      /\ read' = read /\ p \in Packets
    BY Reading DEF TakePacket
<1>2. ASSUME NEW g \in Ends
      PROVE  Held(g)' \in 0..PktUnits /\ read'[g] <= limit'[g]
    <2>1. read'[g] <= limit'[g] /\ read'[g] = read[g]
        BY <1>1, EndTypes, GrownTypes
    <2>2. from'[g] = (IF g = e THEN read[g] ELSE from[g])
        BY <1>1 DEF TypeOK
    <2>3. read[g] - from'[g] \in 0..PktUnits
        BY <2>2, EndTypes, Constants
    <2> QED
        BY <2>1, <2>3 DEF Held
<1>3. heard' \in [Ends -> Seq(Packets)] /\ from' \in [Ends -> Nat]
    BY <1>1 DEF TypeOK
<1> QED
    BY <1>1, <1>2, <1>3 DEF PositionsOK, TypeOK, Grows

LEMMA StreamSame ==
    ASSUME TypeOK, NEW g \in Ends, StreamInv(g), Grows,
           from'[g] = from[g], heard'[g] = heard[g]
    PROVE  StreamInv(g)'
<1>1. InStep(g)' <=> InStep(g)
    BY DEF InStep
<1>2. ASSUME InStep(g)
      PROVE  /\ Len(heard[g]) <= Len(said'[Other(g)])
             /\ \A i \in 1..Len(heard[g]) : heard[g][i] = said'[Other(g)][i]
    <2>1. /\ Other(g) \in Ends
          /\ heard[g] \in Seq(Packets) /\ Len(heard[g]) \in Nat
          /\ said[Other(g)] \in Seq(Packets) /\ Len(said[Other(g)]) \in Nat
          /\ said'[Other(g)] \in Seq(Packets) /\ Len(said'[Other(g)]) \in Nat
        BY OtherEnd, EndTypes, GrownTypes
    <2>2. /\ Len(heard[g]) <= Len(said[Other(g)])
          /\ \A i \in 1..Len(heard[g]) : heard[g][i] = said[Other(g)][i]
        BY <1>2 DEF StreamInv
    <2>3. /\ Len(said[Other(g)]) <= Len(said'[Other(g)])
          /\ \A i \in 1..Len(said[Other(g)]) : said'[Other(g)][i] = said[Other(g)][i]
        BY <2>1, GrownTypes
    <2> QED
        BY <2>1, <2>2, <2>3
<1> QED
    BY <1>1, <1>2 DEF StreamInv

LEMMA StreamTakes ==
    ASSUME TypeOK, Grows, NEW e \in Ends, StreamInv(e), NEW p \in Readings(e),
           TakePacket(e, p)
    PROVE  StreamInv(e)'
<1> DEFINE n == Len(heard[e])
           f == Other(e)
<1>1. /\ f \in Ends /\ heard[e] \in Seq(Packets) /\ n \in Nat
      /\ from[e] \in Nat /\ read[e] \in Nat /\ p \in Packets
      /\ said[f] \in Seq(Packets) /\ Len(said[f]) \in Nat
      /\ said'[f] \in Seq(Packets) /\ Len(said'[f]) \in Nat
    BY OtherEnd, Reading, EndTypes, GrownTypes
<1>2. heard'[e] = Append(heard[e], p) /\ from'[e] = from[e] + PktUnits
    BY Reading DEF TakePacket, TypeOK
<1>3. /\ Len(heard'[e]) = n + 1 /\ heard'[e][n + 1] = p
      /\ \A i \in 1..n : heard'[e][i] = heard[e][i]
    BY <1>1, <1>2
<1>4. PktUnits * n \in Nat /\ PktUnits * (n + 1) = PktUnits * n + PktUnits
    BY <1>1, Product
<1>5. PktUnits * n <= from[e]
    BY DEF StreamInv
<1>6. PktUnits * Len(heard'[e]) <= from'[e]
    <2> HIDE DEF n
    <2> QED
        BY <1>1, <1>2, <1>3, <1>4, <1>5, Constants
<1>7. ASSUME InStep(e)'
      PROVE  /\ Len(heard'[e]) <= Len(said'[f])
             /\ \A i \in 1..Len(heard'[e]) : heard'[e][i] = said'[f][i]
    <2>1. from'[e] = PktUnits * (n + 1)
        BY <1>3, <1>7 DEF InStep
    <2>2. from[e] = PktUnits * n
        <3> HIDE DEF n
        <3> QED
            BY <1>1, <1>2, <1>4, <2>1, Constants
    <2>3. /\ n + 1 <= Len(said[f]) /\ p = said[f][n + 1]
          /\ n <= Len(said[f]) /\ \A i \in 1..n : heard[e][i] = said[f][i]
        BY <2>2, Reading DEF StreamInv, InStep
    <2>4. \A i \in 1..Len(said[f]) : said'[f][i] = said[f][i]
        BY <1>1 DEF Grows
    <2>5. Len(said[f]) <= Len(said'[f])
        BY <1>1 DEF Grows
    <2> HIDE DEF n, f
    <2>6. ASSUME NEW i \in 1..n + 1 PROVE heard'[e][i] = said'[f][i]
        <3>1. CASE i = n + 1
            BY <1>1, <1>3, <2>3, <2>4, <3>1
        <3>2. CASE i \in 1..n
            BY <1>1, <1>3, <2>3, <2>4, <3>2
        <3> QED
            BY <1>1, <2>6, <3>1, <3>2
    <2> QED
        BY <1>1, <1>3, <2>3, <2>5, <2>6
<1> QED
    BY <1>6, <1>7 DEF StreamInv

\* A receive that is given up inside a packet loses the step for ever.
LEMMA StreamDrops ==
    ASSUME TypeOK, NEW e \in Ends, StreamInv(e), heard'[e] = heard[e],
           from'[e] = read[e], from[e] < read[e]
    PROVE  StreamInv(e)'
<1> DEFINE u == PktUnits * Len(heard[e])
<1>1. /\ from[e] \in Nat /\ read[e] \in Nat /\ u \in Nat
      /\ u <= from[e] /\ PktUnits * Len(heard'[e]) = u
    BY Product DEF TypeOK, StreamInv
<1> HIDE DEF u
<1>2. u <= from'[e] /\ from'[e] # u
    BY <1>1
<1> QED
    BY <1>1, <1>2 DEF StreamInv, InStep

-----------------------------------------------------------------------------
(* What an end says                                                          *)

\* A step of end e, which goes on at `to` or is killed, and says p if it can.
Says(e, p, to) ==
    /\ pc' \in [Ends -> Serving \cup Gone]
    /\ link' \in [Ends -> {"up", "closed", "due", "reset"}]
    /\ Grows
    /\ \A g \in Ends \ {e} : pc'[g] = pc[g] /\ said'[g] = said[g]
    /\ \A g \in Ends : link'[g] = "up" <=> link[g] = "up"
    /\ IF link[e] = "up" THEN said'[e] = Append(said[e], p) /\ pc'[e] = to
       ELSE said'[e] = said[e] /\ pc'[e] \in {to, "killed"}

LEMMA Sending ==
    ASSUME TypeOK, NEW e \in Ends, NEW p \in Packets, NEW to \in Serving,
           try_send(e, p, to)
    PROVE  Says(e, p, to)
<1>1. /\ pc' \in [Ends -> Serving \cup Gone]
      /\ link' \in [Ends -> {"up", "closed", "due", "reset"}]
    <2>1. /\ pc \in [Ends -> Serving \cup Gone]
          /\ link \in [Ends -> {"up", "closed", "due", "reset"}]
        BY DEF TypeOK
    <2>2. /\ pc' = [pc EXCEPT ![e] = to] \/ pc' = [pc EXCEPT ![e] = "killed"]
          /\ \/ link' = link
             \/ link' = [link EXCEPT ![e] = IF @ = "closed" THEN "due" ELSE @]
        BY DEF try_send, Goes
    <2>3. "killed" \in Gone
        BY DEF Gone
    <2>4. pc' \in [Ends -> Serving \cup Gone]
        BY <2>1, <2>2, <2>3
    <2> QED
        BY <2>1, <2>2, <2>4
<1>2. /\ \A g \in Ends \ {e} : pc'[g] = pc[g] /\ said'[g] = said[g]
      /\ \A g \in Ends : link'[g] = "up" <=> link[g] = "up"
    BY DEF try_send, Goes, TypeOK
<1>3. IF link[e] = "up" THEN said'[e] = Append(said[e], p) /\ pc'[e] = to
      ELSE said'[e] = said[e] /\ pc'[e] \in {to, "killed"}
    BY DEF try_send, Goes, TypeOK
<1>4. Grows
    <2>1. CASE UNCHANGED <<said, limit>>
        BY <2>1, GrowsNot
    <2>2. CASE /\ said' = [said EXCEPT ![e] = Append(@, p)]
               /\ limit' = [limit EXCEPT ![Other(e)] = @ + PktUnits]
        <3> DEFINE n == Len(said[e])
        <3>1. /\ said' \in [Ends -> Seq(Packets)] /\ n \in Nat
              /\ said[e] \in Seq(Packets)
              /\ said'[e] = Append(said[e], p)
              /\ \A g \in Ends \ {e} : said'[g] = said[g]
            BY <2>2, EndTypes DEF TypeOK
        <3>2. Len(said'[e]) = n + 1 /\ \A i \in 1..n : said'[e][i] = said[e][i]
            BY <3>1
        <3>3. /\ limit'[Other(e)] = limit[Other(e)] + PktUnits
              /\ \A g \in Ends \ {Other(e)} : limit'[g] = limit[g]
              /\ limit' \in [Ends -> Nat]
            <4>1. Other(e) \in Ends /\ limit \in [Ends -> Nat]
                BY OtherEnd DEF TypeOK
            <4>2. limit[Other(e)] + PktUnits \in Nat
                BY <4>1, Constants
            <4> QED
                BY <2>2, <4>1, <4>2
        <3>4. Sent(e)' = Sent(e) + PktUnits /\ Sent(e) \in Nat
            BY <3>1, <3>2, Product DEF Sent
        <3>5. \A g \in Ends \ {e} : Sent(g)' = Sent(g)
            BY <3>1 DEF Sent
        <3>6. ASSUME NEW g \in Ends
              PROVE  limit[g] <= limit'[g] /\ limit'[g] <= Sent(Other(g))'
            <4>1. limit[g] \in Nat /\ limit[g] <= Sent(Other(g))
                BY EndTypes
            <4>2. CASE g = Other(e)
                BY <3>3, <3>4, <4>1, <4>2, OtherEnd, Constants
            <4>3. CASE g = e
                BY <3>3, <3>5, <4>1, <4>3, OtherEnd
            <4> QED
                BY <4>2, <4>3, OtherEnd
        <3>7. ASSUME NEW g \in Ends
              PROVE  /\ Len(said[g]) <= Len(said'[g])
                     /\ \A i \in 1..Len(said[g]) : said'[g][i] = said[g][i]
            <4>1. CASE g = e
                BY <3>1, <3>2, <4>1
            <4>2. CASE g # e
                BY <3>1, <4>2, EndTypes
            <4> QED
                BY <4>1, <4>2
        <3> QED
            BY <3>1, <3>3, <3>6, <3>7 DEF Grows
    <2> QED
        BY <2>1, <2>2 DEF try_send
<1> QED
    BY <1>1, <1>2, <1>3, <1>4 DEF Says

\* What is said at the other end, or by nobody.
LEMMA SpeechSame ==
    ASSUME NEW g \in Ends, SpeechInv(g),
           pc'[g] = pc[g], queue'[g] = queue[g], rest'[g] = rest[g], said'[g] = said[g],
           link'[g] = "up" => link[g] = "up"
    PROVE  SpeechInv(g)'
<1>1. QueueInv(g)' /\ TileInv(g)'
    BY DEF SpeechInv, QueueInv, TileInv
<1>2. GreetingInv(g)'
    BY DEF SpeechInv, GreetingInv
<1>3. RestInv(g)'
    BY DEF SpeechInv, RestInv, Last
<1> QED
    BY <1>1, <1>2, <1>3 DEF SpeechInv

\* An end goes on without a word, between two packets of its own.
LEMMA SpeechMoves ==
    ASSUME NEW e \in Ends, SpeechInv(e), QueueInv(e)',
           said'[e] = said[e], link'[e] = "up" => link[e] = "up",
           \/ pc[e] \in Serving \ {"hello", "respond"}
              /\ pc'[e] \in Serving \ {"hello", "respond"}
           \/ pc'[e] \in Gone
    PROVE  SpeechInv(e)'
<1>1. TileInv(e)'
    BY DEF SpeechInv, TileInv
<1>2. GreetingInv(e)'
    BY DEF SpeechInv, GreetingInv, Serving, Gone
<1>3. RestInv(e)'
    BY DEF SpeechInv, RestInv, Last, Serving, Gone
<1> QED
    BY <1>1, <1>2, <1>3 DEF SpeechInv

\* A packet that is no piece of a chunk, said between two responses.
LEMMA SpeechSays ==
    ASSUME TypeOK, NEW e \in Ends, SpeechInv(e), QueueInv(e)',
           NEW p \in Packets, NEW to \in Serving \ {"hello", "respond"},
           Says(e, p, to), ~Piece(p),
           pc[e] = "hello" => p.msg_code = "ACP",
           pc[e] \in Serving \ {"respond"}
    PROVE  SpeechInv(e)'
<1> DEFINE n == Len(said[e])
<1>0. said[e] \in Seq(Packets) /\ n \in Nat
    BY EndTypes
<1>1. CASE link[e] # "up"
    <2>1. said'[e] = said[e] /\ link'[e] # "up" /\ pc'[e] # "hello" /\ pc'[e] # "respond"
        BY <1>1 DEF Says, Serving, Gone
    <2>2. TileInv(e)' /\ GreetingInv(e)'
        BY <2>1 DEF SpeechInv, TileInv, GreetingInv
    <2>3. RestInv(e)'
        BY <2>1 DEF RestInv
    <2> QED
        BY <2>2, <2>3 DEF SpeechInv
<1>2. CASE link[e] = "up"
    <2>1. /\ said'[e] = Append(said[e], p) /\ pc'[e] = to
          /\ Len(said'[e]) = n + 1 /\ said'[e][n + 1] = p
          /\ \A i \in 1..n : said'[e][i] = said[e][i]
          /\ said'[e] # <<>>
        BY <1>0, <1>2 DEF Says
    <2> HIDE DEF n
    <2>2. GreetingInv(e)'
        <3>1. CASE pc[e] = "hello"
            BY <2>1, <3>1, <1>0 DEF SpeechInv, GreetingInv, n
        <3>2. CASE pc[e] # "hello"
            <4>1. said[e] # <<>> /\ said[e][1].msg_code = "ACP"
                BY <1>2, <3>2 DEF SpeechInv, GreetingInv, Serving, Gone
            <4>2. 1 \in 1..n
                BY <1>0, <4>1 DEF n
            <4> QED
                BY <2>1, <4>1, <4>2 DEF GreetingInv
        <3> QED
            BY <3>1, <3>2
    <2>3. TileInv(e)'
        <3>1. SUFFICES ASSUME NEW i \in 1..n + 1, Piece(said'[e][i])
                       PROVE  /\ said'[e][i].size \in 1..DATA_MAX
                              /\ said'[e][i].offset + said'[e][i].size <= said'[e][i].hash
                              /\ \/ Begins(said'[e][i])
                                 \/ i > 1 /\ Continues(said'[e][i - 1], said'[e][i])
                              /\ \/ Finishes(said'[e][i]) \/ i = n + 1
                                 \/ Continues(said'[e][i], said'[e][i + 1])
            BY <2>1 DEF TileInv
        <3>2. i \in 1..n /\ said'[e][i] = said[e][i] /\ Piece(said[e][i])
            BY <1>0, <2>1, <3>1
        <3>3. i > 1 => said'[e][i - 1] = said[e][i - 1]
            BY <1>0, <2>1, <3>2
        <3>4. i < n => said'[e][i + 1] = said[e][i + 1]
            BY <1>0, <2>1, <3>2
        <3>5. /\ said[e][i].size \in 1..DATA_MAX
              /\ said[e][i].offset + said[e][i].size <= said[e][i].hash
              /\ Begins(said[e][i]) \/ (i > 1 /\ Continues(said[e][i - 1], said[e][i]))
              /\ Finishes(said[e][i]) \/ i = n \/ Continues(said[e][i], said[e][i + 1])
            BY <3>2 DEF SpeechInv, TileInv, n
        <3>6. i = n => Finishes(said[e][i])
            <4>1. ASSUME i = n PROVE Last(e) = said[e][i] /\ said[e] # <<>>
                BY <1>0, <3>2, <4>1 DEF Last, n
            <4> QED
                BY <1>2, <3>2, <4>1 DEF SpeechInv, RestInv
        <3>7. i < n \/ i = n
            BY <1>0, <3>2
        <3> QED
            BY <3>2, <3>3, <3>4, <3>5, <3>6, <3>7
    <2>4. RestInv(e)'
        <3>1. Last(e)' = p
            BY <2>1 DEF Last
        <3> QED
            BY <2>1, <3>1 DEF RestInv
    <2> QED
        BY <2>2, <2>3, <2>4 DEF SpeechInv
<1> QED
    BY <1>1, <1>2

\* What send_res_pkts has left after one packet.
Piecemeal(e) == IF rest[e].size > DATA_MAX THEN DATA_MAX ELSE rest[e].size

\* One round of the loop of send_res_pkts: the packet continues the chunk where
\* the one before it ended, and is the last one exactly if nothing is left.
LEMMA SpeechResponds ==
    ASSUME TypeOK, NEW e \in Ends, SpeechInv(e), Respond(e)
    PROVE  /\ \E p \in Packets, to \in Serving : Says(e, p, to)
           /\ SpeechInv(e)'
           /\ rest' \in [Ends -> [offset : Nat, size : Nat]]
           /\ \A g \in Ends \ {e} : rest'[g] = rest[g]
<1> DEFINE o == rest[e].offset
           s == rest[e].size
           d == Piecemeal(e)
           p == pkt_create("RES", 0, o, d, o + s)
           to == IF s - d > 0 THEN "respond" ELSE "request"
           n == Len(said[e])
<1>1. /\ o \in Nat /\ s \in Nat /\ s > 0
      /\ said[e] \in Seq(Packets) /\ n \in Nat
      /\ pc[e] = "respond"
    <2>1. pc[e] = "respond"
        BY DEF Respond
    <2> QED
        BY <2>1, EndTypes DEF SpeechInv, RestInv
<1>2. /\ d \in 1..DATA_MAX /\ d <= s /\ d \in Nat /\ s - d \in Nat /\ o + d \in Nat
      /\ o + s \in Nat /\ s - d > 0 <=> d # s
    BY <1>1, Constants DEF Piecemeal
<1>3. /\ rest' = [rest EXCEPT ![e] = [offset |-> o + d, size |-> s - d]]
      /\ try_send(e, p, to) /\ queue' = queue
    BY DEF Respond, Piecemeal
<1> HIDE DEF o, s, d
<1>4. /\ p \in Packets /\ to \in Serving /\ Piece(p)
      /\ p.offset = o /\ p.size = d /\ p.hash = o + s /\ p.error = 0
      /\ p.msg_code = "RES"
    BY <1>1, <1>2 DEF pkt_create, Packets, Codes, Serving, Piece
<1>5. Finishes(p) <=> s - d = 0
    BY <1>1, <1>2, <1>4 DEF Finishes
<1>6. /\ rest' \in [Ends -> [offset : Nat, size : Nat]]
      /\ rest'[e].offset = o + d /\ rest'[e].size = s - d
      /\ \A g \in Ends \ {e} : rest'[g] = rest[g]
    BY <1>2, <1>3 DEF TypeOK
<1> HIDE DEF p, to
<1>7. Says(e, p, to)
    BY <1>3, <1>4, Sending
<1>8. QueueInv(e)'
    BY <1>3 DEF SpeechInv, QueueInv
<1>9. to = (IF s - d > 0 THEN "respond" ELSE "request")
    BY DEF to
<1>10. CASE link[e] # "up"
    <2>1. said'[e] = said[e] /\ link'[e] # "up" /\ pc'[e] \in {to, "killed"}
        BY <1>7, <1>10 DEF Says
    <2>2. TileInv(e)' /\ GreetingInv(e)'
        BY <1>9, <2>1 DEF SpeechInv, TileInv, GreetingInv
    <2>3. RestInv(e)'
        BY <1>6, <1>9, <2>1 DEF RestInv
    <2> QED
        BY <1>4, <1>6, <1>7, <1>8, <2>2, <2>3 DEF SpeechInv
<1>11. CASE link[e] = "up"
    <2>1. /\ said'[e] = Append(said[e], p) /\ pc'[e] = to
          /\ Len(said'[e]) = n + 1 /\ said'[e][n + 1] = p
          /\ \A i \in 1..n : said'[e][i] = said[e][i]
          /\ said'[e] # <<>>
        BY <1>1, <1>4, <1>7, <1>11 DEF Says
    <2>2. said[e] # <<>> /\ said[e][1].msg_code = "ACP"
        BY <1>1, <1>11 DEF SpeechInv, GreetingInv, Gone
    <2>3. n > 0 /\ Last(e) = said[e][n] /\ Last(e) \in Packets
        BY <1>1, <2>2 DEF Last
    <2>4. o # 0 => /\ Piece(Last(e)) /\ Last(e).hash = p.hash
                   /\ Last(e).offset + Last(e).size = p.offset
        BY <1>1, <1>4, <1>11 DEF SpeechInv, RestInv, o, s
    <2>5. o # 0 => Continues(said[e][n], p)
        BY <1>4, <2>3, <2>4 DEF Continues, Piece
    <2>6. o = 0 /\ Piece(Last(e)) => Finishes(Last(e))
        BY <1>1, <1>11, <2>2 DEF SpeechInv, RestInv, o, Serving
    <2>7. o = 0 => Begins(p)
        BY <1>4 DEF Begins
    <2> HIDE DEF n
    <2>8. GreetingInv(e)'
        <3>1. said'[e][1].msg_code = "ACP"
            BY <1>1, <2>1, <2>2, <2>3
        <3> QED
            BY <1>9, <2>1, <3>1 DEF GreetingInv
    <2>9. TileInv(e)'
        <3>1. SUFFICES ASSUME NEW i \in 1..n + 1, Piece(said'[e][i])
                       PROVE  /\ said'[e][i].size \in 1..DATA_MAX
                              /\ said'[e][i].offset + said'[e][i].size <= said'[e][i].hash
                              /\ \/ Begins(said'[e][i])
                                 \/ i > 1 /\ Continues(said'[e][i - 1], said'[e][i])
                              /\ \/ Finishes(said'[e][i]) \/ i = n + 1
                                 \/ Continues(said'[e][i], said'[e][i + 1])
            BY <2>1 DEF TileInv
        <3>2. CASE i = n + 1
            <4>1. said'[e][i] = p /\ said'[e][i - 1] = said[e][n] /\ i > 1
                BY <1>1, <2>1, <2>3, <3>2
            <4>2. Begins(p) \/ Continues(said[e][n], p)
                BY <2>5, <2>7
            <4>3. p.size \in 1..DATA_MAX /\ p.offset + p.size <= p.hash
                BY <1>1, <1>2, <1>4
            <4> QED
                BY <3>2, <4>1, <4>2, <4>3
        <3>3. CASE i \in 1..n
            <4>1. said'[e][i] = said[e][i] /\ Piece(said[e][i])
                BY <2>1, <3>1, <3>3
            <4>2. i > 1 => said'[e][i - 1] = said[e][i - 1]
                BY <1>1, <2>1, <3>3
            <4>3. i < n => said'[e][i + 1] = said[e][i + 1]
                BY <1>1, <2>1, <3>3
            <4>4. /\ said[e][i].size \in 1..DATA_MAX
                  /\ said[e][i].offset + said[e][i].size <= said[e][i].hash
                  /\ Begins(said[e][i]) \/ (i > 1 /\ Continues(said[e][i - 1], said[e][i]))
                  /\ Finishes(said[e][i]) \/ i = n \/ Continues(said[e][i], said[e][i + 1])
                BY <3>3, <4>1 DEF SpeechInv, TileInv, n
            <4>5. i = n => Finishes(said[e][i]) \/ Continues(said[e][i], said'[e][i + 1])
                <5>1. ASSUME i = n PROVE Piece(Last(e)) /\ said[e][i] = Last(e)
                                         /\ said'[e][i + 1] = p
                    BY <2>1, <2>3, <4>1, <5>1
                <5> QED
                    BY <2>3, <2>5, <2>6, <5>1
            <4>6. i < n \/ i = n
                BY <1>1, <3>3
            <4> QED
                BY <4>1, <4>2, <4>3, <4>4, <4>5, <4>6
        <3> QED
            BY <1>1, <3>1, <3>2, <3>3
    <2>10. RestInv(e)'
        <3>1. Last(e)' = p
            BY <2>1 DEF Last
        <3>2. ASSUME pc'[e] = "respond"
              PROVE  /\ rest'[e].size > 0
                     /\ said'[e] # <<>> /\ Piece(p) /\ rest'[e].offset # 0
                     /\ p.hash = rest'[e].offset + rest'[e].size
                     /\ p.offset + p.size = rest'[e].offset
            BY <1>1, <1>2, <1>4, <1>6, <1>9, <2>1, <3>2
        <3>3. pc'[e] # "respond" => Finishes(p)
            BY <1>2, <1>5, <1>9, <2>1
        <3> QED
            BY <3>1, <3>2, <3>3 DEF RestInv
    <2> QED
        BY <1>4, <1>6, <1>7, <1>8, <2>8, <2>9, <2>10 DEF SpeechInv
<1> QED
    BY <1>10, <1>11

-----------------------------------------------------------------------------
(* The steps                                                                 *)

LEMMA InvInit == Init => Inv
<1> SUFFICES ASSUME Init PROVE Inv
    OBVIOUS
<1>1. ControlOK
    BY Constants DEF Init, ControlOK, Serving
<1>2. \A e \in Ends : /\ Held(e) = 0 /\ Sent(Other(e)) = 0
                      /\ from[e] = 0 /\ read[e] = 0 /\ limit[e] = 0
                      /\ Len(heard[e]) = 0 /\ Len(said[e]) = 0 /\ Len(queue[e]) = 0
    BY OtherEnd, Constants DEF Init, Held, Sent
<1>3. PositionsOK
    BY <1>2, Constants DEF Init, PositionsOK
<1>4. ASSUME NEW e \in Ends PROVE StreamInv(e)
    <2>1. Other(e) \in Ends /\ PktUnits * 0 = 0
        BY OtherEnd, Constants
    <2> QED
        BY <1>2, <2>1 DEF StreamInv
<1>5. ASSUME NEW e \in Ends PROVE SpeechInv(e)
    <2>1. QueueInv(e) /\ TileInv(e)
        BY <1>2 DEF QueueInv, TileInv
    <2>2. GreetingInv(e) /\ RestInv(e)
        BY DEF Init, GreetingInv, RestInv
    <2> QED
        BY <2>1, <2>2 DEF SpeechInv
<1> QED
    BY <1>1, <1>3, <1>4, <1>5, TypeParts DEF Inv

LEMMA InvParts ==
    ASSUME ControlOK', PositionsOK', \A g \in Ends : StreamInv(g)' /\ SpeechInv(g)'
    PROVE  Inv'
<1>1. TypeOK'
    BY DEF TypeOK, ControlOK, PositionsOK
<1> QED
    BY <1>1 DEF Inv

\* A step that takes nothing from the streams, ...
LEMMA StreamsSame ==
    ASSUME Inv, Grows, UNCHANGED <<from, read, heard>>
    PROVE  PositionsOK' /\ \A g \in Ends : StreamInv(g)'
BY PositionsSame, StreamSame DEF Inv

\* ... that takes a packet, ...
LEMMA StreamsTake ==
    ASSUME Inv, Grows, NEW e \in Ends, NEW p \in Readings(e), TakePacket(e, p)
    PROVE  PositionsOK' /\ \A g \in Ends : StreamInv(g)'
<1>1. TypeOK /\ \A g \in Ends : StreamInv(g)
    BY DEF Inv
<1>2. \A g \in Ends \ {e} : from'[g] = from[g] /\ heard'[g] = heard[g]
    BY <1>1 DEF TakePacket, TypeOK
<1> QED
    BY <1>1, <1>2, PositionsTake, StreamTakes, StreamSame

\* ... that gives up a packet it has a part of.
LEMMA StreamsDrop ==
    ASSUME Inv, NEW e \in Ends, Held(e) \in 1..(PktUnits - 1),
           from' = [from EXCEPT ![e] = read[e]],
           UNCHANGED <<said, limit, read, heard>>
    PROVE  PositionsOK' /\ \A g \in Ends : StreamInv(g)'
<1>1. TypeOK /\ Grows /\ \A g \in Ends : StreamInv(g)
    BY GrowsNot DEF Inv
<1>2. /\ from' \in [Ends -> Nat] /\ from'[e] = read[e]
      /\ \A g \in Ends \ {e} : from'[g] = from[g]
      /\ heard'[e] = heard[e]
    BY <1>1 DEF TypeOK
<1>3. from[e] < read[e]
    BY <1>1, EndTypes, Constants DEF Held
<1>4. StreamInv(e)'
    BY <1>1, <1>2, <1>3, StreamDrops
<1>5. \A g \in Ends \ {e} : StreamInv(g)'
    BY <1>1, <1>2, StreamSame
<1>6. ASSUME NEW g \in Ends
      PROVE  /\ Held(g)' \in 0..PktUnits /\ read'[g] <= limit'[g]
             /\ limit'[g] <= Sent(Other(g))'
    <2>1. /\ from[g] \in Nat /\ read[g] \in Nat /\ from[g] <= read[g]
          /\ read[g] - from[g] <= PktUnits /\ read[g] <= limit[g]
          /\ limit[g] <= Sent(Other(g))
        BY <1>1, EndTypes
    <2>2. Held(g)' \in 0..PktUnits
        BY <1>2, <2>1, Constants DEF Held
    <2> QED
        BY <2>1, <2>2 DEF Sent
<1>7. PositionsOK'
    BY <1>1, <1>2, <1>6 DEF PositionsOK, TypeOK
<1> QED
    BY <1>4, <1>5, <1>7

\* An end goes on without a word, from one packet to the next or for good.
LEMMA AllMove ==
    ASSUME Inv, NEW e \in Ends, NEW to \in Serving \cup Gone, Goes(e, to),
           UNCHANGED <<queue, rest, said>>,
           \A g \in Ends : link'[g] = "up" => link[g] = "up",
           \/ /\ pc[e] \in Serving \ {"hello", "respond"}
              /\ to \in Serving \ {"hello", "respond"}
           \/ to \in Gone
    PROVE  /\ pc' \in [Ends -> Serving \cup Gone]
           /\ \A g \in Ends : SpeechInv(g)'
<1>1. TypeOK /\ \A g \in Ends : SpeechInv(g)
    BY DEF Inv
<1>2. /\ pc' \in [Ends -> Serving \cup Gone] /\ pc'[e] = to
      /\ \A g \in Ends \ {e} : pc'[g] = pc[g]
    BY <1>1 DEF Goes, TypeOK
<1>3. SpeechInv(e)'
    <2>1. QueueInv(e)'
        BY <1>1 DEF SpeechInv, QueueInv
    <2> QED
        BY <1>1, <1>2, <2>1, SpeechMoves
<1>4. \A g \in Ends \ {e} : SpeechInv(g)'
    BY <1>1, <1>2, SpeechSame
<1> QED
    BY <1>2, <1>3, <1>4

\* An end says a packet that is no piece of a chunk.
LEMMA AllSay ==
    ASSUME Inv, NEW e \in Ends, NEW p \in Packets, ~Piece(p),
           NEW to \in Serving \ {"hello", "respond"}, try_send(e, p, to),
           pc[e] \in Serving \ {"respond"}, pc[e] = "hello" => p.msg_code = "ACP",
           queue' \in [Ends -> Seq(Packets)], QueueInv(e)',
           \A g \in Ends \ {e} : queue'[g] = queue[g],
           UNCHANGED <<asked, rest, faults>>
    PROVE  ControlOK' /\ Grows /\ \A g \in Ends : SpeechInv(g)'
<1>1. TypeOK /\ \A g \in Ends : SpeechInv(g)
    BY DEF Inv
<1>2. Says(e, p, to)
    BY <1>1, Sending
<1>3. SpeechInv(e)'
    BY <1>1, <1>2, SpeechSays
<1>4. ASSUME NEW g \in Ends \ {e} PROVE SpeechInv(g)'
    <2>1. /\ pc'[g] = pc[g] /\ said'[g] = said[g] /\ queue'[g] = queue[g]
          /\ rest'[g] = rest[g] /\ (link'[g] = "up" => link[g] = "up")
        BY <1>2 DEF Says
    <2> QED
        BY <1>1, <2>1, SpeechSame
<1>5. ControlOK'
    BY <1>1, <1>2 DEF Says, Grows, TypeOK, ControlOK
<1>6. Grows
    BY <1>2 DEF Says
<1> QED
    BY <1>3, <1>4, <1>5, <1>6

LEMMA QueueSame ==
    ASSUME Inv, UNCHANGED queue
    PROVE  /\ queue' \in [Ends -> Seq(Packets)]
           /\ \A g \in Ends : queue'[g] = queue[g] /\ QueueInv(g)'
BY DEF Inv, TypeOK, SpeechInv, QueueInv

\* A move of the handler that leaves the stream alone.
LEMMA QuietStep ==
    ASSUME Inv, NEW e \in Ends, NoPacket(e) \/ NoRequest(e)
    PROVE  Inv'
<1>1. /\ TypeOK /\ \E to \in Serving \ {"hello", "respond"} : Goes(e, to)
      /\ pc[e] \in Serving \ {"hello", "respond"}
      /\ UNCHANGED <<queue, asked, rest, said, limit, link, streamVars>>
    BY DEF Inv, NoPacket, NoRequest, Receiving, Serving
<1>2. PositionsOK' /\ \A g \in Ends : StreamInv(g)'
    BY <1>1, GrowsNot, StreamsSame DEF streamVars
<1>3. pc' \in [Ends -> Serving \cup Gone] /\ \A g \in Ends : SpeechInv(g)'
    BY <1>1, AllMove
<1>4. ControlOK'
    BY <1>1, <1>3 DEF ControlOK, TypeOK, streamVars
<1> QED
    BY <1>2, <1>3, <1>4, InvParts

\* A receive that ends inside a packet.
LEMMA DropStep ==
    ASSUME Inv, NEW e \in Ends, Stall(e) \/ CutOff(e)
    PROVE  Inv'
<1>1. /\ TypeOK /\ Goes(e, "request") /\ "request" \in Serving \ {"hello", "respond"}
      /\ pc[e] \in Serving \ {"hello", "respond"}
      /\ UNCHANGED <<queue, asked, rest, said, limit, link, read, heard>>
      /\ Held(e) \in 1..(PktUnits - 1)
      /\ from' = [from EXCEPT ![e] = read[e]]
    BY DEF Inv, Stall, CutOff, Receiving, Serving
<1>2. PositionsOK' /\ \A g \in Ends : StreamInv(g)'
    BY <1>1, StreamsDrop
<1>3. pc' \in [Ends -> Serving \cup Gone] /\ \A g \in Ends : SpeechInv(g)'
    BY <1>1, AllMove
<1>4. faults' \in 0..MaxFaults
    BY <1>1, Constants DEF TypeOK, Stall, CutOff
<1>5. ControlOK'
    BY <1>1, <1>3, <1>4 DEF ControlOK, TypeOK
<1> QED
    BY <1>2, <1>3, <1>5, InvParts

\* The units of a packet arrive.
LEMMA ReceiveStep ==
    ASSUME Inv, NEW e \in Ends, Receive(e)
    PROVE  Inv'
<1>1. PICK n \in 1..(PktUnits - Held(e)) :
          read[e] + n <= limit[e] /\ read' = [read EXCEPT ![e] = @ + n]
    BY DEF Receive
<1>2. /\ TypeOK /\ Held(e) < PktUnits
      /\ UNCHANGED <<pc, queue, asked, rest, said, limit, link, from, heard, faults>>
    BY DEF Inv, Receive
<1>3. /\ from[e] \in Nat /\ read[e] \in Nat /\ from[e] <= read[e]
      /\ Held(e) = read[e] - from[e]
    BY <1>2, EndTypes DEF Held
<1>4. n \in Nat /\ read[e] + n \in Nat /\ read[e] + n - from[e] \in 0..PktUnits
    BY <1>2, <1>3, Constants
<1>5. /\ read' \in [Ends -> Nat] /\ read'[e] = read[e] + n
      /\ \A g \in Ends \ {e} : read'[g] = read[g]
    BY <1>1, <1>2, <1>4 DEF TypeOK
<1>6. ASSUME NEW g \in Ends
      PROVE  /\ Held(g)' \in 0..PktUnits /\ read'[g] <= limit'[g]
             /\ limit'[g] <= Sent(Other(g))'
    <2>1. Held(g) \in 0..PktUnits /\ read[g] <= limit[g] /\ limit[g] <= Sent(Other(g))
        BY <1>2 DEF TypeOK
    <2>2. Held(g)' = read'[g] - from[g] /\ Sent(Other(g))' = Sent(Other(g))
        BY <1>2 DEF Held, Sent
    <2>3. CASE g = e
        <3>1. read'[g] = read[g] + n /\ read'[g] <= limit'[g]
            BY <1>1, <1>2, <1>5, <2>3
        <3>2. Held(g)' \in 0..PktUnits
            BY <1>3, <1>4, <2>2, <2>3, <3>1
        <3> QED
            BY <1>2, <2>1, <2>2, <3>1, <3>2
    <2>4. CASE g # e
        <3>1. read'[g] = read[g] /\ Held(g) = read[g] - from[g]
            BY <1>5, <2>4 DEF Held
        <3> QED
            BY <1>2, <2>1, <2>2, <3>1
    <2> QED
        BY <2>3, <2>4
<1>7. ControlOK' /\ PositionsOK'
    BY <1>2, <1>5, <1>6 DEF TypeOK, ControlOK, PositionsOK
<1>8. \A g \in Ends : StreamInv(g)' /\ SpeechInv(g)'
    <2>1. \A g \in Ends : StreamInv(g)'
        BY <1>2, GrowsNot, StreamSame DEF Inv
    <2>2. \A g \in Ends : SpeechInv(g)'
        BY <1>2, SpeechSame DEF Inv
    <2> QED
        BY <2>1, <2>2
<1> QED
    BY <1>7, <1>8, InvParts

\* A RST: nothing that has been read is lost by it.
LEMMA ResetStep ==
    ASSUME Inv, NEW e \in Ends, Reset(e)
    PROVE  Inv'
<1>1. PICK n \in read[e]..limit[e] : limit' = [limit EXCEPT ![e] = n]
    BY DEF Reset
<1>2. /\ TypeOK /\ link' = [link EXCEPT ![e] = "reset"]
      /\ UNCHANGED <<pc, queue, asked, rest, said, from, read, heard, faults>>
    BY DEF Inv, Reset, streamVars
<1>3. n \in Nat /\ read[e] <= n /\ n <= limit[e]
    BY <1>2, EndTypes
<1>4. /\ limit' \in [Ends -> Nat] /\ limit'[e] = n
      /\ \A g \in Ends \ {e} : limit'[g] = limit[g]
    BY <1>1, <1>2, <1>3 DEF TypeOK
<1>5. ASSUME NEW g \in Ends
      PROVE  /\ Held(g)' \in 0..PktUnits /\ read'[g] <= limit'[g]
             /\ limit'[g] <= Sent(Other(g))'
    <2>1. /\ Held(g) \in 0..PktUnits /\ read[g] <= limit[g]
          /\ limit[g] <= Sent(Other(g)) /\ limit[g] \in Nat
        BY <1>2 DEF TypeOK
    <2>2. Held(g)' = Held(g) /\ Sent(Other(g))' = Sent(Other(g)) /\ Sent(Other(g)) \in Nat
        <3>1. Len(said[Other(g)]) \in Nat
            BY <1>2, OtherEnd, EndTypes
        <3> QED
            BY <1>2, <3>1, Product DEF Held, Sent
    <2>3. CASE g = e
        BY <1>2, <1>3, <1>4, <2>1, <2>2, <2>3
    <2>4. CASE g # e
        BY <1>2, <1>4, <2>1, <2>2, <2>4
    <2> QED
        BY <2>3, <2>4
<1>6. ControlOK' /\ PositionsOK'
    BY <1>2, <1>4, <1>5 DEF TypeOK, ControlOK, PositionsOK
<1>7. ASSUME NEW g \in Ends PROVE StreamInv(g)'
    BY <1>2 DEF Inv, StreamInv, InStep
<1>8. \A g \in Ends : SpeechInv(g)'
    <2>1. \A g \in Ends : link'[g] = "up" => link[g] = "up"
        BY <1>2 DEF TypeOK
    <2> QED
        BY <1>2, <2>1, SpeechSame DEF Inv
<1> QED
    BY <1>6, <1>7, <1>8, InvParts

LEMMA HelloStep ==
    ASSUME Inv, NEW e \in Ends, Hello(e)
    PROVE  Inv'
<1> DEFINE p == Plain("ACP")
<1>1. /\ p \in Packets /\ ~Piece(p) /\ p.msg_code = "ACP"
    BY PacketTypes DEF Plain, pkt_create, Piece, Codes
<1> HIDE DEF p
<1>2. /\ pc[e] \in Serving \ {"respond"} /\ "await" \in Serving \ {"hello", "respond"}
      /\ try_send(e, p, "await")
      /\ UNCHANGED <<queue, asked, rest, from, read, heard, faults>>
    BY DEF Hello, Serving, streamVars, p
<1>3. ControlOK' /\ Grows /\ \A g \in Ends : SpeechInv(g)'
    BY <1>1, <1>2, QueueSame, AllSay
<1>4. PositionsOK' /\ \A g \in Ends : StreamInv(g)'
    BY <1>2, <1>3, StreamsSame
<1> QED
    BY <1>3, <1>4, InvParts

LEMMA SendRequestStep ==
    ASSUME Inv, NEW e \in Ends, SendRequest(e)
    PROVE  Inv'
<1> DEFINE p == Head(queue[e])
           to == IF p.msg_code = "DSN" THEN "leave" ELSE "receive"
<1>1. TypeOK /\ QueueInv(e) /\ queue[e] \in Seq(Packets) /\ queue[e] # <<>>
    BY EndTypes DEF Inv, SpeechInv, SendRequest
<1>2. p = queue[e][1] /\ p \in Packets /\ 1 \in 1..Len(queue[e])
    BY <1>1
<1>3. ~Piece(p)
    BY <1>1, <1>2 DEF QueueInv, Piece
<1>4. /\ pc[e] = "request" /\ queue' = [queue EXCEPT ![e] = Tail(@)]
      /\ try_send(e, p, to)
      /\ UNCHANGED <<asked, rest, from, read, heard, faults>>
    BY DEF SendRequest, streamVars
<1>5. /\ Tail(queue[e]) \in Seq(Packets)
      /\ Len(Tail(queue[e])) = Len(queue[e]) - 1
      /\ \A i \in 1..Len(Tail(queue[e])) : Tail(queue[e])[i] = queue[e][i + 1]
    BY <1>1
<1>6. /\ queue' \in [Ends -> Seq(Packets)] /\ queue'[e] = Tail(queue[e])
      /\ \A g \in Ends \ {e} : queue'[g] = queue[g]
    BY <1>1, <1>4, <1>5 DEF TypeOK
<1>7. QueueInv(e)'
    <2>1. \A i \in 1..Len(Tail(queue[e])) : i + 1 \in 1..Len(queue[e])
        BY <1>1, <1>5
    <2> QED
        BY <1>1, <1>5, <1>6, <2>1 DEF QueueInv
<1>8. to \in Serving \ {"hello", "respond"}
    BY DEF Serving
<1> HIDE DEF p, to
<1>9. ControlOK' /\ Grows /\ \A g \in Ends : SpeechInv(g)'
    <2>1. pc[e] \in Serving \ {"respond"} /\ pc[e] # "hello"
        BY <1>4 DEF Serving
    <2> QED
        BY <1>2, <1>3, <1>4, <1>6, <1>7, <1>8, <2>1, AllSay
<1>10. PositionsOK' /\ \A g \in Ends : StreamInv(g)'
    BY <1>4, <1>9, StreamsSame
<1> QED
    BY <1>9, <1>10, InvParts

LEMMA RespondStep ==
    ASSUME Inv, NEW e \in Ends, Respond(e)
    PROVE  Inv'
<1>1. /\ TypeOK /\ \A g \in Ends : SpeechInv(g)
      /\ UNCHANGED <<queue, asked, from, read, heard, faults>>
    BY DEF Inv, Respond, streamVars
<1>2. /\ SpeechInv(e)'
      /\ rest' \in [Ends -> [offset : Nat, size : Nat]]
      /\ \A g \in Ends \ {e} : rest'[g] = rest[g]
    BY <1>1, SpeechResponds
<1>3. PICK p \in Packets, to \in Serving : Says(e, p, to)
    BY <1>1, SpeechResponds
<1>4. ASSUME NEW g \in Ends \ {e} PROVE SpeechInv(g)'
    <2>1. /\ pc'[g] = pc[g] /\ said'[g] = said[g] /\ queue'[g] = queue[g]
          /\ rest'[g] = rest[g] /\ (link'[g] = "up" => link[g] = "up")
        BY <1>1, <1>2, <1>3 DEF Says
    <2>2. g \in Ends /\ SpeechInv(g)
        BY <1>1
    <2> QED
        BY <2>1, <2>2, SpeechSame
<1>5. ControlOK'
    BY <1>1, <1>2, <1>3 DEF Says, Grows, TypeOK, ControlOK
<1>6. PositionsOK' /\ \A g \in Ends : StreamInv(g)'
    BY <1>1, <1>3, StreamsSame DEF Says
<1> QED
    BY <1>2, <1>4, <1>5, <1>6, InvParts

\* acp_wait_ack and process_pkt_in drop a packet.
LEMMA HearStep ==
    ASSUME Inv, NEW e \in Ends, NEW p \in Readings(e),
           DropFirst(e, p) \/ HearFarewell(e, p) \/ IgnorePacket(e, p)
    PROVE  Inv'
<1>1. /\ TypeOK /\ \E to \in Serving \ {"hello", "respond"} : Goes(e, to)
      /\ pc[e] \in Serving \ {"hello", "respond"}
      /\ TakePacket(e, p)
      /\ UNCHANGED <<queue, asked, rest, said, limit, link, faults>>
    BY DEF Inv, DropFirst, HearFarewell, IgnorePacket, Hears, Serving, TakePacket
<1>2. PositionsOK' /\ \A g \in Ends : StreamInv(g)'
    BY <1>1, GrowsNot, StreamsTake
<1>3. pc' \in [Ends -> Serving \cup Gone] /\ \A g \in Ends : SpeechInv(g)'
    BY <1>1, AllMove
<1>4. ControlOK'
    BY <1>1, <1>3 DEF ControlOK, TypeOK
<1> QED
    BY <1>2, <1>3, <1>4, InvParts

\* process_pkt_in answers with one packet.
LEMMA AnswerStep ==
    ASSUME Inv, NEW e \in Ends, NEW p \in Readings(e),
           AnswerPacket(e, p) \/ RefuseChunk(e, p)
    PROVE  Inv'
<1>1. PICK q \in Packets : ~Piece(q) /\ try_send(e, q, "request")
    <2>1. CASE AnswerPacket(e, p)
        <3> DEFINE q == Plain(Answer[p.msg_code])
        <3>1. Answer[p.msg_code] \in {"POG", "ACK"}
            BY <2>1 DEF AnswerPacket, Hears, Answer
        <3>2. q \in Packets /\ ~Piece(q)
            BY <3>1, PacketTypes DEF Plain, pkt_create, Piece, Codes
        <3>3. try_send(e, q, "request")
            BY <2>1 DEF AnswerPacket
        <3> HIDE DEF q
        <3> QED
            BY <3>2, <3>3
    <2>2. CASE RefuseChunk(e, p)
        <3> DEFINE q == pkt_create("RES", ErrorNoChunk, 0, 0, 0)
        <3>1. ErrorNoChunk = 255
            BY DEF ErrorNoChunk
        <3>2. q \in Packets /\ ~Piece(q)
            BY <3>1 DEF pkt_create, Packets, Piece, Codes
        <3>3. try_send(e, q, "request")
            BY <2>2 DEF RefuseChunk
        <3> HIDE DEF q
        <3> QED
            BY <3>2, <3>3
    <2> QED
        BY <2>1, <2>2
<1>2. /\ pc[e] = "receive" /\ TakePacket(e, p)
      /\ UNCHANGED <<queue, asked, rest, faults>>
    BY DEF AnswerPacket, RefuseChunk, Hears, TakePacket
<1>3. /\ pc[e] \in Serving \ {"respond"} /\ pc[e] # "hello"
      /\ "request" \in Serving \ {"hello", "respond"}
    BY <1>2 DEF Serving
<1>4. ControlOK' /\ Grows /\ \A g \in Ends : SpeechInv(g)'
    BY <1>1, <1>2, <1>3, QueueSame, AllSay
<1>5. PositionsOK' /\ \A g \in Ends : StreamInv(g)'
    BY <1>2, <1>4, StreamsTake
<1> QED
    BY <1>4, <1>5, InvParts

\* process_pkt_in finds the chunk and begins to send it.
LEMMA BeginResponseStep ==
    ASSUME Inv, NEW e \in Ends, NEW p \in Readings(e), BeginResponse(e, p)
    PROVE  Inv'
<1>1. /\ TypeOK /\ TakePacket(e, p) /\ pc[e] = "receive" /\ p.hash # 0
      /\ rest' = [rest EXCEPT ![e] = [offset |-> 0, size |-> p.hash]]
      /\ pc' = [pc EXCEPT ![e] = "respond"]
      /\ UNCHANGED <<queue, asked, said, limit, link, faults>>
    BY DEF Inv, BeginResponse, Hears, Goes, TakePacket
<1>2. p.hash \in Nat /\ p.hash > 0
    BY <1>1, Reading, PacketTypes
<1>3. /\ rest' \in [Ends -> [offset : Nat, size : Nat]]
      /\ rest'[e].offset = 0 /\ rest'[e].size = p.hash
      /\ pc' \in [Ends -> Serving \cup Gone] /\ pc'[e] = "respond"
      /\ \A g \in Ends \ {e} : pc'[g] = pc[g] /\ rest'[g] = rest[g]
    BY <1>1, <1>2 DEF TypeOK, Serving
<1>4. SpeechInv(e)'
    <2>1. SpeechInv(e)
        BY DEF Inv
    <2>2. QueueInv(e)' /\ TileInv(e)' /\ GreetingInv(e)'
        BY <1>1, <1>3, <2>1 DEF SpeechInv, QueueInv, TileInv, GreetingInv, Gone
    <2>3. ~(said[e] # <<>> /\ Piece(Last(e)) /\ ~Finishes(Last(e)) /\ link[e] = "up")
        BY <1>1, <2>1 DEF SpeechInv, RestInv, Serving
    <2>4. Last(e)' = Last(e) /\ link'[e] = link[e] /\ said'[e] = said[e]
        BY <1>1 DEF Last
    <2>5. RestInv(e)'
        BY <1>2, <1>3, <2>3, <2>4 DEF RestInv
    <2> QED
        BY <2>2, <2>5 DEF SpeechInv
<1>5. \A g \in Ends \ {e} : SpeechInv(g)'
    BY <1>1, <1>3, SpeechSame DEF Inv
<1>6. PositionsOK' /\ \A g \in Ends : StreamInv(g)'
    BY <1>1, GrowsNot, StreamsTake
<1>7. ControlOK'
    BY <1>1, <1>3 DEF ControlOK, TypeOK
<1> QED
    BY <1>4, <1>5, <1>6, <1>7, InvParts

\* An end closes its socket.
LEMMA Closing ==
    ASSUME TypeOK, NEW e \in Ends, Closes(e)
    PROVE  /\ link' \in [Ends -> {"up", "closed", "due", "reset"}]
           /\ \A g \in Ends : link'[g] = "up" => link[g] = "up"
BY OtherEnd DEF TypeOK, Closes

LEMMA CloseStep ==
    ASSUME Inv, NEW e \in Ends, Leave(e) \/ Exit(e)
    PROVE  Inv'
<1>1. /\ TypeOK /\ Closes(e) /\ \E to \in Gone : Goes(e, to)
      /\ UNCHANGED <<queue, asked, rest, said, limit, from, read, heard>>
    BY DEF Inv, Leave, Exit, streamVars, Gone
<1>2. PositionsOK' /\ \A g \in Ends : StreamInv(g)'
    BY <1>1, GrowsNot, StreamsSame
<1>3. pc' \in [Ends -> Serving \cup Gone] /\ \A g \in Ends : SpeechInv(g)'
    BY <1>1, Closing, AllMove
<1>4. faults' \in 0..MaxFaults
    BY <1>1, Constants DEF TypeOK, Leave, Exit, streamVars
<1>5. ControlOK'
    BY <1>1, <1>3, <1>4, Closing DEF ControlOK, TypeOK
<1> QED
    BY <1>2, <1>3, <1>5, InvParts

\* A command queues a packet.
LEMMA UserStep ==
    ASSUME Inv, NEW e \in Ends, User(e)
    PROVE  Inv'
<1>1. PICK code \in Questions[e], chunk \in Nat : Ask(e, code, chunk)
    <2>1. PICK code \in Questions[e] :
             \E c \in (IF code = "REQ" THEN Chunks ELSE {0}) : Ask(e, code, c)
        BY DEF User
    <2> QED
        BY <2>1, Constants
<1> DEFINE p == pkt_create(code, 0, 0, chunk, chunk)
<1>2. code \in {"PNG", "REQ", "DSN"}
    BY <1>1, ExchangeAssumption
<1>3. p \in Packets /\ p.msg_code # "RES"
    BY <1>2 DEF pkt_create, Packets, Codes
<1>4. /\ TypeOK /\ queue' = [queue EXCEPT ![e] = Append(@, p)]
      /\ asked' = [asked EXCEPT ![e] = @ + 1] /\ asked[e] < MaxRequests
      /\ UNCHANGED <<pc, rest, said, limit, link, from, read, heard, faults>>
    BY <1>1 DEF Inv, Ask, streamVars
<1> HIDE DEF p
<1>5. /\ queue[e] \in Seq(Packets) /\ Len(queue[e]) \in Nat
      /\ queue' \in [Ends -> Seq(Packets)] /\ queue'[e] = Append(queue[e], p)
      /\ \A g \in Ends \ {e} : queue'[g] = queue[g]
    BY <1>3, <1>4, EndTypes DEF TypeOK
<1>6. SpeechInv(e)'
    <2>1. SpeechInv(e)
        BY DEF Inv
    <2>2. QueueInv(e)'
        BY <1>3, <1>5, <2>1 DEF SpeechInv, QueueInv
    <2>3. TileInv(e)' /\ GreetingInv(e)'
        BY <1>4, <2>1 DEF SpeechInv, TileInv, GreetingInv
    <2>4. RestInv(e)'
        BY <1>4, <2>1 DEF SpeechInv, RestInv, Last
    <2> QED
        BY <2>2, <2>3, <2>4 DEF SpeechInv
<1>7. \A g \in Ends \ {e} : SpeechInv(g)'
    BY <1>4, <1>5, SpeechSame DEF Inv
<1>8. PositionsOK' /\ \A g \in Ends : StreamInv(g)'
    BY <1>4, GrowsNot, StreamsSame
<1>9. asked' \in [Ends -> 0..MaxRequests]
    BY <1>4, Constants DEF TypeOK
<1>10. ControlOK'
    BY <1>4, <1>5, <1>9 DEF ControlOK, TypeOK
<1> QED
    BY <1>6, <1>7, <1>8, <1>10, InvParts

LEMMA InvStep == Inv /\ [Next]_vars => Inv'
<1> SUFFICES ASSUME Inv, [Next]_vars PROVE Inv'
    OBVIOUS
<1>1. ASSUME NEW e \in Ends, Handler(e) PROVE Inv'
    BY <1>1, HelloStep, QuietStep, DropStep, SendRequestStep, RespondStep, CloseStep,
       HearStep, AnswerStep, BeginResponseStep DEF Handler
<1>2. ASSUME NEW e \in Ends, Receive(e) \/ Stall(e) \/ User(e) \/ Exit(e) \/ Reset(e)
      PROVE  Inv'
    BY <1>2, ReceiveStep, DropStep, UserStep, CloseStep, ResetStep
<1>3. CASE UNCHANGED vars
    <2>1. ControlOK' /\ PositionsOK'
        BY <1>3, TypeParts
           DEF Inv, vars, streamVars, ControlOK, PositionsOK, Held, Sent
    <2>2. \A g \in Ends : StreamInv(g)'
        BY <1>3 DEF Inv, vars, streamVars, StreamInv, InStep
    <2>3. \A g \in Ends : SpeechInv(g)'
        BY <1>3, SpeechSame DEF Inv, vars
    <2> QED
        BY <2>1, <2>2, <2>3, InvParts
<1> QED
    BY <1>1, <1>2, <1>3 DEF Next, Ended

LEMMA Invariance == Spec => []Inv
BY InvInit, InvStep, PTL DEF Spec

-----------------------------------------------------------------------------
(* Theorems                                                                  *)

\* No receive goes beyond its packet or beyond what was sent, whatever is lost
\* by a RST; every packet, its 8-bit error included, keeps its type.
THEOREM ExchangeTypes == Spec => []TypeOK
<1>1. Inv => TypeOK
    BY DEF Inv
<1> QED
    BY <1>1, Invariance, PTL

\* Framing: recv cuts the stream anywhere and process_pkt_in still sees the
\* packets of try_send, in their order and without a gap, until a receive is
\* given up inside a packet.
THEOREM ExchangeHeardIsSaid == Spec => []HeardIsSaid
<1>1. Inv => HeardIsSaid
    <2> SUFFICES ASSUME Inv, NEW e \in Ends, InStep(e)
                 PROVE  /\ Len(heard[e]) <= Len(said[Other(e)])
                        /\ heard[e] = SubSeq(said[Other(e)], 1, Len(heard[e]))
        BY DEF HeardIsSaid
    <2> DEFINE h == heard[e]
               s == said[Other(e)]
    <2>1. h \in Seq(Packets) /\ s \in Seq(Packets) /\ Len(h) \in Nat /\ Len(s) \in Nat
        BY OtherEnd, EndTypes DEF Inv
    <2>2. Len(h) <= Len(s) /\ \A i \in 1..Len(h) : h[i] = s[i]
        BY DEF Inv, StreamInv
    <2> HIDE DEF h, s
    <2>3. /\ SubSeq(s, 1, Len(h)) \in Seq(Packets)
          /\ Len(SubSeq(s, 1, Len(h))) = Len(h)
          /\ \A i \in 1..Len(h) : SubSeq(s, 1, Len(h))[i] = s[i]
        BY <2>1, <2>2
    <2>4. h = SubSeq(s, 1, Len(h))
        BY <2>1, <2>2, <2>3, SeqEqual
    <2> QED
        BY <2>2, <2>4 DEF h, s
<1> QED
    BY <1>1, Invariance, PTL

\* The packet acp_wait_ack drops unseen is the other end's ACP: no end says
\* anything before it.
THEOREM ExchangeGreetingDropped == Spec => []OnlyGreetingDropped
<1>1. Inv => OnlyGreetingDropped
    <2> SUFFICES ASSUME Inv, NEW e \in Ends, InStep(e), heard[e] # <<>>
                 PROVE  heard[e][1].msg_code = "ACP"
        BY DEF OnlyGreetingDropped
    <2>1. /\ Other(e) \in Ends
          /\ heard[e] \in Seq(Packets) /\ Len(heard[e]) \in Nat
          /\ said[Other(e)] \in Seq(Packets) /\ Len(said[Other(e)]) \in Nat
        BY OtherEnd, EndTypes DEF Inv
    <2>2. 1 \in 1..Len(heard[e])
        BY <2>1
    <2>3. heard[e][1] = said[Other(e)][1] /\ Len(heard[e]) <= Len(said[Other(e)])
        BY <2>2 DEF Inv, StreamInv
    <2>4. said[Other(e)] # <<>>
        BY <2>1, <2>2, <2>3
    <2> QED
        BY <2>1, <2>3, <2>4 DEF Inv, SpeechInv, GreetingInv
<1> QED
    BY <1>1, Invariance, PTL

\* The packets of send_res_pkts cover a chunk of any size without a gap or an
\* overlap, and whoever hears them finds no other packet in between.
THEOREM ExchangeTiles == Spec => []ResponsesTile
<1>1. Inv => ResponsesTile
    <2> SUFFICES ASSUME Inv, NEW e \in Ends, InStep(e), NEW i \in DOMAIN heard[e],
                        Piece(heard[e][i])
                 PROVE  LET p == heard[e][i]
                        IN  /\ p.size \in 1..DATA_MAX
                            /\ p.offset + p.size <= p.hash
                            /\ Begins(p) \/ (i > 1 /\ Continues(heard[e][i - 1], p))
                            /\ \/ Finishes(p) \/ i = Len(heard[e])
                               \/ Continues(p, heard[e][i + 1])
        BY DEF ResponsesTile, Piece
    <2> DEFINE h == heard[e]
               f == Other(e)
               s == said[f]
    <2>1. /\ f \in Ends /\ h \in Seq(Packets) /\ s \in Seq(Packets)
          /\ Len(h) \in Nat /\ Len(s) \in Nat /\ i \in 1..Len(h)
        BY OtherEnd, EndTypes DEF Inv
    <2>2. Len(h) <= Len(s) /\ \A j \in 1..Len(h) : h[j] = s[j]
        BY DEF Inv, StreamInv
    <2>3. TileInv(f)
        BY <2>1 DEF Inv, SpeechInv
    <2> HIDE DEF h
    <2>4. h[i] = s[i] /\ i \in 1..Len(s) /\ Piece(s[i])
        BY <2>1, <2>2 DEF h
    <2>5. /\ s[i].size \in 1..DATA_MAX
          /\ s[i].offset + s[i].size <= s[i].hash
          /\ Begins(s[i]) \/ (i > 1 /\ Continues(s[i - 1], s[i]))
          /\ Finishes(s[i]) \/ i = Len(s) \/ Continues(s[i], s[i + 1])
        BY <2>3, <2>4 DEF TileInv
    <2> HIDE DEF s
    <2>6. i > 1 => h[i - 1] = s[i - 1]
        BY <2>1, <2>2
    <2>7. i # Len(h) => i # Len(s) /\ h[i + 1] = s[i + 1]
        BY <2>1, <2>2
    <2>8. /\ h[i].size \in 1..DATA_MAX
          /\ h[i].offset + h[i].size <= h[i].hash
          /\ Begins(h[i]) \/ (i > 1 /\ Continues(h[i - 1], h[i]))
          /\ Finishes(h[i]) \/ i = Len(h) \/ Continues(h[i], h[i + 1])
        BY <2>4, <2>5, <2>6, <2>7
    <2> QED
        BY <2>8 DEF h
<1> QED
    BY <1>1, Invariance, PTL

=============================================================================
