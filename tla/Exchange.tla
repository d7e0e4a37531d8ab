------------------------------- MODULE Exchange -------------------------------
(***************************************************************************)
(* The two ends of one connection, each a handler thread of this program,  *)
(* and the two byte streams between them.                                  *)
(*                                                                         *)
(* Every packet takes PktUnits units of its stream, the pieces in which    *)
(* the network may deliver it.  A stream is never stored: `said` holds the *)
(* packets an end has put on it, and a position counts units.  A receive   *)
(* collects the units from `from` to `read`; one that times out in the     *)
(* middle of a packet throws them away, and the next one starts there.     *)
(*                                                                         *)
(* An end that sends REQ belongs to another implementation, which behaves  *)
(* like this one otherwise: no command of this program gets as far as to   *)
(* queue a REQ.                                                            *)
(***************************************************************************)
EXTENDS Integers, Sequences, FiniteSets

CONSTANTS Ends,         \* the two ends
          Questions,    \* what the user of each end may have sent: PNG by
                        \* PEERS, DSN by DISCONNECT, REQ by no command of
                        \* this program
          PktUnits,     \* PAYLOAD_MAX, in units
          DATA_MAX,     \* data a RES packet holds
          Chunks,       \* the chunks that are asked for, each named by its
                        \* size; 0 is one the other end does not have
          MaxRequests,  \* bound: requests queued at an end
          MaxFaults     \* bound: receives that time out inside a packet and
                        \* processes that end

ASSUME ExchangeAssumption ==
    /\ \E a, b \in Ends : a # b /\ Ends = {a, b}
    /\ Questions \in [Ends -> SUBSET {"PNG", "REQ", "DSN"}]
    /\ PktUnits \in Nat \ {0} /\ DATA_MAX \in Nat \ {0}
    /\ Chunks \subseteq Nat
    /\ MaxRequests \in Nat /\ MaxFaults \in Nat

VARIABLES
    pc,      \* where the handler is, or how its end of the connection ended
    queue,   \* peer->reqs_q: packets the user's commands ask for
    asked,   \* requests queued so far
    rest,    \* what send_res_pkts has still to send: curr_offset and size
    said,    \* the packets an end has sent
    limit,   \* units that can reach an end
    from,    \* where the receive under way began
    read,    \* units an end has taken from its stream
    heard,   \* the packets an end has received, as it understood them
    faults,  \* receives that timed out inside a packet, processes that ended
    link     \* "up"; "closed": the other end has closed; "due": and answers
             \* with a RST that is on its way; "reset": which has come

streamVars == <<from, read, heard, faults>>
vars == <<pc, queue, asked, rest, said, limit, from, read, heard, faults, link>>

Other(e) == CHOOSE f \in Ends : f # e

Serving == {"hello", "await", "request", "receive", "respond", "leave"}
Gone    == {"left", "exited", "killed"}

-----------------------------------------------------------------------------
(* Packets: code, error, and of the payload offset, size and hash, which     *)
(* names the chunk.  Data and ident go where these go.                       *)

Codes == {"ACP", "ACK", "PNG", "POG", "DSN", "REQ", "RES"}

pkt_create(code, error, offset, size, hash) ==
    [msg_code |-> code, error |-> error, offset |-> offset, size |-> size,
     hash |-> hash]

Plain(code) == pkt_create(code, 0, 0, 0, 0)

\* The fields in the order they have on the wire.
pkt_marshall(p) == <<p.msg_code, p.error, p.offset, p.size, p.hash>>

pkt_unmarshall(w) == pkt_create(w[1], w[2], w[3], w[4], w[5])

\* Not the code, like every definition marked so below: a plausible mistake in
\* the definition that follows, in whose place it breaks a property.  Here:
\* send_res takes all 16 bits.
ErrorWide == 65535

\* The error a caller passes as -1 in 16 bits and send_res takes as 8.
ErrorNoChunk == 65535 % 256

-----------------------------------------------------------------------------
Init ==
    /\ pc     = [e \in Ends |-> "hello"]
    /\ queue  = [e \in Ends |-> <<>>]
    /\ asked  = [e \in Ends |-> 0]
    /\ rest   = [e \in Ends |-> [offset |-> 0, size |-> 0]]
    /\ said   = [e \in Ends |-> <<>>]
    /\ limit  = [e \in Ends |-> 0]
    /\ from   = [e \in Ends |-> 0]
    /\ read   = [e \in Ends |-> 0]
    /\ heard  = [e \in Ends |-> <<>>]
    /\ faults = 0
    /\ link   = [e \in Ends |-> "up"]

Goes(e, to) == pc' = [pc EXCEPT ![e] = to]

\* try_send at end e, which goes on at `to`.  What is sent to an end that has
\* closed is lost and brings a RST back; after the RST a send fails or raises
\* SIGPIPE, which nobody handles.
try_send(e, p, to) ==
    \/ /\ link[e] = "up"
       /\ said' = [said EXCEPT ![e] = Append(@, p)]
       /\ limit' = [limit EXCEPT ![Other(e)] = @ + PktUnits]
       /\ Goes(e, to)
       /\ UNCHANGED link
    \/ /\ link[e] # "up"
       /\ link' = [link EXCEPT ![e] = IF @ = "closed" THEN "due" ELSE @]
       /\ Goes(e, to)
       /\ UNCHANGED <<said, limit>>
    \/ /\ link[e] = "reset"
       /\ Goes(e, "killed")
       /\ UNCHANGED <<said, limit, link>>

-----------------------------------------------------------------------------
(* The handler of end e                                                      *)

\* Not the code: the handler waits for the other end to begin.
HelloWaits(e) ==
    /\ pc[e] = "hello"
    /\ Goes(e, "await")
    /\ UNCHANGED <<queue, asked, rest, said, limit, link, streamVars>>

\* acp_wait_ack sends ACP and begins to receive.
Hello(e) ==
    /\ pc[e] = "hello"
    /\ try_send(e, Plain("ACP"), "await")
    /\ UNCHANGED <<queue, asked, rest, streamVars>>

Receiving(e) == pc[e] \in {"await", "receive"}
Held(e) == read[e] - from[e]

\* recv returns some of what is left of this packet.
Receive(e) ==
    /\ Receiving(e) /\ Held(e) < PktUnits
    /\ \E n \in 1..(PktUnits - Held(e)) :
          /\ read[e] + n <= limit[e]
          /\ read' = [read EXCEPT ![e] = @ + n]
    /\ UNCHANGED <<pc, queue, asked, rest, said, limit, link, from, heard, faults>>

\* recv times out before it has anything, or the other end has closed.
NoPacket(e) ==
    /\ Receiving(e) /\ Held(e) = 0
    /\ Goes(e, "request")
    /\ UNCHANGED <<queue, asked, rest, said, limit, link, streamVars>>

\* recv times out inside a packet: the units received so far are dropped.
Stall(e) ==
    /\ Receiving(e) /\ Held(e) \in 1..(PktUnits - 1)
    /\ faults < MaxFaults
    /\ faults' = faults + 1
    /\ from' = [from EXCEPT ![e] = read[e]]
    /\ Goes(e, "request")
    /\ UNCHANGED <<queue, asked, rest, said, limit, link, read, heard>>

\* recv returns 0 or fails inside a packet whose end will never come.
CutOff(e) ==
    /\ Receiving(e) /\ Held(e) \in 1..(PktUnits - 1)
    /\ link[e] # "up" /\ read[e] = limit[e]
    /\ from' = [from EXCEPT ![e] = read[e]]
    /\ Goes(e, "request")
    /\ UNCHANGED <<queue, asked, rest, said, limit, link, read, heard, faults>>

\* Not the code: what one recv returned is taken for a packet.
CompleteAtOnce(e) == Held(e) > 0

Complete(e) == Held(e) = PktUnits

\* What a complete receive reads as: the packet that began where it began.  One
\* that began inside a packet finds a code in the zeros of a payload, which is
\* POG, in the text of a hash, which is none, or in the data of a chunk, which
\* may be any.
Readings(e) ==
    LET p == said[Other(e)][from[e] \div PktUnits + 1]
    IN  IF ~Complete(e) THEN {}
        ELSE IF from[e] % PktUnits = 0 THEN {pkt_unmarshall(pkt_marshall(p))}
        ELSE IF p.msg_code = "RES" THEN {Plain(code) : code \in Codes}
        ELSE {Plain("POG")}

\* Packet p has been received; the next one begins behind it.
TakePacket(e, p) ==
    /\ from' = [from EXCEPT ![e] = read[e]]
    /\ heard' = [heard EXCEPT ![e] = Append(@, p)]
    /\ UNCHANGED <<read, faults>>

\* acp_wait_ack drops the packet it receives, whatever it is.
DropFirst(e, p) ==
    /\ pc[e] = "await"
    /\ TakePacket(e, p)
    /\ Goes(e, "request")
    /\ UNCHANGED <<queue, asked, rest, said, limit, link>>

\* peer_process_request_shared without a request.
NoRequest(e) ==
    /\ pc[e] = "request" /\ queue[e] = <<>>
    /\ Goes(e, "receive")
    /\ UNCHANGED <<queue, asked, rest, said, limit, link, streamVars>>

\* peer_process_request_shared and process_pkt_out; after a DSN the end closes.
SendRequest(e) ==
    /\ pc[e] = "request" /\ queue[e] # <<>>
    /\ queue' = [queue EXCEPT ![e] = Tail(@)]
    /\ try_send(e, Head(queue[e]),
                IF Head(queue[e]).msg_code = "DSN" THEN "leave" ELSE "receive")
    /\ UNCHANGED <<asked, rest, streamVars>>

Hears(e, p, codes) == pc[e] = "receive" /\ p.msg_code \in codes

\* process_pkt_in: PNG and ACP are answered at once, ...
Answer == [PNG |-> "POG", ACP |-> "ACK"]

\* Not the code: a PNG that comes while this end has requests is not answered.
AnswerIdle(e, p) ==
    /\ Hears(e, p, DOMAIN Answer)
    /\ TakePacket(e, p)
    /\ IF queue[e] = <<>> /\ asked[e] = 0
       THEN try_send(e, Plain(Answer[p.msg_code]), "request")
       ELSE Goes(e, "request") /\ UNCHANGED <<said, limit, link>>
    /\ UNCHANGED <<queue, asked, rest>>

AnswerPacket(e, p) ==
    /\ Hears(e, p, DOMAIN Answer)
    /\ TakePacket(e, p)
    /\ try_send(e, Plain(Answer[p.msg_code]), "request")
    /\ UNCHANGED <<queue, asked, rest>>

\* ... a REQ for a chunk that is not here by one RES with an error, ...
RefuseChunk(e, p) ==
    /\ Hears(e, p, {"REQ"}) /\ p.hash = 0
    /\ TakePacket(e, p)
    /\ try_send(e, pkt_create("RES", ErrorNoChunk, 0, 0, 0), "request")
    /\ UNCHANGED <<queue, asked, rest>>

\* ... for another one by as many as its data take.
BeginResponse(e, p) ==
    /\ Hears(e, p, {"REQ"}) /\ p.hash # 0
    /\ TakePacket(e, p)
    /\ rest' = [rest EXCEPT ![e] = [offset |-> 0, size |-> p.hash]]
    /\ Goes(e, "respond")
    /\ UNCHANGED <<queue, asked, said, limit, link>>

\* Not the code: the offset moves by a full packet's data before the send.
RespondAhead(e) ==
    LET n == IF rest[e].size > DATA_MAX THEN DATA_MAX ELSE rest[e].size
        next == [offset |-> rest[e].offset + n, size |-> rest[e].size - n]
    IN  /\ pc[e] = "respond"
        /\ rest' = [rest EXCEPT ![e] = next]
        /\ try_send(e, pkt_create("RES", 0, next.offset, n, next.offset + next.size),
                    IF next.size > 0 THEN "respond" ELSE "request")
        /\ UNCHANGED <<queue, asked, streamVars>>

\* The loop of send_res_pkts; offsets count from the chunk's.
Respond(e) ==
    LET n == IF rest[e].size > DATA_MAX THEN DATA_MAX ELSE rest[e].size
        chunk == rest[e].offset + rest[e].size
        next == [offset |-> rest[e].offset + n, size |-> rest[e].size - n]
    IN  /\ pc[e] = "respond"
        /\ rest' = [rest EXCEPT ![e] = next]
        /\ try_send(e, pkt_create("RES", 0, rest[e].offset, n, chunk),
                    IF next.size > 0 THEN "respond" ELSE "request")
        /\ UNCHANGED <<queue, asked, streamVars>>

\* Not the code: a DSN is ignored while a request waits.
HearFarewellIdle(e, p) ==
    /\ Hears(e, p, {"DSN"})
    /\ TakePacket(e, p)
    /\ Goes(e, IF queue[e] = <<>> THEN "leave" ELSE "request")
    /\ UNCHANGED <<queue, asked, rest, said, limit, link>>

\* A DSN: peers_remove, then the peer is destroyed.
HearFarewell(e, p) ==
    /\ Hears(e, p, {"DSN"})
    /\ TakePacket(e, p)
    /\ Goes(e, "leave")
    /\ UNCHANGED <<queue, asked, rest, said, limit, link>>

\* Every other packet is dropped (an asker installs a RES; not this program).
IgnorePacket(e, p) ==
    /\ Hears(e, p, {"ACK", "POG", "RES"})
    /\ TakePacket(e, p)
    /\ Goes(e, "request")
    /\ UNCHANGED <<queue, asked, rest, said, limit, link>>

\* An end closes its socket.  If it leaves something unread, the other end is
\* told by a RST, which may overtake what is still on its way.
Closes(e) ==
    link' = [link EXCEPT ![Other(e)] =
                IF @ # "up" THEN @
                ELSE IF read[e] < limit[e] THEN "due" ELSE "closed"]

\* peer_destroy and peer_cleanup_handler.
Leave(e) ==
    /\ pc[e] = "leave"
    /\ Goes(e, "left")
    /\ Closes(e)
    /\ UNCHANGED <<queue, asked, rest, said, limit, streamVars>>

Handler(e) ==
    \/ Hello(e) \/ NoPacket(e) \/ CutOff(e)
    \/ \E p \in Readings(e) :
          \/ DropFirst(e, p) \/ AnswerPacket(e, p) \/ RefuseChunk(e, p)
          \/ BeginResponse(e, p) \/ HearFarewell(e, p) \/ IgnorePacket(e, p)
    \/ NoRequest(e) \/ SendRequest(e) \/ Respond(e) \/ Leave(e)

-----------------------------------------------------------------------------
(* Users, processes and the network                                          *)

\* PEERS queues PNG, DISCONNECT and QUIT queue DSN and forget the peer.
Ask(e, code, chunk) ==
    /\ pc[e] \in Serving \ {"leave"}
    /\ asked[e] < MaxRequests
    /\ \A i \in DOMAIN queue[e] : queue[e][i].msg_code # "DSN"
    /\ asked' = [asked EXCEPT ![e] = @ + 1]
    /\ queue' = [queue EXCEPT ![e] =
                    Append(@, pkt_create(code, 0, 0, chunk, chunk))]
    /\ UNCHANGED <<pc, rest, said, limit, link, streamVars>>

User(e) == \E code \in Questions[e] :
              \E chunk \in (IF code = "REQ" THEN Chunks ELSE {0}) :
                 Ask(e, code, chunk)

\* The process of end e ends: QUIT does not wait for the DSN it has queued.
Exit(e) ==
    /\ pc[e] \in Serving
    /\ faults < MaxFaults
    /\ faults' = faults + 1
    /\ Goes(e, "exited")
    /\ Closes(e)
    /\ UNCHANGED <<queue, asked, rest, said, limit, from, read, heard>>

\* A RST arrives; some of what was on its way no longer does.
Reset(e) ==
    /\ pc[e] \in Serving
    /\ link[e] = "due"
    /\ link' = [link EXCEPT ![e] = "reset"]
    /\ \E n \in read[e]..limit[e] : limit' = [limit EXCEPT ![e] = n]
    /\ UNCHANGED <<pc, queue, asked, rest, said, streamVars>>

Ended == (\A e \in Ends : pc[e] \in Gone) /\ UNCHANGED vars

Next ==
    \/ \E e \in Ends : \/ Handler(e) \/ Receive(e) \/ Stall(e)
                       \/ User(e) \/ Exit(e) \/ Reset(e)
    \/ Ended

Spec == Init /\ [][Next]_vars

\* Handlers run; what is on its way arrives before receives have timed out
\* for ever.  Nobody has to type, stall or exit.
Fairness == \A e \in Ends :
    WF_vars(Handler(e)) /\ SF_vars(Receive(e)) /\ WF_vars(Reset(e))

FairSpec == Spec /\ Fairness

-----------------------------------------------------------------------------
(* Properties                                                                *)

Packets == [msg_code : Codes, error : 0..255, offset : Nat,
            size : Nat, hash : Nat]

\* Units of the packets end e has sent.
Sent(e) == PktUnits * Len(said[e])

\* Types: an end never receives beyond a packet or beyond what was sent, and an
\* error fits the 8 bits send_res has for it.
TypeOK ==
    /\ pc \in [Ends -> Serving \cup Gone]
    /\ queue \in [Ends -> Seq(Packets)]
    /\ asked \in [Ends -> 0..MaxRequests]
    /\ rest \in [Ends -> [offset : Nat, size : Nat]]
    /\ said \in [Ends -> Seq(Packets)]
    /\ heard \in [Ends -> Seq(Packets)]
    /\ from \in [Ends -> Nat] /\ read \in [Ends -> Nat] /\ limit \in [Ends -> Nat]
    /\ \A e \in Ends : /\ Held(e) \in 0..PktUnits
                       /\ read[e] <= limit[e]
                       /\ limit[e] <= Sent(Other(e))
    /\ faults \in 0..MaxFaults
    /\ link \in [Ends -> {"up", "closed", "due", "reset"}]

\* Has every unit end e has taken become part of a packet?
InStep(e) == from[e] = PktUnits * Len(heard[e])

\* Framing: as long as no receive was given up inside a packet, what an end has
\* heard is what the other end has said: the same packets with the same
\* fields, in order and without a gap, however the network cuts the stream.
HeardIsSaid ==
    \A e \in Ends : InStep(e) =>
        /\ Len(heard[e]) <= Len(said[Other(e)])
        /\ heard[e] = SubSeq(said[Other(e)], 1, Len(heard[e]))

\* acp_wait_ack drops the first packet it receives unseen.  Between two ends
\* that both greet first this costs them nothing but the greeting: no PNG, REQ
\* or DSN is ever dropped by it.
OnlyGreetingDropped ==
    \A e \in Ends : InStep(e) /\ heard[e] # <<>> => heard[e][1].msg_code = "ACP"

\* p continues the RES packet q of the same chunk.
Continues(q, p) ==
    q.msg_code = "RES" /\ q.hash = p.hash /\ q.error = 0
        /\ p.offset = q.offset + q.size

\* Does p begin its chunk?  Does it end it?
Begins(p) == p.offset = 0
Finishes(p) == p.offset + p.size = p.hash

\* send_res_pkts cuts a chunk into packets: whoever hears them gets pieces of
\* 1 to DATA_MAX bytes that follow each other from the chunk's first byte to
\* its last, with no other packet in between, whatever else both ends do.
ResponsesTile ==
    \A e \in Ends : InStep(e) => \A i \in DOMAIN heard[e] :
        LET p == heard[e][i]
        IN  p.msg_code = "RES" /\ p.error = 0 =>
                /\ p.size \in 1..DATA_MAX
                /\ p.offset + p.size <= p.hash
                /\ Begins(p) \/ (i > 1 /\ Continues(heard[e][i - 1], p))
                /\ \/ Finishes(p) \/ i = Len(heard[e])
                   \/ Continues(p, heard[e][i + 1])

Asked(e)    == {i \in DOMAIN said[e] : said[e][i].msg_code \in {"PNG", "REQ"}}
Answered(e) == {i \in DOMAIN heard[e] :
                  LET p == heard[e][i]
                  IN  \/ p.msg_code = "POG"
                      \/ p.msg_code = "RES" /\ (p.error # 0 \/ Finishes(p))}
Owed(e)     == Cardinality(Answered(e)) < Cardinality(Asked(e))
Disturbed   == \E e \in Ends : pc[e] \in Gone \/ ~InStep(e)

\* PNG and REQ are answered: a POG comes back, or all of a chunk or an error,
\* unless an end goes away or a receive was given up inside a packet.
QuestionsAnswered == (\E e \in Ends : Owed(e)) ~> (Disturbed \/ \A e \in Ends : ~Owed(e))

\* An end that has sent a DSN and left is followed by the other one, unless
\* that one lost the place of the packets in the stream, or the RST of a packet
\* that crossed the DSN overtook it.
Followed(e) == \/ pc[Other(e)] \in Gone
               \/ ~InStep(Other(e))
               \/ limit[Other(e)] < Sent(e)

TookLeave(e) ==
    /\ pc[e] = "left" /\ said[e] # <<>>
    /\ said[e][Len(said[e])].msg_code = "DSN"

FarewellFollowed ==
    (\E e \in Ends : TookLeave(e)) ~> (\A e \in Ends : TookLeave(e) => Followed(e))

=============================================================================
