------------------------------ MODULE Connection ------------------------------
(***************************************************************************)
(* One client's connection: src/protocol.c on a stream socket, under the   *)
(* mutex that client_send_packet holds while it sends.  The client's own   *)
(* service thread receives requests and answers them; the threads of other *)
(* clients send it notifications; SIGHUP shuts its input down.             *)
(*                                                                         *)
(* A packet is a header and a payload, both cut up in units: a recv() or a *)
(* send() moves at least one unit and no more than it was asked for.  The  *)
(* two socket buffers have a limited room, and the peer may write, read,   *)
(* stop, half-close and leave at any time, in the middle of a packet too.  *)
(***************************************************************************)
EXTENDS Naturals, SequencesExt

CONSTANTS
    Own, Others,    \* the client's service thread, and those that notify it
    HeaderUnits,    \* units of a header
    RequestSizes, AnswerSizes, NoteSizes,   \* payload sizes, in units
    InRoom, OutRoom,    \* what the socket buffers hold
    MaxRequests, MaxNotes   \* bounds on what is sent

NoOne == "no thread"

ASSUME UnitsAssumption ==
    /\ HeaderUnits \in Nat \ {0}
    /\ RequestSizes \cup AnswerSizes \cup NoteSizes \subseteq Nat
    /\ {InRoom, OutRoom, MaxRequests, MaxNotes} \subseteq Nat

ASSUME ThreadsAssumption == Own \notin Others /\ NoOne \notin Others \cup {Own}

VARIABLES
    asked, pleft,   \* the packets the peer has sent; what is left of the last
    in, rbuf,       \* the input buffer; what recv() has got of a packet
    served,         \* the packets that proto_recv_packet returned
    pc,             \* where the service thread is
    told, left,     \* the packets sent to the peer; left[t]: what is left to send
    holder,         \* the thread that holds client->mutex
    out, pbuf, heard,   \* the output buffer; what the peer has got
    notes,          \* how many notifications there were
    ended, gone,    \* the peer writes no more; it has closed the connection
    hup, shut       \* terminate() has begun; it has shut the input down

inVars  == <<asked, pleft, in, rbuf, served>>
outVars == <<told, left, holder, out, notes>>
peerIn  == <<pbuf, heard>>
flags   == <<ended, gone, hup, shut>>
vars    == <<inVars, pc, outVars, peerIn, flags>>

Threads == Others \cup {Own}

\* A request of a type that the server does not know gets no answer.
Request == [type : {"request", "unknown"}, size : RequestSizes]
Message == [type : {"answer"}, size : AnswerSizes] \cup [type : {"note"}, size : NoteSizes]
Packet  == Request \cup Message
Frame(p) == [k \in 1..(HeaderUnits + p.size) |-> <<p, k>>]

-----------------------------------------------------------------------------
\* The size field is known once the header is complete.
Need(buf) ==
    IF Len(buf) < HeaderUnits THEN HeaderUnits - Len(buf)
    ELSE HeaderUnits + buf[HeaderUnits][1].size - Len(buf)

\* A call that moves n units from one sequence to the end of another.
Taken(s, n) == SubSeq(s, 1, n)
Rest(s, n)  == SubSeq(s, n + 1, Len(s))
Least(m, n) == IF m < n THEN m ELSE n

\* Mutant: a read that was cut short is taken for a whole packet.
WholeAnyway(buf) == Len(buf) >= HeaderUnits
Whole(buf) == Len(buf) >= HeaderUnits /\ Need(buf) = 0

-----------------------------------------------------------------------------
Init ==
    /\ asked = << >> /\ pleft = << >> /\ in = << >> /\ rbuf = << >> /\ served = << >>
    /\ pc = "recv"
    /\ told = << >> /\ left = [t \in Threads |-> << >>] /\ holder = NoOne
    /\ out = << >> /\ pbuf = << >> /\ heard = << >>
    /\ notes = 0
    /\ ended = FALSE /\ gone = FALSE /\ hup = FALSE /\ shut = FALSE

-----------------------------------------------------------------------------
\* The peer, which is not part of src: it keeps to the format of packets.

PeerAsk(p) ==
    /\ pleft = << >> /\ ~ended /\ ~gone /\ Len(asked) < MaxRequests
    /\ asked' = Append(asked, Frame(p))
    /\ pleft' = Frame(p)
    /\ UNCHANGED <<in, rbuf, served, pc, outVars, peerIn, flags>>

PeerWrite(n) ==
    /\ ~ended /\ ~gone
    /\ n \in 1..Least(Len(pleft), InRoom - Len(in))
    /\ in' = in \o Taken(pleft, n)
    /\ pleft' = Rest(pleft, n)
    /\ UNCHANGED <<asked, rbuf, served, pc, outVars, peerIn, flags>>

PeerRead(n) ==
    LET buf == pbuf \o Taken(out, n) IN
    /\ ~gone
    /\ n \in 1..Least(Len(out), Need(pbuf))
    /\ out' = Rest(out, n)
    /\ pbuf' = IF Whole(buf) THEN << >> ELSE buf
    /\ heard' = IF Whole(buf) THEN Append(heard, buf) ELSE heard
    /\ UNCHANGED <<inVars, pc, told, left, holder, notes, flags>>

PeerEnd ==
    /\ ~ended /\ ended' = TRUE
    /\ UNCHANGED <<inVars, pc, outVars, peerIn, gone, hup, shut>>

PeerLeave ==
    /\ ~gone /\ gone' = TRUE
    /\ UNCHANGED <<inVars, pc, outVars, peerIn, ended, hup, shut>>

-----------------------------------------------------------------------------
\* proto_recv_packet: each step is one recv().

RecvSome(n) ==
    LET buf == rbuf \o Taken(in, n) IN
    /\ pc = "recv"
    /\ n \in 1..Least(Len(in), Need(rbuf))
    /\ in' = Rest(in, n)
    /\ rbuf' = IF Whole(buf) THEN << >> ELSE buf
    /\ served' = IF Whole(buf) THEN Append(served, buf) ELSE served
    /\ pc' = IF Whole(buf) THEN "handle" ELSE "recv"
    /\ UNCHANGED <<asked, pleft, outVars, peerIn, flags>>

\* Mutant of RecvFail: recv() is called again when it returns 0.
RecvFailAgain ==
    /\ pc = "recv" /\ gone
    /\ rbuf' = << >>
    /\ pc' = "cleanup"
    /\ UNCHANGED <<asked, pleft, in, served, outVars, peerIn, flags>>

\* recv() returns 0 or -1: what was read of a packet is dropped.
RecvFail ==
    /\ pc = "recv"
    /\ gone \/ (in = << >> /\ (shut \/ ended))
    /\ rbuf' = << >>
    /\ pc' = "cleanup"
    /\ UNCHANGED <<asked, pleft, in, served, outVars, peerIn, flags>>

\* The switch of jeux_client_service has no default.
Ignore ==
    /\ pc = "handle" /\ served[Len(served)][1][1].type = "unknown"
    /\ pc' = "recv"
    /\ UNCHANGED <<inVars, outVars, peerIn, flags>>

\* client_logout and creg_unregister take the client's mutex on the way.
Cleanup ==
    /\ pc = "cleanup" /\ holder = NoOne
    /\ pc' = "close"
    /\ UNCHANGED <<inVars, outVars, peerIn, flags>>

Close ==
    /\ pc = "close"
    /\ pc' = "closed"
    /\ UNCHANGED <<inVars, outVars, peerIn, flags>>

-----------------------------------------------------------------------------
\* client_send_packet by thread t: it locks the mutex and begins to send.  A
\* thread that still holds the CLIENT when its descriptor was closed fails.

\* Mutant of Begin: proto_send_packet without the client's mutex.
BeginUnlocked(t, p) ==
    /\ left[t] = << >> /\ pc # "closed"
    /\ holder' = t
    /\ told' = Append(told, Frame(p))
    /\ left' = [left EXCEPT ![t] = Frame(p)]

Begin(t, p) ==
    /\ holder = NoOne /\ pc # "closed"
    /\ holder' = t
    /\ told' = Append(told, Frame(p))
    /\ left' = [left EXCEPT ![t] = Frame(p)]

Note(t, size) ==
    /\ notes < MaxNotes
    /\ t = Own => pc = "handle"
    /\ left[t] = << >>
    /\ Begin(t, [type |-> "note", size |-> size])
    /\ notes' = notes + 1
    /\ UNCHANGED <<inVars, pc, out, peerIn, flags>>

\* ACK, with or without a payload, or NACK.
Answer(size) ==
    /\ pc = "handle" /\ served[Len(served)][1][1].type = "request"
    /\ left[Own] = << >>
    /\ Begin(Own, [type |-> "answer", size |-> size])
    /\ pc' = "answer"
    /\ UNCHANGED <<inVars, out, notes, peerIn, flags>>

\* proto_send_packet is over: unlock; the service thread goes on.
Unlock(t) ==
    /\ holder' = NoOne
    /\ pc' = IF t = Own /\ pc = "answer" THEN "recv" ELSE pc

\* Mutant of SendSome: the count that send() returns is not looked at.
SendOnce(t, n) ==
    /\ n \in 1..Least(Len(left[t]), OutRoom - Len(out))
    /\ out' = out \o Taken(left[t], n)
    /\ left' = [left EXCEPT ![t] = << >>]
    /\ Unlock(t)
    /\ UNCHANGED <<inVars, told, notes, peerIn, flags>>

\* One send() that makes progress; it blocks while the buffer is full.
SendSome(t, n) ==
    /\ n \in 1..Least(Len(left[t]), OutRoom - Len(out))
    /\ out' = out \o Taken(left[t], n)
    /\ left' = [left EXCEPT ![t] = Rest(left[t], n)]
    /\ IF n = Len(left[t]) THEN Unlock(t) ELSE UNCHANGED <<holder, pc>>
    /\ UNCHANGED <<inVars, told, notes, peerIn, flags>>

\* Mutant of SendFail: the error return forgets the mutex.
SendFailLocked(t) ==
    /\ left[t] # << >> /\ (gone \/ pc = "closed")
    /\ left' = [left EXCEPT ![t] = << >>]
    /\ UNCHANGED <<inVars, pc, told, holder, out, notes, peerIn, flags>>

\* One send() that returns -1; SIGPIPE is ignored.
SendFail(t) ==
    /\ left[t] # << >> /\ (gone \/ pc = "closed")
    /\ left' = [left EXCEPT ![t] = << >>]
    /\ Unlock(t)
    /\ UNCHANGED <<inVars, told, out, notes, peerIn, flags>>

-----------------------------------------------------------------------------
\* SIGHUP: terminate() calls creg_shutdown_all, which takes the client's mutex
\* (client_get_fd), unless the client has been unregistered by then.

Hangup ==
    /\ ~hup /\ hup' = TRUE
    /\ UNCHANGED <<inVars, pc, outVars, peerIn, ended, gone, shut>>

\* client_get_fd takes the client's mutex, and waits for it.
client_get_fd == holder = NoOne

Shutdown ==
    /\ hup /\ ~shut /\ client_get_fd /\ pc \notin {"close", "closed"}
    /\ shut' = TRUE
    /\ UNCHANGED <<inVars, pc, outVars, peerIn, ended, gone, hup>>

-----------------------------------------------------------------------------
Peer ==
    \/ \E p \in Request : PeerAsk(p)
    \/ \E n \in 1..InRoom : PeerWrite(n)
    \/ \E n \in 1..OutRoom : PeerRead(n)
    \/ PeerEnd \/ PeerLeave

Receiving == (\E n \in 1..InRoom : RecvSome(n)) \/ RecvFail
Answering == Ignore \/ \E s \in AnswerSizes : Answer(s)
Sending(t) == (\E n \in 1..OutRoom : SendSome(t, n)) \/ SendFail(t)
Notify == \E t \in Threads, s \in NoteSizes : Note(t, s)

Next ==
    \/ Peer \/ Receiving \/ Answering \/ Notify
    \/ \E t \in Threads : Sending(t)
    \/ Cleanup \/ Close \/ Hangup \/ Shutdown

Spec == Init /\ [][Next]_vars

(***************************************************************************)
(* The threads of the server run on, and get a mutex that is released      *)
(* again and again.  A recv() or send() that can make progress makes some. *)
(***************************************************************************)
ServerFairness ==
    /\ WF_vars(Receiving) /\ SF_vars(Answering)
    /\ \A t \in Threads : WF_vars(Sending(t))
    /\ SF_vars(Cleanup) /\ WF_vars(Close) /\ SF_vars(Shutdown)

ServerSpec == Spec /\ ServerFairness

\* The peer reads what it is sent as long as it is there.
FairSpec == ServerSpec /\ WF_vars(\E n \in 1..OutRoom : PeerRead(n))

-----------------------------------------------------------------------------
TypeOK ==
    /\ asked \in Seq(Seq(Packet \X Nat)) /\ served \in Seq(Seq(Packet \X Nat))
    /\ told \in Seq(Seq(Packet \X Nat)) /\ heard \in Seq(Seq(Packet \X Nat))
    /\ left \in [Threads -> Seq(Packet \X Nat)]
    /\ {pleft, in, rbuf, out, pbuf} \subseteq Seq(Packet \X Nat)
    /\ Len(in) <= InRoom /\ Len(out) <= OutRoom
    /\ pc \in {"recv", "handle", "answer", "cleanup", "close", "closed"}
    /\ holder \in Threads \cup {NoOne}
    /\ \A t \in Threads : left[t] # << >> <=> holder = t
    /\ notes \in 0..MaxNotes
    /\ {ended, gone, hup, shut} \subseteq BOOLEAN

(***************************************************************************)
(* Nothing is lost, doubled or mixed up on the way, however the packets    *)
(* are cut: as long as both ends are there, what the peer has got, what is *)
(* under way and what a sender has left to send are the packets sent, unit *)
(* by unit; and so the other way, as long as the thread receives.          *)
(***************************************************************************)
NothingLost ==
    /\ ~gone /\ pc # "closed" =>
           FlattenSeq(heard) \o pbuf \o out \o (IF holder = NoOne THEN << >> ELSE left[holder])
             = FlattenSeq(told)
    /\ pc \notin {"cleanup", "close", "closed"} =>
           FlattenSeq(served) \o rbuf \o in \o pleft = FlattenSeq(asked)

(***************************************************************************)
(* Both directions are channels of whole packets, whatever is cut short:   *)
(* the threads' sends do not corrupt each other's, and a packet that was   *)
(* received in part when the connection ended is not acted upon.           *)
(***************************************************************************)
Frames == {Frame(p) : p \in Packet}
Requests == INSTANCE PacketChannel WITH Packet <- Frames, sent <- asked, received <- served
Messages == INSTANCE PacketChannel WITH Packet <- Frames, sent <- told, received <- heard
ImplementsRequests == Requests!CSpec
ImplementsMessages == Messages!CSpec

(***************************************************************************)
(* A sender keeps the client's mutex while it blocks, and client_get_player*)
(* wants that mutex too: with it the whole server stops.  If the peer does *)
(* read, or leaves, the mutex is always released.                          *)
(***************************************************************************)
SendsComplete == \A t \in Threads : holder = t ~> holder # t

(***************************************************************************)
(* After SIGHUP the connection is closed, once the requests that the peer  *)
(* had sent are served.  The bound MaxRequests stands for a peer that does *)
(* not go on sending for ever.                                             *)
(***************************************************************************)
HangsUp == hup ~> pc = "closed"
=============================================================================
