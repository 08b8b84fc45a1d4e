-------------------------------- MODULE Wire --------------------------------
(***************************************************************************)
(* One RPC connection: a client writes length-delimited frames, TCP brings *)
(* their bytes in pieces or not at all, and handle_connection reads a      *)
(* frame, decodes the request, has it handled and writes one answer, until *)
(* the stream ends or something is wrong with it. The client may be this   *)
(* program's or any other: what it writes need not be an encoding.         *)
(***************************************************************************)
EXTENDS Codec

CONSTANTS
    Requests,    \* requests of a well-behaved client
    Later,       \* bound: those that follow the first of a connection
    Answers(_),  \* the responses the handlers may give to a request
    MaxFrame,    \* MAX_RPC_FRAME_SIZE
    MaxRequests  \* bound: frames per connection

VARIABLES
    written, \* the payloads the client has written, in order
    open,    \* the client's end of the connection is open
    transit, \* bytes on their way to the server
    arrived, \* bytes the server has not read yet
    server,  \* where handle_connection is, and how many bytes it waits for
    handled, \* the requests that were handed to the node
    replies  \* the payloads of the frames the server has written

wireVars == <<written, open, transit, arrived, server, handled, replies>>
-----------------------------------------------------------------------------
Frame(payload) == BE(Len(payload), W32) \o payload

(* write_frame: empty when the payload is too large.                       *)
write_frame(payload) == IF Len(payload) > MaxFrame THEN {} ELSE {Frame(payload)}

(* An encoding and payloads that are not, or not quite, it: a byte         *)
(* changed, the end cut off, a byte too many.                              *)
Altered(p) ==
    {[p EXCEPT ![i] = b] : i \in DOMAIN p, b \in Byte}
        \cup {SubSeq(p, 1, k) : k \in 0 .. Len(p)} \cup {Append(p, b) : b \in Byte}

Encodings(requests) == {Encode(RpcRequest, r) : r \in requests}

Payloads == UNION {Altered(p) : p \in Encodings(Requests)}

(* The frame limit is a u32, and so is the length of anything a client     *)
(* writes. A handler answers whatever request a payload begins with by a   *)
(* response of that kind or by an error.                                   *)
ASSUME WireAssumption ==
    /\ MaxFrame \in 0 .. Numbers[W32] - 1
    /\ Requests \cup Later \subseteq Values(RpcRequest)
    /\ \A p \in Payloads \cup Encodings(Later) :
           /\ Len(p) < Numbers[W32]
           /\ \A d \in RpcRequest.dec[p] : \A response \in Answers(d[1]) :
                  response \in Values(RpcResponse) /\ response[1] \in {d[1][1], 4}

Waiting(at, need) == [at |-> at, need |-> need]

WireInit ==
    /\ written = <<>>
    /\ open = TRUE
    /\ transit = <<>>
    /\ arrived = <<>>
    /\ server = Waiting("length", W32)
    /\ handled = <<>>
    /\ replies = <<>>

(* The client writes a frame; the first one is any payload at all, and not *)
(* even its size was checked. (The bytes before have arrived, which        *)
(* changes nothing for the server.)                                        *)
WriteRequest ==
    /\ open
    /\ transit = <<>>
    /\ Len(written) < MaxRequests
    /\ \E p \in IF written = <<>> THEN Payloads ELSE Encodings(Later) :
           /\ written' = Append(written, p)
           /\ transit' = Frame(p)
    /\ UNCHANGED <<open, arrived, server, handled, replies>>

(* The client closes its end, or the connection is lost with what was on   *)
(* its way.                                                                *)
Disconnect ==
    /\ open
    /\ open' = FALSE
    /\ transit' = <<>>
    /\ UNCHANGED <<written, arrived, server, handled, replies>>

Arrive ==
    /\ transit # <<>>
    /\ arrived' = Append(arrived, Head(transit))
    /\ transit' = Tail(transit)
    /\ UNCHANGED <<written, open, server, handled, replies>>
-----------------------------------------------------------------------------
(* Mutant: it waits for a byte more than it needs.                         *)
read_exact_greedy(need) == IF Len(arrived) > need THEN Take(need, arrived) ELSE {}

(* tokio's read_exact: it waits until all the bytes are there.             *)
read_exact(need) == Take(need, arrived)

(* read_frame: the length, refused before a buffer is allocated for it,    *)
(* then the payload.                                                       *)
ReadLength ==
    /\ server.at = "length"
    /\ \E t \in read_exact(server.need) :
           /\ server' = IF Num(t[1]) > MaxFrame THEN Waiting("closed", 0)
                        ELSE Waiting("payload", Num(t[1]))
           /\ arrived' = t[2]
    /\ UNCHANGED <<written, open, transit, handled, replies>>

(* Mutant: a request that does not decode is skipped.                      *)
ReadPayload_skips ==
    /\ server.at = "payload"
    /\ \E t \in read_exact(server.need) :
           LET request == decode_canonical(RpcRequest, t[1])
           IN  /\ arrived' = t[2]
               /\ \/ request = {} /\ server' = Waiting("length", W32) /\ UNCHANGED handled
                  \/ /\ \E r \in request : handled' = Append(handled, r)
                     /\ server' = Waiting("respond", 0)
    /\ UNCHANGED <<written, open, transit, replies>>

(* A request that does not decode ends the session without an answer.      *)
ReadPayload ==
    /\ server.at = "payload"
    /\ \E t \in read_exact(server.need) :
           LET request == decode_canonical(RpcRequest, t[1])
           IN  /\ arrived' = t[2]
               /\ \/ request = {} /\ server' = Waiting("closed", 0) /\ UNCHANGED handled
                  \/ /\ \E r \in request : handled' = Append(handled, r)
                     /\ server' = Waiting("respond", 0)
    /\ UNCHANGED <<written, open, transit, replies>>

(* The stream ends while the server reads: it closes without an error.     *)
EndOfStream ==
    /\ server.at \in {"length", "payload"}
    /\ ~open /\ transit = <<>>
    /\ read_exact(server.need) = {}
    /\ server' = Waiting("closed", 0)
    /\ UNCHANGED <<written, open, transit, arrived, handled, replies>>

(* The answer of the handler is written; one that is too large, or a       *)
(* connection that is gone, ends the session.                              *)
Respond ==
    /\ server.at = "respond"
    /\ \E response \in Answers(Last(handled)) :
           LET p == Encode(RpcResponse, response)
           IN  \/ /\ write_frame(p) # {}
                  /\ replies' = Append(replies, p)
                  /\ server' = Waiting("length", W32)
               \/ /\ write_frame(p) = {} \/ ~open
                  /\ server' = Waiting("closed", 0)
                  /\ UNCHANGED replies
    /\ UNCHANGED <<written, open, transit, arrived, handled>>

ServerStep == ReadLength \/ ReadPayload \/ EndOfStream \/ Respond

(* The session is over.                                                    *)
Over == server.at = "closed" /\ UNCHANGED wireVars

WireNext == WriteRequest \/ Disconnect \/ Arrive \/ ServerStep \/ Over

WireSpec == WireInit /\ [][WireNext]_wireVars

(* TCP delivers what was written, and the server's task runs.              *)
FairWireSpec == WireSpec /\ WF_wireVars(Arrive) /\ WF_wireVars(ServerStep)
-----------------------------------------------------------------------------
(* frame.rs, codec.rs: what the node is asked to do is, request by         *)
(* request, what the client wrote and nothing else: no piece of a frame is *)
(* taken for a whole one, and no two payloads mean the same request, so a  *)
(* txid or a block hash stands for one sequence of bytes.                  *)
RequestsIntact ==
    [][handled' # handled =>
          /\ Len(handled') <= Len(written)
          /\ Encode(RpcRequest, Last(handled')) = written[Len(handled')]]_wireVars

(* client.rs, server.rs: the client decodes each answer to exactly one     *)
(* response, and the i-th one is of the kind its i-th request asked for,   *)
(* or an error: after a request that was not understood there is none.     *)
AnswersMatch ==
    [][replies' # replies =>
          \E request \in decode_canonical(RpcRequest, written[Len(replies')]) :
          \E response \in decode_canonical(RpcResponse, Last(replies')) :
              /\ response[1] \in {request[1], 4}
              /\ Encode(RpcResponse, response) = Last(replies')]_wireVars

SameButScripts(tx1, tx2) ==
    /\ <<version(tx1), outputs(tx1), locktime(tx1)>> = <<version(tx2), outputs(tx2), locktime(tx2)>>
    /\ DOMAIN inputs(tx1) = DOMAIN inputs(tx2)
    /\ \A i \in DOMAIN inputs(tx1) :
           LET a == inputs(tx1)[i]
               b == inputs(tx2)[i]
           IN  /\ previous_output(a) = previous_output(b)
               /\ sequence(a) = sequence(b)
               /\ redeemer(a) = redeemer(b)

(* tx.rs: a signature made for one input of a transaction is good for no   *)
(* other input and no other transaction, unless they differ in nothing but *)
(* unlocking scripts: whatever a client makes of a transaction it has      *)
(* seen, the node computes another sighash.                                *)
SignaturesBind ==
    [][handled' # handled =>
          LET r == Last(handled')
          IN  \A s \in Requests :
                  r[1] = 2 /\ s[1] = 2 =>
                      \A i, j \in 0 .. 1 :
                          sighash(r[2], i) = sighash(s[2], j)
                              <=> i = j /\ SameButScripts(r[2], s[2])]_wireVars

(* A client whose frame is on its way gets an answer or sees the           *)
(* connection close; it never waits in vain.                               *)
Settled ==
    \A k \in 1 .. MaxRequests :
        Len(written) >= k ~> Len(replies) >= k \/ server.at = "closed"
=============================================================================
