------------------------------- MODULE Startup -------------------------------
(***************************************************************************)
(* Connecting (crates/core/src/session/startup.rs, tls.rs, auth/): TCP,    *)
(* the TLS request, the startup message, authentication, the parameters up *)
(* to the first ReadyForQuery, and the hand-over to the driver task.       *)
(*                                                                         *)
(* A message is two units on the wire, so that a read may end in the       *)
(* middle of one.  Hashes and signatures are symbolic: a signature is the  *)
(* right one only if the password is.  The server follows the protocol,    *)
(* except that it may send MaxOdd messages out of turn.                    *)
(***************************************************************************)
EXTENDS Integers, Sequences

CONSTANTS
    Configs,    \* the client's configurations
    Servers,    \* the server's
    MaxOdd,     \* messages out of turn
    MaxParams,  \* ParameterStatus messages before and after ReadyForQuery
    MaxWire     \* units on the wire

ASSUME ServersAssumption ==
    \A s \in Servers :
        /\ s.ssl \in {"S", "N", "X"}
        /\ s.method \in {"trust", "CleartextPassword", "Md5Password", "sasl", "other"}
ASSUME BoundAssumption == {MaxOdd, MaxParams, MaxWire} \subseteq Nat

VARIABLES
    config, serverIs,
    pc,         \* where the client is
    tls,        \* "plain" or "tls"
    binding,    \* ChannelBindingState of the stream
    scram,      \* the SCRAM exchange: stage, mechanism, binding
    rx,         \* rx_buf: units read and not yet decoded
    params,     \* ParameterStatus messages kept
    ready,      \* the transaction status of ReadyForQuery, if seen
    wire,       \* units sent and not yet read
    toServer,   \* messages of the client that the server has not read
    turn,       \* where the server is
    told,       \* ParameterStatus messages the server has sent since AuthenticationOk
    late,       \* of them, those after ReadyForQuery
    odd,        \* messages sent out of turn
    up          \* the server has not closed the connection

vars == <<config, serverIs, pc, tls, binding, scram, rx, params, ready, wire, toServer, turn, told,
          late, odd, up>>
transport == <<tls, binding>>
server == <<serverIs, turn, told, late, odd>>

Msg(m) == [m |-> m, data |-> "none"]
MsgWith(m, d) == [m |-> m, data |-> d]
Units(m) == <<[of |-> m, last |-> FALSE], [of |-> m, last |-> TRUE]>>

NoScram == [stage |-> "none", mechanism |-> "none", bound |-> FALSE]

Init ==
    /\ config \in Configs /\ serverIs \in Servers
    /\ pc = "tcp" /\ tls = "plain" /\ binding = "Unavailable" /\ scram = NoScram
    /\ rx = <<>> /\ params = 0 /\ ready = "none" /\ wire = <<>> /\ toServer = <<>>
    /\ turn = "ssl" /\ told = 0 /\ late = 0 /\ odd = 0 /\ up = TRUE

-----------------------------------------------------------------------------
(* The transport *)

Fail == pc' = "error"
ClientOnly == <<config, server, up>>

(* TcpStream::connect, within connect_timeout or not.                      *)
Connect ==
    /\ pc = "tcp"
    /\ \/ /\ pc' = IF config.tls = "disable" THEN "hello" ELSE "ssl"
          /\ toServer' = IF config.tls = "disable" THEN toServer ELSE <<"SSLRequest">>
       \/ Fail /\ UNCHANGED toServer
    /\ UNCHANGED <<ClientOnly, transport, scram, rx, params, ready, wire>>

(* negotiate_tls: the one byte without a length.                           *)
NegotiateTls ==
    /\ pc = "ssl" /\ wire # <<>> /\ wire' = Tail(wire)
    /\ LET byte == Head(wire).of.m IN
         pc' = CASE byte = "S" -> "upgrade"
                 [] byte = "N" /\ config.tls = "prefer" -> "hello"
                 [] OTHER -> "error"
    /\ UNCHANGED <<ClientOnly, transport, scram, rx, params, ready, toServer>>

(* upgrade_rustls, upgrade_native_tls: the feature, a name to verify, the  *)
(* roots and the handshake; then the digest of the server's certificate.   *)
Upgrade ==
    /\ pc = "upgrade"
    /\ IF config.feature /\ config.name /\ config.roots /\ serverIs.handshake
       THEN pc' = "hello" /\ tls' = "tls" /\ binding' = serverIs.certificate
       ELSE Fail /\ UNCHANGED transport
    /\ UNCHANGED <<ClientOnly, scram, rx, params, ready, wire, toServer>>

(* The startup message; its flush may fail.                                *)
Hello ==
    /\ pc = "hello"
    /\ \/ up /\ pc' = "auth" /\ toServer' = Append(toServer, "Startup")
       \/ Fail /\ UNCHANGED toServer
    /\ UNCHANGED <<ClientOnly, transport, scram, rx, params, ready, wire>>

-----------------------------------------------------------------------------
(* read_message *)

Reading == pc \in {"auth", "server first", "server final", "parameters"}
Whole == Len(rx) >= 2
Message == Head(rx).of

(* decode removes the message.                                             *)
Decoded == rx' = SubSeq(rx, 3, Len(rx))

(* read_buf takes whatever has arrived, as long as no message is whole.    *)
ReadBuf ==
    /\ Reading /\ ~Whole
    /\ \E n \in 1..Len(wire) : rx' = rx \o SubSeq(wire, 1, n) /\ wire' = SubSeq(wire, n + 1, Len(wire))
    /\ UNCHANGED <<ClientOnly, pc, transport, scram, params, ready, toServer>>
(* A read of no bytes is the end of the stream.  ReadEndRetries reads on.  *)
ReadEndRetries == Reading /\ ~Whole /\ wire = <<>> /\ ~up /\ UNCHANGED vars
ReadEnd ==
    /\ Reading /\ ~Whole /\ wire = <<>> /\ ~up /\ Fail
    /\ UNCHANGED <<ClientOnly, transport, scram, rx, params, ready, wire, toServer>>

(* What a message does to the client: where it goes, what it answers.      *)
Become(to, answer) ==
    /\ Decoded /\ pc' = to /\ toServer' = toServer \o answer
    /\ UNCHANGED <<ClientOnly, transport, wire>>
Rest == <<scram, params, ready>>

-----------------------------------------------------------------------------
(* authenticate *)

AuthOk == pc = "auth" /\ Whole /\ Message.m = "Ok" /\ Become("parameters", <<>>) /\ UNCHANGED Rest

(* Cleartext and MD5 alike: a password or an error.                        *)
AuthPassword ==
    /\ pc = "auth" /\ Whole /\ Message.m \in {"CleartextPassword", "Md5Password"}
    /\ IF config.password = "none" THEN Become("error", <<>>)
       ELSE Become("auth", <<IF Message.m = "Md5Password" THEN "Md5" ELSE "Password">>)
    /\ UNCHANGED Rest

(* select_scram_client.  SelectFallsBack takes the plain mechanism when    *)
(* there is nothing to bind to.                                            *)
SelectFallsBack(offered, state) ==
    IF "PLUS" \in offered /\ state = "Available" THEN "PLUS"
    ELSE IF offered # {"other"} THEN "SHA256" ELSE "error"
Select(offered, state) ==
    IF "PLUS" \in offered THEN (IF state = "Available" THEN "PLUS" ELSE "error")
    ELSE IF "SHA256" \in offered THEN "SHA256" ELSE "error"

(* ScramClient::start: the header and the mechanism follow the binding.    *)
AuthSasl ==
    /\ pc = "auth" /\ Whole /\ Message.m = "Sasl"
    /\ LET mechanism == Select(Message.data, binding) IN
       IF config.password = "none" \/ mechanism = "error"
       THEN Become("error", <<>>) /\ UNCHANGED Rest
       ELSE /\ Become("server first", <<mechanism>>)
            /\ scram' = [stage |-> "first", mechanism |-> mechanism, bound |-> mechanism = "PLUS"]
            /\ UNCHANGED <<params, ready>>

(* handle_server_first: UTF-8, its attributes, a nonce that extends ours,  *)
(* a salt, at least one iteration.                                         *)
ServerFirst ==
    /\ pc = "server first" /\ Whole
    /\ IF Message.m = "SaslContinue" /\ Message.data = "good"
       THEN /\ Become("server final", <<"Proof">>)
            /\ scram' = [scram EXCEPT !.stage = "final"] /\ UNCHANGED <<params, ready>>
       ELSE Become("error", <<>>) /\ UNCHANGED Rest

(* verify_server_final: the signature of a server that knows the password. *)
(* VerifyAny takes any signature.                                          *)
VerifyAny(d) == d \in {"right", "wrong"}
Verify(d) == d = "right"
ServerFinal ==
    /\ pc = "server final" /\ Whole
    /\ IF Message.m = "SaslFinal" /\ Verify(Message.data)
       THEN /\ Become("auth", <<>>)
            /\ scram' = [scram EXCEPT !.stage = IF Message.data = "right" THEN "verified" ELSE "fooled"]
            /\ UNCHANGED <<params, ready>>
       ELSE Become("error", <<>>) /\ UNCHANGED Rest

AuthIgnores ==
    /\ pc = "auth" /\ Whole /\ Message.m \in {"ParameterStatus", "NoticeResponse"}
    /\ Become("auth", <<>>) /\ UNCHANGED Rest
AuthRejects ==
    /\ pc = "auth" /\ Whole
    /\ Message.m \notin {"Ok", "CleartextPassword", "Md5Password", "Sasl", "ParameterStatus",
                         "NoticeResponse"}
    /\ Become("error", <<>>) /\ UNCHANGED Rest

-----------------------------------------------------------------------------
(* The parameters, and the hand-over: the driver gets the stream, and      *)
(* nothing of rx_buf.                                                      *)

ParameterForgotten ==
    /\ pc = "parameters" /\ Whole /\ Message.m = "ParameterStatus"
    /\ Become("parameters", <<>>) /\ UNCHANGED Rest
Parameter ==
    /\ pc = "parameters" /\ Whole /\ Message.m = "ParameterStatus"
    /\ Become("parameters", <<>>) /\ params' = params + 1 /\ UNCHANGED <<scram, ready>>
ParametersIgnore ==
    /\ pc = "parameters" /\ Whole /\ Message.m \in {"BackendKeyData", "NoticeResponse"}
    /\ Become("parameters", <<>>) /\ UNCHANGED Rest
ReadyForQuery ==
    /\ pc = "parameters" /\ Whole /\ Message.m = "ReadyForQuery"
    /\ Become("session", <<>>) /\ ready' = Message.data /\ UNCHANGED <<scram, params>>
ParametersReject ==
    /\ pc = "parameters" /\ Whole
    /\ Message.m \notin {"ParameterStatus", "BackendKeyData", "NoticeResponse", "ReadyForQuery"}
    /\ Become("error", <<>>) /\ UNCHANGED Rest

-----------------------------------------------------------------------------
(* The server (external) *)

Says(m, next) == up /\ Len(wire) + 2 <= MaxWire /\ wire' = wire \o Units(m) /\ turn' = next
Heard(x) == toServer # <<>> /\ Head(toServer) = x /\ toServer' = Tail(toServer)
ServerOnly == <<config, serverIs, pc, transport, scram, rx, params, ready>>

(* The answer to SSLRequest is one byte.                                   *)
SaysSsl ==
    /\ turn = "ssl" /\ Heard("SSLRequest") /\ up
    /\ wire' = Append(wire, [of |-> Msg(serverIs.ssl), last |-> TRUE]) /\ turn' = "ssl"
    /\ UNCHANGED <<told, late, odd>>

Asks ==
    /\ turn = "ssl" /\ Heard("Startup") /\ UNCHANGED <<told, late, odd>>
    /\ CASE serverIs.method = "trust" -> Says(Msg("Ok"), "parameters")
         [] serverIs.method = "sasl" -> Says(MsgWith("Sasl", serverIs.offers), "sasl")
         [] serverIs.method = "other" -> Says(Msg("Unsupported"), "gone")
         [] OTHER -> Says(Msg(serverIs.method), "password")
Judges ==
    /\ UNCHANGED <<told, late, odd>>
    /\ \/ /\ turn = "password" /\ (Heard("Password") \/ Heard("Md5"))
          /\ IF config.password = "right" THEN Says(Msg("Ok"), "parameters")
             ELSE Says(Msg("ErrorResponse"), "gone")
       \/ /\ turn = "sasl" /\ (Heard("PLUS") \/ Heard("SHA256"))
          /\ Says(MsgWith("SaslContinue", "good"), "proof")
       \/ /\ turn = "proof" /\ Heard("Proof")
          /\ IF config.password = "right" THEN Says(MsgWith("SaslFinal", "right"), "granted")
             ELSE Says(Msg("ErrorResponse"), "gone")
SaysOk ==
    /\ turn = "granted" /\ Says(Msg("Ok"), "parameters") /\ UNCHANGED <<told, late, odd, toServer>>

(* A ParameterStatus before ReadyForQuery, or later, when a setting is     *)
(* reloaded.                                                               *)
Tells ==
    /\ turn \in {"parameters", "ready"} /\ told < MaxParams /\ told' = told + 1
    /\ late' = IF turn = "ready" THEN late + 1 ELSE late
    /\ Says(Msg("ParameterStatus"), turn) /\ UNCHANGED <<odd, toServer>>
SaysReady ==
    /\ turn = "parameters" /\ Says(MsgWith("ReadyForQuery", "I"), "ready")
    /\ UNCHANGED <<told, late, odd, toServer>>

OddMessages ==
    {Msg(m) : m \in {"Ok", "CleartextPassword", "NoticeResponse", "ErrorResponse", "BackendKeyData"}}
    \cup {MsgWith("ReadyForQuery", "T"), MsgWith("SaslContinue", "bad"), MsgWith("SaslFinal", "wrong")}
OutOfTurn ==
    /\ odd < MaxOdd /\ odd' = odd + 1 /\ turn # "ssl"
    /\ \E m \in OddMessages : Says(m, turn)
    /\ UNCHANGED <<told, late, toServer>>

(* The server closes the connection, at any time.                          *)
Closes ==
    /\ up /\ up' = FALSE /\ UNCHANGED <<ServerOnly, wire, toServer, turn, told, late, odd>>

(* Once connect has returned, the driver reads what the server says.       *)
Server ==
    /\ pc \notin {"session", "error"}
    /\ \/ (SaysSsl \/ Asks \/ Judges \/ SaysOk \/ SaysReady \/ Tells \/ OutOfTurn)
          /\ UNCHANGED <<ServerOnly, up>>
       \/ Closes

-----------------------------------------------------------------------------
Client ==
    \/ Connect \/ NegotiateTls \/ Upgrade \/ Hello \/ ReadBuf \/ ReadEnd
    \/ AuthOk \/ AuthPassword \/ AuthSasl \/ ServerFirst \/ ServerFinal \/ AuthIgnores \/ AuthRejects
    \/ Parameter \/ ParametersIgnore \/ ReadyForQuery \/ ParametersReject
SslEnd ==
    /\ pc = "ssl" /\ wire = <<>> /\ ~up /\ Fail
    /\ UNCHANGED <<ClientOnly, transport, scram, rx, params, ready, wire, toServer>>

Next == Client \/ SslEnd \/ Server

(* The caller polls connect.  Nothing is assumed of the server, whose part *)
(* of the TLS handshake Upgrade waits for as well: it may fall silent.     *)
Fairness == WF_vars((Client /\ pc # "upgrade") \/ SslEnd)
Spec == Init /\ [][Next]_vars /\ Fairness

-----------------------------------------------------------------------------
(* Properties *)

TypeOK ==
    /\ tls \in {"plain", "tls"} /\ ready \in {"none", "I", "T"} /\ params <= told + odd
    /\ Whole => ~rx[1].last /\ rx[2].last
    /\ (tls = "plain") => binding = "Unavailable"

(* A Session exists only when authentication ran to its end: after a SCRAM *)
(* exchange the server has shown that it knows the password, and a         *)
(* connection that requires TLS has it.  No order of messages, in turn or  *)
(* out of it, leads past an exchange that is half done.                    *)
SessionIsEarned ==
    pc \in {"parameters", "session"} =>
        /\ scram.stage \in {"none", "verified"}
        /\ config.tls = "require" => tls = "tls"

(* The mechanism is the one the server offered and the stream can do:      *)
(* with PLUS on offer, never the weaker one, and binding data with PLUS    *)
(* alone.                                                                  *)
MechanismMatches ==
    scram.stage # "none" =>
        /\ (scram.mechanism = "PLUS") = (serverIs.method = "sasl" /\ "PLUS" \in serverIs.offers)
        /\ scram.bound => tls = "tls" /\ binding = "Available"

(* With a server that keeps to its turns, the Session knows every setting  *)
(* it was told before ReadyForQuery, and starts with its status; whatever  *)
(* is lost in rx_buf came after.  It may be the first half of a message,   *)
(* whose second half the driver would then read as a message of its own.   *)
HandOver ==
    pc = "session" /\ odd = 0 =>
        /\ params = told - late /\ ready = "I"
        /\ \A i \in DOMAIN rx : rx[i].of.m = "ParameterStatus"
        /\ Len(rx) <= 2 * late

(* What connect waits for without a limit once TCP is connected, although  *)
(* connect_timeout is documented as a cap on all of it: the byte that      *)
(* answers SSLRequest, the TLS handshake, the rest of a message.           *)
AwaitsServer ==
    \/ pc = "upgrade"
    \/ up /\ wire = <<>> /\ (pc = "ssl" \/ (Reading /\ ~Whole))

(* connect returns, unless the server keeps the connection open and leaves *)
(* it waiting for ever.  Nothing else holds it up: every message that has  *)
(* arrived, in turn or not, is acted on, and the end of the stream, in the *)
(* middle of a message too, is an error.                                   *)
Ends == <>(pc \in {"session", "error"}) \/ <>[]AwaitsServer
=============================================================================
