----------------------------- MODULE ProxyTunnel -----------------------------
(***************************************************************************)
(* A tunnel opened through an HTTP or a SOCKS5 proxy.  The proxy's answers *)
(* arrive as a stream that a read may cut anywhere, and the bytes of the   *)
(* destination may follow the last answer at once: the handshake must read *)
(* its answers to the last byte and not one byte more.                     *)
(*                                                                         *)
(* Bytes are numbers; Payload stands for every byte of the destination.    *)
(* Of a CONNECT response the first byte stands for its status line and     *)
(* Blank for the blank line that ends it.                                  *)
(***************************************************************************)
EXTENDS Integers, Sequences, FiniteSets

CONSTANTS
    ResponseLimit,   \* MAX_RESPONSE_BYTES
    MaxHeaders       \* bound: header bytes of a CONNECT response

ASSUME ProxyAssumption == ResponseLimit \in Nat \ {0} /\ MaxHeaders \in Nat

VARIABLES
    proxyType,       \* "http" or "socks5"
    credentials,     \* config.requires_authentication
    tunnelPc,        \* what is read next, or "new", "open", "secured",
                     \* "closed" or "leaked": open, with nobody to close it
    got,             \* bytes of the answer read so far
    wire,            \* bytes that arrived and were not read
    awaited,         \* the answer the proxy owes: "http", "method", "auth", "reply" or "none"
    hungUp,          \* the proxy closed its side
    payload          \* bytes of the destination sent so far (history)

tunnelVars == <<proxyType, credentials, tunnelPc, got, wire, awaited, hungUp, payload>>

Payload == 999
Blank == 998
Other == 77      \* any byte with no meaning of its own

Reading == {"response", "method", "auth", "reply", "ipv4", "ipv6", "length", "domain", "port"}

\* The bytes recv_exact is asked for in a phase; a domain's is in its length.
BytesOf(phase) ==
    CASE phase = "ipv6" -> 16 [] phase \in {"reply", "ipv4"} -> 4
      [] phase = "length" -> 1 [] OTHER -> 2

Needed == IF tunnelPc = "domain" THEN got[1] + 1 ELSE BytesOf(tunnelPc)

\* The answers a proxy may give, right or wrong.
Address(kind) ==
    CASE kind = 1 -> {[i \in 1..4 |-> Other]}
      [] kind = 4 -> {[i \in 1..16 |-> Other]}
      [] kind = 3 -> {<<n>> \o [i \in 1..n |-> Other] : n \in 0..2}
      [] OTHER -> {<<>>}

Answers(turn) ==
    CASE turn = "method" -> {<<v, m>> : v \in {5, 4}, m \in {0, 1, 2, 255}}
      [] turn = "auth" -> {<<v, s>> : v \in {1, 2}, s \in {0, 1}}
      [] turn = "reply" ->
            UNION {{<<v, r, 0, kind>> \o a \o <<Other, Other>> : a \in Address(kind)} :
                      v \in {5, 4}, r \in {0, 1}, kind \in {1, 3, 4, 9}}
      [] turn = "http" ->
            {<<status>> \o [i \in 1..n |-> Other] \o <<Blank>> :
                status \in {200, 407, 502, 0}, n \in 0..MaxHeaders}

\* The answer lets the destination's bytes through.
Opens(turn, answer) ==
    \/ turn = "http" /\ answer[1] = 200
    \/ turn = "reply" /\ answer[1] = 5 /\ answer[2] = 0

TunnelInit ==
    /\ proxyType \in {"http", "socks5"} /\ credentials \in BOOLEAN
    /\ tunnelPc = "new" /\ awaited = "none"
    /\ got = <<>> /\ wire = <<>>
    /\ hungUp = FALSE /\ payload = 0

\* _connect, and the first message.
Connect ==
    /\ tunnelPc = "new"
    /\ \/ /\ tunnelPc' = IF proxyType = "http" THEN "response" ELSE "method"
          /\ awaited' = IF proxyType = "http" THEN "http" ELSE "method"
       \/ tunnelPc' = "closed" /\ UNCHANGED awaited
       \/ \* a host name that is not ASCII, once the socket is connected
          proxyType = "http" /\ tunnelPc' = "leaked" /\ UNCHANGED awaited
    /\ UNCHANGED <<proxyType, credentials, got, wire, hungUp, payload>>

\* The proxy answers, and the destination may speak right after it.
Answer ==
    /\ awaited # "none" /\ ~hungUp
    /\ \E answer \in Answers(awaited) :
           \E n \in IF Opens(awaited, answer) THEN 0..2 ELSE {0} :
               /\ wire' = wire \o answer \o [i \in 1..n |-> Payload]
               /\ payload' = payload + n
    /\ awaited' = "none"
    /\ UNCHANGED <<proxyType, credentials, tunnelPc, got, hungUp>>

HangUp ==
    /\ ~hungUp /\ tunnelPc \in Reading
    /\ hungUp' = TRUE
    /\ UNCHANGED <<proxyType, credentials, tunnelPc, got, wire, awaited, payload>>

\* recv: the client reads n of the bytes that are there.
Take(n) ==
    /\ got' = got \o SubSeq(wire, 1, n)
    /\ wire' = SubSeq(wire, n + 1, Len(wire))

\* The CONNECT response was read to its blank line.
Terminated == \E i \in 1..Len(got) : got[i] = Blank

\* A reader that takes what it is given.
ReadBlock ==
    /\ tunnelPc = "response" /\ wire # <<>>
    /\ ~Terminated
    /\ Take(Len(wire))
    /\ UNCHANGED <<proxyType, credentials, tunnelPc, awaited, hungUp, payload>>

\* read_until_blank_line: one byte at a time.
ReadByte ==
    /\ tunnelPc = "response" /\ wire # <<>>
    /\ ~Terminated
    /\ Take(1)
    /\ tunnelPc' = IF Len(got') > ResponseLimit THEN "closed" ELSE tunnelPc
    /\ UNCHANGED <<proxyType, credentials, awaited, hungUp, payload>>

\* recv_exact: never more than is missing.
ReadSome ==
    /\ tunnelPc \in Reading \ {"response"} /\ wire # <<>>
    /\ \E n \in 1..Len(wire) : n =< Needed - Len(got) /\ Take(n)
    /\ UNCHANGED <<proxyType, credentials, tunnelPc, awaited, hungUp, payload>>

\* The stream ends, or the socket fails or times out, before the answer is
\* complete: closed, and the error raised.
ReadFails ==
    /\ tunnelPc \in Reading
    /\ tunnelPc' = "closed"
    /\ UNCHANGED <<proxyType, credentials, got, wire, awaited, hungUp, payload>>

\* What becomes of the socket after a status line; one that cannot be parsed
\* is raised outside the try, and leaves it open.
Verdict(line) == CASE line = 200 -> "open" [] line = 0 -> "leaked" [] OTHER -> "closed"

\* The response is complete, and its status line decides.
Status ==
    /\ tunnelPc = "response" /\ Terminated
    /\ tunnelPc' = Verdict(got[1])
    /\ got' = <<>>
    /\ UNCHANGED <<proxyType, credentials, wire, awaited, hungUp, payload>>

\* The next thing to read, and what is asked of the proxy for it.
Continue(phase, turn) ==
    /\ tunnelPc' = phase /\ awaited' = turn

\* _socks5_negotiate_method.
Method ==
    /\ tunnelPc = "method" /\ Len(got) = Needed
    /\ CASE got[1] = 5 /\ got[2] = 0 -> Continue("reply", "reply")
         [] got[1] = 5 /\ got[2] = 2 /\ credentials -> Continue("auth", "auth")
         [] OTHER -> Continue("closed", "none")
    /\ got' = <<>>
    /\ UNCHANGED <<proxyType, credentials, wire, hungUp, payload>>

\* _socks5_authenticate.
Authenticated ==
    /\ tunnelPc = "auth" /\ Len(got) = Needed
    /\ IF got = <<1, 0>> THEN Continue("reply", "reply") ELSE Continue("closed", "none")
    /\ got' = <<>>
    /\ UNCHANGED <<proxyType, credentials, wire, hungUp, payload>>

\* The name may fail to resolve, be too long, or have no IDNA form (which is
\* no ProxyError, and leaves the socket open), before the request is sent.
NoDestination ==
    /\ tunnelPc = "reply" /\ awaited = "reply" /\ got = <<>>
    /\ \E end \in {"closed", "leaked"} : Continue(end, "none")
    /\ UNCHANGED <<proxyType, credentials, got, wire, hungUp, payload>>

\* _socks5_request_connect: the head of the reply, and its bound address.
Reply ==
    /\ tunnelPc = "reply" /\ Len(got) = Needed
    /\ tunnelPc' =
           IF got[1] # 5 \/ got[2] # 0 THEN "closed"
           ELSE CASE got[4] = 1 -> "ipv4" [] got[4] = 4 -> "ipv6" [] got[4] = 3 -> "length"
                  [] OTHER -> "closed"
    /\ got' = <<>>
    /\ UNCHANGED <<proxyType, credentials, wire, awaited, hungUp, payload>>

Bound ==
    /\ tunnelPc \in {"ipv4", "ipv6", "length", "domain"} /\ Len(got) = Needed
    /\ IF tunnelPc = "length" THEN tunnelPc' = "domain" /\ UNCHANGED got
       ELSE tunnelPc' = "port" /\ got' = <<>>
    /\ UNCHANGED <<proxyType, credentials, wire, awaited, hungUp, payload>>

Port ==
    /\ tunnelPc = "port" /\ Len(got) = Needed
    /\ tunnelPc' = "open" /\ got' = <<>>
    /\ UNCHANGED <<proxyType, credentials, wire, awaited, hungUp, payload>>

\* build_ssl_context: a CA bundle that cannot be read, with the tunnel open.
BundleUnreadable ==
    /\ tunnelPc = "open"
    /\ tunnelPc' = "leaked"
    /\ UNCHANGED <<proxyType, credentials, got, wire, awaited, hungUp, payload>>

\* open_tls: the handshake with the destination succeeds, or closes the tunnel.
OpenTls ==
    /\ tunnelPc = "open"
    /\ tunnelPc' \in {"secured", "closed"}
    /\ UNCHANGED <<proxyType, credentials, got, wire, awaited, hungUp, payload>>

TunnelNext ==
    \/ Connect \/ Answer \/ HangUp
    \/ ReadByte \/ ReadSome \/ ReadFails
    \/ Status \/ Method \/ Authenticated \/ NoDestination \/ Reply \/ Bound \/ Port
    \/ BundleUnreadable \/ OpenTls

TunnelSpec == TunnelInit /\ [][TunnelNext]_tunnelVars

-----------------------------------------------------------------------------
(* Properties *)

(***************************************************************************)
(* A tunnel that is handed out starts with the first byte of the           *)
(* destination: nothing of the proxy's answers is left unread and no byte  *)
(* of the destination was read, however the stream was cut and whatever    *)
(* the kind and length of the bound address.                               *)
(***************************************************************************)
TunnelStartsAtPayload ==
    tunnelPc = "open" =>
        /\ Len(wire) = payload
        /\ \A i \in 1..Len(wire) : wire[i] = Payload
=============================================================================
