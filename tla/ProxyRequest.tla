---------------------------- MODULE ProxyRequest ----------------------------
(***************************************************************************)
(* The head of a request as src/src/runtime.rs reads it (read_http_request *)
(* and, for HTTP/2, handle_h2_request) and as it sends it to an upstream   *)
(* (build_proxy_request).                                                  *)
(*                                                                         *)
(* A header is a name in lower case and a value, the sequence of its       *)
(* tokens.  A target is the sequence of its characters.                    *)
(***************************************************************************)
EXTENDS Naturals, FiniteSetsExt, SequencesExt

Header(name, value) == [name |-> name, value |-> value]

\* The headers with one of these names, in their order, and those without.
NamedIn(headers, names) ==
    LET kept[i \in 0..Len(headers)] ==
          IF i = 0 THEN <<>>
          ELSE IF headers[i].name \in names THEN Append(kept[i - 1], headers[i]) ELSE kept[i - 1]
    IN  kept[Len(headers)]
Named(headers, name) == NamedIn(headers, {name})
Without(headers, names) == NamedIn(headers, {headers[i].name : i \in DOMAIN headers} \ names)
Has(h, token) == \E i \in DOMAIN h.value : h.value[i] = token

\* Lengths are written in decimal; what is no number counts as 0.
Digits == <<"1", "2">>
Number(value) == IF \E n \in DOMAIN Digits : value = <<Digits[n]>>
                 THEN CHOOSE n \in DOMAIN Digits : value = <<Digits[n]>> ELSE 0

----------------------------------------------------------------------------
(* Reading.                                                                *)

\* The last Content-Length counts, and none of them if the body is chunked.
Chunked(headers) == \E h \in ToSet(Named(headers, "transfer-encoding")) : Has(h, "chunked")
ContentLength(headers) ==
    LET lines == Named(headers, "content-length")
    IN  IF lines = <<>> THEN 0 ELSE Number(Last(lines).value)

\* content_length of the request: 0 for none; decoded is the length of its body
\* if that comes in chunks.
LengthRead(headers, decoded) ==
    IF Chunked(headers) THEN decoded ELSE ContentLength(headers)

\* request_keep_alive looks at the first Connection header.
KeepAlive(headers, version) ==
    LET lines == Named(headers, "connection")
    IN  IF version = "1.0" THEN lines # <<>> /\ Has(Head(lines), "keep-alive")
        ELSE lines = <<>> \/ ~Has(Head(lines), "close")

\* request_is_websocket.
IsWebsocket(headers) ==
    /\ \E h \in ToSet(Named(headers, "upgrade")) : h.value = <<"websocket">>
    /\ \E h \in ToSet(Named(headers, "connection")) : Has(h, "upgrade")

\* The fields of an HTTP/2 request: the first :authority becomes the last Host.
Pseudo == {":authority", ":path"}
HeadersOf(fields) ==
    LET authorities == Named(fields, ":authority")
    IN  Without(fields, Pseudo)
          \o IF authorities = <<>> THEN <<>> ELSE <<Header("host", Head(authorities).value)>>

----------------------------------------------------------------------------
(* Forwarding.                                                             *)

Replaced == {"x-real-ip", "x-forwarded-for", "x-forwarded-proto"}
Framing == {"content-length", "transfer-encoding"}
HopByHop == {"connection", "proxy-connection", "keep-alive"}

\* Faulty variant: only the length is taken for framing.
DroppedButEncoding(websocket) ==
    Replaced \cup {"content-length"} \cup IF websocket THEN {} ELSE HopByHop

Dropped(websocket) == Replaced \cup Framing \cup IF websocket THEN {} ELSE HopByHop

\* The address of the client behind what the last X-Forwarded-For says.
ForwardedFor(headers, client) ==
    LET lines == Named(headers, "x-forwarded-for")
    IN  IF lines = <<>> THEN <<client>> ELSE Append(Last(lines).value, client)

\* The headers that build_proxy_request writes.  The version stays, but HTTP/2
\* becomes HTTP/1.1.
BuildHeaders(headers, length, upstream, client, websocket) ==
    LET host == Header("host", <<upstream>>)
        kept == Without(headers, Dropped(websocket))
        hosted == [i \in DOMAIN kept |-> IF kept[i].name = "host" THEN host ELSE kept[i]]
    IN  hosted
          \o (IF Named(kept, "host") = <<>> THEN <<host>> ELSE <<>>)
          \o <<Header("x-real-ip", <<client>>),
               Header("x-forwarded-for", ForwardedFor(headers, client)),
               Header("x-forwarded-proto", <<"http">>)>>
          \o (IF websocket THEN <<>> ELSE <<Header("connection", <<"close">>)>>)
          \o (IF length = 0 THEN <<>> ELSE <<Header("content-length", <<Digits[length]>>)>>)
BuildVersion(version) == IF version = "2.0" THEN "1.1" ELSE version

\* proxy_target: a prefix of the path is replaced, the query is left alone.
PathLength(target) == Min({n \in 0..Len(target) : n = Len(target) \/ target[n + 1] = "?"})
ProxyTarget(target, rewrite) ==
    LET path == SubSeq(target, 1, PathLength(target))
        query == SubSeq(target, PathLength(target) + 1, Len(target))
    IN  IF IsPrefix(rewrite.from, path)
        THEN rewrite.to \o SubSeq(path, Len(rewrite.from) + 1, Len(path)) \o query
        ELSE target

----------------------------------------------------------------------------
(* What a forwarded head promises, read by the rules above.                *)

Lines ==
    {Header("host", <<"h">>), Header("accept", <<"a">>), Header("x-real-ip", <<"a">>),
     Header("x-forwarded-for", <<>>), Header("x-forwarded-for", <<"a">>),
     Header("content-length", <<"2">>), Header("content-length", <<"a">>),
     Header("transfer-encoding", <<"chunked">>), Header("transfer-encoding", <<"gzip">>),
     Header("connection", <<"keep-alive">>), Header("connection", <<"upgrade">>),
     Header("upgrade", <<"websocket">>), Header("keep-alive", <<"a">>)}
Plain == {"accept", "upgrade"}

\* However often and in whatever order a client sends its headers, the upstream
\* finds the length of the body that will follow, and nothing else about it; the
\* headers between client and upstream in their order; itself as the host; the
\* address of the client last; and a connection that ends with this request, or
\* the client's wish for a websocket.
ForwardedTruly(headers, version, decoded, enabled) ==
    LET length == LengthRead(headers, decoded)
        websocket == enabled /\ version # "2.0" /\ IsWebsocket(headers)
        sent == BuildHeaders(headers, length, "u", "c", websocket)
    IN  /\ ~Chunked(sent) /\ ContentLength(sent) = length
        /\ Len(Named(sent, "content-length")) <= 1
        /\ NamedIn(sent, Plain) = NamedIn(headers, Plain)
        /\ ToSet(Named(sent, "host")) = {Header("host", <<"u">>)}
        /\ Named(sent, "x-real-ip") = <<Header("x-real-ip", <<"c">>)>>
        /\ \E value \in {<<"c">>, <<"a", "c">>} :
             Named(sent, "x-forwarded-for") = <<Header("x-forwarded-for", value)>>
        /\ IF websocket THEN IsWebsocket(sent) ELSE ~KeepAlive(sent, BuildVersion(version))

HeadsForwardedTruly(size) ==
    /\ \A headers \in BoundedSeq(Lines, size), decoded \in 0..2, enabled \in BOOLEAN,
          version \in {"1.0", "1.1"} : ForwardedTruly(headers, version, decoded, enabled)
    /\ \A fields \in BoundedSeq(Lines \cup {Header(":authority", <<"h">>)}, size - 1) :
         ForwardedTruly(HeadersOf(fields), "2.0", 2, TRUE)

\* The rest of a path whose prefix is replaced, and every query, arrives as it is.
TargetsKept(size) ==
    \A target \in BoundedSeq({"/", "a", "?"}, size), from \in {<<"/">>, <<"/", "a">>} :
      LET sent == ProxyTarget(target, [from |-> from, to |-> <<"b">>])
          query(t) == {SubSeq(t, n, Len(t)) : n \in {m \in DOMAIN t : t[m] = "?"}}
      IN  /\ query(sent) = query(target)
          /\ \/ sent = target /\ ~IsPrefix(from, target)
             \/ /\ \A rest \in BoundedSeq({"/", "a", "?"}, size) :
                     target = from \o rest => sent = <<"b">> \o rest
                /\ IsPrefix(from, target)
=============================================================================
