----------------------------- MODULE MCExchange -----------------------------
(***************************************************************************)
(* Exchange for TLC: a target of two URLs whose resource changes once, and *)
(* what the documentation says of cached answers that the code does not do.*)
(***************************************************************************)
EXTENDS Exchange

MCUrls     == <<"u1", "u2">>
MCVersions == <<"v1", "v2">>

Plain(uri) == [uri |-> uri, headers |-> NoHeaders, body |-> <<>>, ip |-> "c1"]

\* Through another proxy, with a body, a header to select by and a validator.
Rich ==
    [uri |-> "x", body |-> <<"b">>, ip |-> "c2",
     headers |-> ("x-forwarded-for" :> << <<"p1">>, <<"p2">> >>) @@ ("accept" :> << <<"a">> >>)
                 @@ ("if-none-match" :> << <<"v1", "a">> >>)]

MCArrivals == {Plain("x"), Plain("y"), Rich}

Transform(op, name, value) == [operation |-> op, name |-> name, value |-> value]

\* README.md:129, 130, and one of every other kind.
RequestTransforms ==
    <<Transform("Append", "x-id", {<<"q">>}), Transform("Append", "x-forwarded-for", {<<",q">>}),
      Transform("Set", "x-new", {}), Transform("Unknown", "x-id", {})>>

ResponseTransforms ==
    <<Transform("Append", "x-time", {<<"ms">>}), Transform("Remove", "server", {}),
      Transform("Set", "x-broken", {<<"a", Newline>>})>>

ServerHeaders == ("x-time" :> << <<"5">> >>) @@ ("server" :> << <<"s">> >>)
Server(etags, vary) == [etags |-> etags, vary |-> vary, headers |-> ServerHeaders,
                        dates |-> <<>>, breaks |-> {}]

\* Servers with a second Last-Modified, and those of which one may break off a body.
Dated(server)    == [server EXCEPT !.dates = << <<"v0">> >>]
Breaking(server) == [server EXCEPT !.breaks = {"u1"}]

CorsInFull == [enabled |-> TRUE, given |-> [n \in CorsNames |-> <<"here">>]]
CorsOff    == [enabled |-> FALSE, given |-> "allow-origin" :> <<"here">>]
Security   == ("hsts" :> <<"year">>) @@ ("referrer-policy" :> <<"origin">>)

Config(cached, cors, default_cors, security, server) ==
    [cache |-> cached, cors |-> cors, default_cors |-> default_cors, security |-> security,
     server |-> server, request_transforms |-> RequestTransforms,
     response_transforms |-> ResponseTransforms]

AsBytes == {[serialize |-> FALSE]}
AsJson  == {[serialize |-> TRUE]}

MCConfigs ==
    {Config(AsBytes, {CorsInFull}, {}, {Security}, Breaking(Server(TRUE, <<"accept">>))),
     Config(AsBytes, {}, {CorsInFull}, {Security}, Dated(Server(FALSE, <<>>))),
     Config(AsJson, {CorsOff}, {CorsInFull}, {}, Server(TRUE, <<>>)),
     Config({}, {}, {CorsOff}, {Security}, Server(FALSE, <<"accept">>))}

TaskSymmetry == Permutations(Tasks)

VariedOnly == {c \in MCConfigs : c.cache = AsBytes /\ c.server.etags}

\* README.md:37, "Utilizes ETag and Last-Modified headers for cache validation":
\* a 304 is answered with the entry that has the ETag the target was asked about.
ConfirmedEntryServed ==
    \A t \in Tasks : reply[t].by = "revalidated" /\ Has(sent[t].headers, "if-none-match") =>
        Get(reply[t].answer.headers, "etag") = Get(sent[t].headers, "if-none-match")
=============================================================================
