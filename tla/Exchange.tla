------------------------------ MODULE Exchange ------------------------------
(***************************************************************************)
(* What road7 sends, keeps and answers: the data that proxy_request of     *)
(* src/main.rs moves between a client, the cache and the URLs of a target, *)
(* with module Headers for what becomes of the headers on the way.         *)
(*                                                                         *)
(* Requests run side by side, each from one await to the next.  How they   *)
(* are admitted and given up on is module ProxyRequest, and the locks of   *)
(* the cache are module ResponseCache: a lookup is one step here, because  *)
(* a put of the key waits until it has let go of the cache, and one that   *)
(* meets an expired entry has no step.                                     *)
(*                                                                         *)
(* The resource behind the URLs changes, and its servers answer            *)
(* conditional requests as they should.                                    *)
(***************************************************************************)
EXTENDS Headers

CONSTANTS Tasks,       \* requests at a time
          Arrivals,    \* requests that clients send: [uri, headers, body, ip]
          Urls,        \* the target's URLs; the balancer may pick any
          Configs,     \* configurations of the target and its servers
          TTL,         \* ttl_seconds, in ticks
          MaxAttempts, \* of the retry strategy
          Versions,    \* names of the states the resource goes through
          MaxReceived  \* bound: requests that come in

IsOption(x) == \A a, b \in x : a = b
IsSeq(x)    == x \in Seq(Range(x))

\* What config.toml may say of CORS and of the transforms.
IsConfig(c) ==
    /\ IsOption(c.cache) /\ IsOption(c.cors) /\ IsOption(c.default_cors) /\ IsOption(c.security)
    /\ \A cors \in c.cors \union c.default_cors : DOMAIN cors.given \subseteq CorsNames
    /\ IsSeq(c.request_transforms) /\ IsSeq(c.response_transforms) /\ IsSeq(c.server.vary)

ASSUME ExchangeAssumption ==
    /\ Urls \in Seq(Range(Urls)) \ {<<>>}
    /\ \A c \in Configs : IsConfig(c)
    /\ \A a \in Arrivals : DOMAIN a = {"uri", "headers", "body", "ip"}
    /\ Versions # <<>>
    /\ TTL \in Nat \ {0}
    /\ MaxAttempts \in Nat \ {0}
    /\ MaxReceived \in Nat

VARIABLES config,     \* one of Configs
          version,    \* the state of the resource
          entries,    \* the entry of each key that has one
          judged,     \* keys a cleaner has found expired and not yet removed
          at,         \* where each task is
          request,    \* its original_req
          retries,    \* the loop's counter
          sent,       \* the request it sent last
          reply,      \* what the target, and in the end the proxy, answers
          received    \* requests received so far

cache == <<entries, judged>>
tasks == <<at, request, retries, sent, reply>>
vars  == <<config, version, cache, tasks, received>>

Nothing == [url |-> "none"]
NoReply == [by |-> "none"]
Idle    == [uri |-> "none"]

Init ==
    /\ config \in Configs
    /\ version = 1
    /\ entries = [k \in {} |-> Nothing]
    /\ judged = {}
    /\ at = [t \in Tasks |-> "idle"]
    /\ request = [t \in Tasks |-> Idle]
    /\ retries = [t \in Tasks |-> 0]
    /\ sent = [t \in Tasks |-> Nothing]
    /\ reply = [t \in Tasks |-> NoReply]
    /\ received = 0

Cached  == config.cache # {}
Entry(k)   == IF k \in DOMAIN entries THEN {entries[k]} ELSE {}
Expired(k) == \E e \in Entry(k) : e.left = 0

\* The key a request is looked up under, and that an entry asks for.
LookupKey(t)  == CreateCacheKey(Urls[1], request[t].uri, request[t].headers, <<>>)
VaryKey(t, e) == CreateCacheKey(Urls[1], request[t].uri, request[t].headers, e.vary)

Moves(t, from, to) ==
    /\ at[t] = from
    /\ at' = [at EXCEPT ![t] = to]

-----------------------------------------------------------------------------
(* The way to the loop. *)

\* validate_body takes the body out, and after it the count of its bytes.
Receive(t, a) ==
    /\ Moves(t, "idle", "lookup")
    /\ received < MaxReceived
    /\ received' = received + 1
    /\ request' = [request EXCEPT ![t] = [a EXCEPT !.body = <<>>]]
    /\ UNCHANGED <<config, version, cache, retries, sent, reply>>

\* The answer from entry e, with where it came from.
AnswerFrom(t, e, how) ==
    reply' = [reply EXCEPT ![t] =
        [by |-> how, answer |-> Hit(e.entry, config.cors, config.security),
         origin |-> e.origin, fresh |-> e.fresh]]

\* An entry asks for a key of the same cache, which has none but its own.
Lookup(t) ==
    /\ at[t] = "lookup"
    /\ ~Expired(LookupKey(t))
    /\ IF Cached /\ \E e \in Entry(LookupKey(t)) : VaryKey(t, e.entry) = LookupKey(t)
       THEN /\ at' = [at EXCEPT ![t] = "answered"]
            /\ AnswerFrom(t, entries[LookupKey(t)], "hit")
       ELSE /\ at' = [at EXCEPT ![t] = "condition"]
            /\ UNCHANGED reply
    /\ UNCHANGED <<config, version, cache, request, retries, sent, received>>

\* Validators for the request, those of the client included when there are none.
Condition(t) ==
    /\ Moves(t, "condition", "loop")
    /\ ~Expired(LookupKey(t))
    /\ request' = [request EXCEPT ![t].headers =
           IF Entry(LookupKey(t)) = {} THEN @
           ELSE WithCondition(@, entries[LookupKey(t)].entry)]
    /\ UNCHANGED <<config, version, cache, retries, sent, reply, received>>

-----------------------------------------------------------------------------
(* The retry loop. *)

Rebuilt(t, url) ==
    [url |-> url, body |-> request[t].body,
     headers |-> ApplyHeaderTransforms(
         RebuiltHeaders(request[t].headers, request[t].ip, url), config.request_transforms)]

\* Mutant: what goes out is what the next attempt starts from.
SendAccumulating(t) ==
    /\ Moves(t, "loop", "upstream")
    /\ retries[t] < MaxAttempts
    /\ \E url \in Range(Urls) :
         /\ sent' = [sent EXCEPT ![t] = Rebuilt(t, url)]
         /\ request' = [request EXCEPT ![t].headers = Rebuilt(t, url).headers]
    /\ UNCHANGED <<config, version, cache, retries, reply, received>>

\* The body is moved from original_req, whose headers stay as they are.
Send(t) ==
    /\ Moves(t, "loop", "upstream")
    /\ retries[t] < MaxAttempts
    /\ \E url \in Range(Urls) : sent' = [sent EXCEPT ![t] = Rebuilt(t, url)]
    /\ request' = [request EXCEPT ![t].body = <<>>]
    /\ UNCHANGED <<config, version, cache, retries, reply, received>>

Leave(t) ==
    /\ request' = [request EXCEPT ![t] = Idle]
    /\ retries' = [retries EXCEPT ![t] = 0]
    /\ sent' = [sent EXCEPT ![t] = Nothing]
    /\ reply' = [reply EXCEPT ![t] = NoReply]

\* A status of retry_statuses, an error or a time-out, before the last attempt.
Fail(t) ==
    /\ Moves(t, "upstream", "loop")
    /\ retries[t] + 1 < MaxAttempts
    /\ retries' = [retries EXCEPT ![t] = @ + 1]
    /\ UNCHANGED <<config, version, cache, request, sent, reply, received>>

\* And the last: an error that road7 makes up.
GiveUp(t) ==
    /\ Moves(t, "upstream", "idle")
    /\ Leave(t)
    /\ UNCHANGED <<config, version, cache, received>>

\* The servers.  What they have for a request sent now, under an ETag that is
\* not the same for any two versions or selections.
Selected(h) == FlattenSeq([i \in DOMAIN config.server.vary |->
                   IF Has(h, config.server.vary[i]) THEN Get(h, config.server.vary[i]) ELSE <<>>])

Tag(h) == <<Versions[version]>> \o Selected(h)

Representation(s) ==
    [status |-> IF version = 1 THEN "404" ELSE "200",
     body |-> <<s.url, Versions[version]>> \o Selected(s.headers),
     headers |-> Over(config.server.headers,
                 Over(IF config.server.etags THEN Single("etag", Tag(s.headers)) ELSE NoHeaders,
                 Over(IF config.server.vary # <<>> THEN Single("vary", config.server.vary) ELSE NoHeaders,
                      [n \in {"last-modified"} |->
                           << <<Versions[version]>> >> \o config.server.dates])))]

Unchanged(s) ==
    IF Has(s.headers, "if-none-match")
    THEN config.server.etags /\ Get(s.headers, "if-none-match") = Tag(s.headers)
    ELSE Has(s.headers, "if-modified-since")
         /\ Get(s.headers, "if-modified-since") = <<Versions[version]>>

\* Any status but those retried and 304, transformed: the body is read if the
\* answer is to be cached, and sent on as it is otherwise.
Respond(t) ==
    /\ Moves(t, "upstream", IF Cached THEN "store" ELSE "answered")
    /\ ~Unchanged(sent[t])
    /\ LET r == Representation(sent[t])
           h == ApplyHeaderTransforms(r.headers, config.response_transforms)
           answer == [r EXCEPT !.headers =
               IF Cached THEN h
               ELSE WithSecurity(WithCors(h, config.cors, config.default_cors), config.security)]
       IN  reply' = [reply EXCEPT ![t] = [by |-> "target", answer |-> answer]]
    /\ UNCHANGED <<config, version, cache, request, retries, sent, received>>

\* 304, for the client's own validators or those of the cache.
NotModified(t) ==
    /\ Moves(t, "upstream", "revalidate")
    /\ Unchanged(sent[t])
    /\ UNCHANGED <<config, version, cache, request, retries, sent, reply, received>>

\* The entry of the lookup key is the answer, or there is another turn.
Revalidate(t) ==
    /\ at[t] = "revalidate"
    /\ ~Expired(LookupKey(t))
    /\ IF Entry(LookupKey(t)) = {}
       THEN /\ at' = [at EXCEPT ![t] = "loop"]
            /\ UNCHANGED reply
       ELSE /\ at' = [at EXCEPT ![t] = "answered"]
            /\ AnswerFrom(t, entries[LookupKey(t)], "revalidated")
    /\ UNCHANGED <<config, version, cache, request, retries, sent, received>>

\* History: what the response in hand answers, conditions aside.
Origin(t) ==
    [url |-> sent[t].url, uri |-> request[t].uri,
     headers |-> Without(request[t].headers, {"if-none-match", "if-modified-since"})]

\* The body is in, or has broken off and counts as an empty one: the response is
\* put under the key of the URL it came from and of its own Vary, and then given
\* to the client.
Store(t) ==
    /\ Moves(t, "store", "answered")
    /\ \E body \in {reply[t].answer.body}
                    \union (IF sent[t].url \in config.server.breaks THEN {<<>>} ELSE {}) :
       LET r     == [reply[t].answer EXCEPT !.body = body]
           entry == EntryOf(r.status, r.headers, r.body)
           key   == CreateCacheKey(sent[t].url, request[t].uri, request[t].headers, entry.vary)
           fresh == [r EXCEPT !.headers = WithSecurity(
                         WithCors(@, config.cors, config.default_cors), config.security)]
           put   == [entry |-> Stored(entry, Given(config.cache).serialize), left |-> TTL,
                     origin |-> Origin(t), fresh |-> fresh]
       IN  /\ entries' = [k \in DOMAIN entries \union {key} |->
                             IF k = key THEN put ELSE entries[k]]
           /\ reply' = [reply EXCEPT ![t].answer = fresh]
    /\ UNCHANGED <<config, version, judged, request, retries, sent, received>>

Finish(t) ==
    /\ Moves(t, "answered", "idle")
    /\ Leave(t)
    /\ UNCHANGED <<config, version, cache, received>>

-----------------------------------------------------------------------------
(* Around the requests. *)

Publish ==
    /\ version < Len(Versions)
    /\ version' = version + 1
    /\ UNCHANGED <<config, cache, tasks, received>>

\* Instant::now() moves on.
Tick ==
    /\ \E k \in DOMAIN entries : entries[k].left > 0
    /\ entries' = [k \in DOMAIN entries |->
           [entries[k] EXCEPT !.left = IF @ = 0 THEN 0 ELSE @ - 1]]
    /\ UNCHANGED <<config, version, judged, tasks, received>>

\* The cleaner of k's cache judges the entry that is there, and removes the one
\* it finds a moment later.
Judge(k) ==
    /\ k \notin judged
    /\ Expired(k)
    /\ judged' = judged \union {k}
    /\ UNCHANGED <<config, version, entries, tasks, received>>

RemoveJudged(k) ==
    /\ k \in judged
    /\ judged' = judged \ {k}
    /\ entries' = Without(entries, {k})
    /\ UNCHANGED <<config, version, tasks, received>>

Next ==
    \/ \E t \in Tasks :
         \/ \E a \in Arrivals : Receive(t, a)
         \/ Lookup(t) \/ Condition(t) \/ Send(t) \/ Fail(t) \/ GiveUp(t)
         \/ Respond(t) \/ NotModified(t) \/ Revalidate(t) \/ Store(t) \/ Finish(t)
    \/ \E k \in DOMAIN entries : Judge(k)
    \/ \E k \in judged : RemoveJudged(k)
    \/ Publish \/ Tick

Spec == Init /\ [][Next]_vars

-----------------------------------------------------------------------------
\* Same as far as the headers in names go.
AgreeOn(g, h, names) ==
    \A n \in names :
        /\ Has(g, n) <=> Has(h, n)
        /\ Has(g, n) => Get(g, n) = Get(h, n)

\* The Vary of the servers reaches the cache as it is.
KeepsVary ==
    /\ "vary" \notin DOMAIN config.server.headers
    /\ \A i \in DOMAIN config.response_transforms : config.response_transforms[i].name # "vary"

\* An answer from the cache is one that the target's first URL gave to a request
\* for the same URI, and, if the target was not asked and no transform changes
\* its Vary, to one with the same values of the headers that it said it depends
\* on, whatever was stored under other keys meanwhile.
HitsMatchRequest ==
    \A t \in Tasks : reply[t].by \in {"hit", "revalidated"} =>
        /\ reply[t].origin.url = Urls[1]
        /\ reply[t].origin.uri = request[t].uri
        /\ reply[t].by = "hit" /\ KeepsVary =>
               AgreeOn(reply[t].origin.headers, request[t].headers, Range(config.server.vary))

\* The CORS headers of an entry are those of a fresh answer.
CorsAlike ==
    \/ config.cors = {} /\ (config.default_cors = {} \/ ~Given(config.default_cors).enabled)
    \/ \E c \in config.cors : c.enabled /\ DOMAIN c.given = CorsNames

\* An answer from the cache is the one that was given when it was stored, with
\* an ETag: transforms are not applied twice and nothing that is added to a
\* fresh answer is left out, provided CORS is enabled in full or not at all;
\* but only the first Last-Modified is there, and with serialize the body is the
\* JSON of the one that was given.
HitsLikeFresh ==
    \A t \in Tasks : reply[t].by \in {"hit", "revalidated"} =>
        LET varying == {"etag", "last-modified"} \union (IF CorsAlike THEN {} ELSE CorsNames)
        IN  /\ reply[t].answer.status = reply[t].fresh.status
            /\ reply[t].answer.body =
                   IF Given(config.cache).serialize THEN <<"json">> \o reply[t].fresh.body
                   ELSE reply[t].fresh.body
            /\ Without(reply[t].answer.headers, varying) = Without(reply[t].fresh.headers, varying)
            /\ AgreeOn(reply[t].answer.headers, reply[t].fresh.headers, {"last-modified"})

\* Every attempt of a request says the same to whatever URL it goes: nothing is
\* appended twice, and no attempt has a body that another has lost.
AttemptsAlike ==
    [][\A t \in Tasks : at[t] = "loop" /\ at'[t] = "upstream" /\ sent[t] # Nothing =>
         /\ sent'[t].body = sent[t].body
         /\ Without(sent'[t].headers, {"host"}) = Without(sent[t].headers, {"host"})]_vars
=============================================================================
