------------------------------- MODULE Headers -------------------------------
(***************************************************************************)
(* What road7 does to the headers of a request and of a response, as       *)
(* functions of header maps: src/transform.rs, src/security_headers.rs,    *)
(* rebuild_request and the CORS headers of src/main.rs, and the keys and   *)
(* entries of src/cache.rs.                                                *)
(*                                                                         *)
(* A header map is a function from names to the non-empty sequences of     *)
(* their values, as hyper's HeaderMap is.  A value is a sequence of        *)
(* tokens, for Append and X-Forwarded-For put values together and Vary     *)
(* lists names.  An Option is a set of at most one element.  Names are     *)
(* those that parse, in lower case.                                        *)
(***************************************************************************)
EXTENDS Naturals, SequencesExt

Newline   == "newline"    \* no header value may hold one
Opaque    == "opaque"     \* bytes that to_str() does not take
NoHeaders == <<>>

Has(h, n)       == n \in DOMAIN h
Get(h, n)       == Head(h[n])
Over(g, h)      == [n \in DOMAIN g \union DOMAIN h |-> IF n \in DOMAIN g THEN g[n] ELSE h[n]]
Single(n, v)    == [x \in {n} |-> <<v>>]
Insert(h, n, v) == Over(Single(n, v), h)
Without(h, ns)  == Restrict(h, DOMAIN h \ ns)
Readable(v)     == Opaque \notin Range(v)

Given(option)          == CHOOSE x \in option : TRUE
GivenOr(option, other) == IF option = {} THEN other ELSE Given(option)

-----------------------------------------------------------------------------
(* Transforms. *)

\* HeaderValue::from_str, and what is inserted when it fails.
Legal(text) == IF Newline \in Range(text) THEN <<>> ELSE text

ApplyTransform(h, t) ==
    LET value   == GivenOr(t.value, <<>>)
        current == IF Has(h, t.name) /\ Readable(Get(h, t.name)) THEN Get(h, t.name) ELSE <<>>
    IN  CASE t.operation = "Set"    -> Insert(h, t.name, Legal(value))
          [] t.operation = "Remove" -> Without(h, {t.name})
          [] t.operation = "Append" -> Insert(h, t.name, Legal(current \o value))
          [] OTHER                  -> h

ApplyHeaderTransforms(h, transforms) ==
    LET after[i \in 0..Len(transforms)] ==
            IF i = 0 THEN h ELSE ApplyTransform(after[i - 1], transforms[i])
    IN  after[Len(transforms)]

-----------------------------------------------------------------------------
(* rebuild_request. *)

\* Every header is inserted anew, so that the last of its values is the one that
\* stays; the client is added to the first X-Forwarded-For.
RebuiltHeaders(h, ip, authority) ==
    LET forwarded == IF Has(h, "x-forwarded-for")
                     THEN Get(h, "x-forwarded-for") \o <<",", ip>>
                     ELSE <<ip>>
        inserted == [n \in DOMAIN h |-> <<Last(h[n])>>]
    IN  Insert(Insert(Insert(inserted, "x-proxy", <<"road7">>), "host", <<authority>>),
               "x-forwarded-for", forwarded)

-----------------------------------------------------------------------------
(* What is added to a response. *)

CorsNames == {"allow-origin", "allow-headers", "allow-methods"}

\* A CorsConfig is [enabled, given], where given has the names it sets.
\* The CORS headers of an answer that comes from the target,
WithCors(h, cors, default_cors) ==
    LET effective == IF cors = {} THEN default_cors ELSE cors
    IN  IF effective = {} \/ ~Given(effective).enabled
        THEN h
        ELSE Over([n \in DOMAIN Given(effective).given |-> <<Given(effective).given[n]>>], h)

\* and those that an entry keeps, whether or not CORS is enabled.
CorsDefaults ==
    [n \in CorsNames |-> IF n = "allow-methods" THEN <<"all methods">> ELSE <<"*">>]

WithEntryCors(h, cors) ==
    IF cors = {} THEN h
    ELSE Over([n \in CorsNames |-> <<Over(Given(cors).given, CorsDefaults)[n]>>], h)

\* The headers that are set when the configuration is given but not they.
SecurityDefaults ==
    [n \in {"content-security-policy", "x-xss-protection", "referrer-policy"} |-> <<"default">>]

WithSecurity(h, security) ==
    IF security = {} THEN h
    ELSE LET all == Over(Given(security), SecurityDefaults)
         IN  Over([n \in DOMAIN all |-> <<all[n]>>], h)

-----------------------------------------------------------------------------
(* Cache keys and entries. *)

\* Mutant: the values of the headers that Vary names are not in the key.
KeyWithoutVary(url, uri, h, vary) == <<url, uri, <<>>>>

\* The hash of all this, taken to be without collisions.
CreateCacheKey(url, uri, h, vary) ==
    LET hashed[i \in 0..Len(vary)] ==
            IF i = 0 THEN <<>>
            ELSE IF Has(h, vary[i]) THEN Append(hashed[i - 1], <<vary[i], Get(h, vary[i])>>)
            ELSE hashed[i - 1]
    IN  <<url, uri, hashed[Len(vary)]>>

\* The MD5 of nothing: the body has been taken out by then.
EmptyHash == <<"md5 of nothing">>

\* CacheEntry::from_response, for headers that are text.
EntryOf(status, h, body) ==
    [status |-> status, headers |-> h, body |-> body,
     etag |-> IF Has(h, "etag") THEN Get(h, "etag") ELSE EmptyHash,
     last_modified |-> IF Has(h, "last-modified") THEN {Get(h, "last-modified")} ELSE {},
     vary |-> IF Has(h, "vary") THEN Get(h, "vary") ELSE <<>>]

\* Cache::put keeps the JSON of the bytes, and nothing takes it apart again.
Stored(entry, serialize) ==
    IF serialize THEN [entry EXCEPT !.body = <<"json">> \o @] ELSE entry

\* The validators of an entry, under the names of two headers,
WithValidators(h, entry, tag, date) ==
    LET tagged == Insert(h, tag, entry.etag)
    IN  IF entry.last_modified = {} THEN tagged
        ELSE Insert(tagged, date, Given(entry.last_modified))

\* as they are in a request.
WithCondition(h, entry) == WithValidators(h, entry, "if-none-match", "if-modified-since")

\* Mutant: an answer from the cache goes without the security headers.
HitBare(entry, cors, security) ==
    [status |-> entry.status, body |-> entry.body,
     headers |-> WithValidators(WithEntryCors(entry.headers, cors), entry, "etag", "last-modified")]

\* The answer an entry makes.  Of several Last-Modified it has the first.
Hit(entry, cors, security) ==
    [status |-> entry.status, body |-> entry.body,
     headers |-> WithSecurity(
         WithValidators(WithEntryCors(entry.headers, cors), entry, "etag", "last-modified"),
         security)]
=============================================================================
