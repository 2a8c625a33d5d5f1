---------------------------- MODULE ExchangeProofs ----------------------------
(***************************************************************************)
(* Proofs about Exchange, and with it Headers, for any requests, URLs,     *)
(* configurations and servers.                                             *)
(*                                                                         *)
(* The argument: an entry is under a key that tells where it came from and *)
(* by what it varies, and is made of a response in such a way that a hit   *)
(* answers like it; a response on its way to the cache still has the Vary  *)
(* of the servers; what a task sent is what it would send once more.  No   *)
(* transform reads another header than its own, which is shown by          *)
(* induction over the transforms.                                          *)
(***************************************************************************)
EXTENDS Exchange, WellFoundedInduction, SequenceTheorems, TLAPS

(* Induction over the natural numbers, for sets of them. *)

LEMMA SetInduction ==
    ASSUME NEW S, 0 \in S, \A n \in Nat : n \in S => n + 1 \in S
    PROVE  Nat \subseteq S
<1> SUFFICES ASSUME Nat \ S # {} PROVE FALSE
  OBVIOUS
<1>1. PICK n \in Nat \ S : \A m \in Nat \ S : <<m, n>> \notin OpToRel(<, Nat)
  BY NatLessThanWellFounded, WFMin
<1>2. \A m \in Nat \ S : ~ (m < n)
  BY <1>1 DEF OpToRel
<1>3. n # 0 /\ n - 1 \in Nat /\ (n - 1) + 1 = n
  OBVIOUS
<1>4. n - 1 \in S
  BY <1>2, <1>3
<1> QED BY <1>3, <1>4

-----------------------------------------------------------------------------
(* Transforms. *)

\* The header map after each of the transforms.
LEMMA TransformsUnfold ==
    ASSUME NEW h, NEW ts, Len(ts) \in Nat
    PROVE  \E f : /\ f[0] = h
                  /\ \A i \in 1..Len(ts) : f[i] = ApplyTransform(f[i - 1], ts[i])
                  /\ ApplyHeaderTransforms(h, ts) = f[Len(ts)]
<1> DEFINE n == Len(ts)
           Is(g, m) == g = [i \in 0..m |-> IF i = 0 THEN h ELSE ApplyTransform(g[i - 1], ts[i])]
           S == {m \in Nat : \E g : Is(g, m)}
           f == CHOOSE g : Is(g, n)
<1>1. 0 \in S
  <2> DEFINE g == [i \in 0..0 |-> h]
  <2>1. \A i \in 0..0 : g[i] = IF i = 0 THEN h ELSE ApplyTransform(g[i - 1], ts[i])
    OBVIOUS
  <2>2. Is(g, 0)
    BY <2>1
  <2> QED BY <2>2
<1>2. ASSUME NEW m \in Nat, m \in S PROVE m + 1 \in S
  <2>1. PICK g : Is(g, m)
    BY <1>2
  <2>2. \A i \in 0..m : g[i] = IF i = 0 THEN h ELSE ApplyTransform(g[i - 1], ts[i])
    BY <2>1
  <2> DEFINE e == [i \in 0..m + 1 |-> IF i <= m THEN g[i] ELSE ApplyTransform(g[m], ts[i])]
  <2>3. ASSUME NEW i \in 0..m + 1
        PROVE  e[i] = IF i = 0 THEN h ELSE ApplyTransform(e[i - 1], ts[i])
    <3>1. CASE i = 0
      <4>1. 0 \in 0..m /\ 0 \in 0..m + 1
        OBVIOUS
      <4> QED BY <2>2, <3>1, <4>1
    <3>2. CASE i # 0 /\ i <= m
      <4>1. i \in 0..m /\ i - 1 \in 0..m + 1 /\ i - 1 <= m
        BY <3>2
      <4>2. e[i] = g[i] /\ e[i - 1] = g[i - 1]
        BY <3>2, <4>1
      <4> QED BY <2>2, <3>2, <4>1, <4>2
    <3>3. CASE i = m + 1
      <4>1. i - 1 = m /\ m \in 0..m + 1 /\ i # 0 /\ ~ (i <= m)
        BY <3>3
      <4>2. e[i] = ApplyTransform(g[m], ts[i]) /\ e[m] = g[m]
        BY <4>1
      <4> QED BY <4>1, <4>2
    <3> QED BY <3>1, <3>2, <3>3
  <2>4. Is(e, m + 1)
    <3>1. e = [i \in 0..m + 1 |-> e[i]]
      OBVIOUS
    <3> HIDE DEF e
    <3> QED BY <2>3, <3>1
  <2> HIDE DEF Is
  <2> QED BY <2>4
<1>3. Is(f, n)
  <2>1. Nat \subseteq S
    <3> HIDE DEF S
    <3> QED BY <1>1, <1>2, SetInduction
  <2> HIDE DEF Is
  <2> QED BY <2>1
<1>4. ApplyHeaderTransforms(h, ts) = f[n]
  BY DEF ApplyHeaderTransforms
<1> HIDE DEF f
<1>5. \A i \in 0..n : f[i] = IF i = 0 THEN h ELSE ApplyTransform(f[i - 1], ts[i])
  BY <1>3
<1>6. f[0] = h
  BY <1>5
<1>7. \A i \in 1..n : f[i] = ApplyTransform(f[i - 1], ts[i])
  BY <1>5
<1> QED BY <1>4, <1>6, <1>7

\* Two header maps that differ in no name outside ns.
Same(g, h, ns) ==
    /\ DOMAIN g \ ns = DOMAIN h \ ns
    /\ \A n \in DOMAIN g \ ns : g[n] = h[n]

LEMMA SameWithout ==
    ASSUME NEW g, NEW h, NEW ns, Same(g, h, ns)
    PROVE  Without(g, ns) = Without(h, ns)
BY DEF Same, Without, Restrict

LEMMA SameOver ==
    ASSUME NEW g, NEW h, NEW ns, Same(g, h, ns), NEW x
    PROVE  Same(Over(x, g), Over(x, h), ns)
BY DEF Same, Over

LEMMA OverWithin ==
    ASSUME NEW x, NEW g, NEW ns, DOMAIN x \subseteq ns
    PROVE  Same(Over(x, g), g, ns)
BY DEF Same, Over

LEMMA SameChain ==
    ASSUME NEW ns, NEW f, NEW g, NEW h, Same(f, g, ns), Same(h, g, ns)
    PROVE  Same(f, h, ns)
BY DEF Same

\* A transform reads no header but its own.
LEMMA TransformSame ==
    ASSUME NEW g, NEW h, NEW ns, Same(g, h, ns), NEW t
    PROVE  Same(ApplyTransform(g, t), ApplyTransform(h, t), ns)
<1>1. CASE t.name \in ns
  <2>1. ASSUME NEW m, NEW v PROVE Same(Insert(m, t.name, v), m, ns)
    BY <1>1 DEF Same, Insert, Over, Single
  <2>2. ASSUME NEW m PROVE Same(Without(m, {t.name}), m, ns)
    BY <1>1 DEF Same, Without, Restrict
  <2>3. ASSUME NEW m PROVE Same(ApplyTransform(m, t), m, ns)
    <3>1. Same(m, m, ns)
      BY DEF Same
    <3> QED BY <2>1, <2>2, <3>1 DEF ApplyTransform
  <2>4. Same(ApplyTransform(g, t), g, ns) /\ Same(ApplyTransform(h, t), h, ns)
    BY <2>3
  <2> QED BY <2>4 DEF Same
<1>2. CASE t.name \notin ns
  <2>1. Has(g, t.name) <=> Has(h, t.name)
    BY <1>2 DEF Same, Has
  <2>2. Has(g, t.name) => Get(g, t.name) = Get(h, t.name)
    BY <1>2, <2>1 DEF Same, Has, Get
  <2>3. ASSUME NEW v PROVE Same(Insert(g, t.name, v), Insert(h, t.name, v), ns)
    BY SameOver DEF Insert
  <2>4. Same(Without(g, {t.name}), Without(h, {t.name}), ns)
    BY DEF Same, Without, Restrict
  <2>5. (IF Has(g, t.name) /\ Readable(Get(g, t.name)) THEN Get(g, t.name) ELSE <<>>)
        = (IF Has(h, t.name) /\ Readable(Get(h, t.name)) THEN Get(h, t.name) ELSE <<>>)
    BY <2>1, <2>2
  <2> QED BY <2>3, <2>4, <2>5 DEF ApplyTransform
<1> QED BY <1>1, <1>2

LEMMA TransformsSame ==
    ASSUME NEW g, NEW h, NEW ns, Same(g, h, ns), NEW ts, Len(ts) \in Nat
    PROVE  Same(ApplyHeaderTransforms(g, ts), ApplyHeaderTransforms(h, ts), ns)
<1>1. PICK a : /\ a[0] = g
               /\ \A i \in 1..Len(ts) : a[i] = ApplyTransform(a[i - 1], ts[i])
               /\ ApplyHeaderTransforms(g, ts) = a[Len(ts)]
  BY TransformsUnfold
<1>2. PICK b : /\ b[0] = h
               /\ \A i \in 1..Len(ts) : b[i] = ApplyTransform(b[i - 1], ts[i])
               /\ ApplyHeaderTransforms(h, ts) = b[Len(ts)]
  BY TransformsUnfold
<1> DEFINE S == {i \in Nat : i <= Len(ts) => Same(a[i], b[i], ns)}
<1>3. 0 \in S
  BY <1>1, <1>2
<1>4. ASSUME NEW i \in Nat, i \in S PROVE i + 1 \in S
  <2> SUFFICES ASSUME i + 1 <= Len(ts) PROVE Same(a[i + 1], b[i + 1], ns)
    OBVIOUS
  <2>1. i + 1 \in 1..Len(ts) /\ (i + 1) - 1 = i /\ i <= Len(ts)
    OBVIOUS
  <2>2. Same(a[i], b[i], ns)
    BY <1>4, <2>1
  <2>3. a[i + 1] = ApplyTransform(a[i], ts[i + 1]) /\ b[i + 1] = ApplyTransform(b[i], ts[i + 1])
    BY <1>1, <1>2, <2>1
  <2> QED BY <2>2, <2>3, TransformSame
<1>5. Nat \subseteq S
  <2> HIDE DEF S
  <2> QED BY <1>3, <1>4, SetInduction
<1>6. Same(a[Len(ts)], b[Len(ts)], ns)
  BY <1>5
<1> QED BY <1>1, <1>2, <1>6

\* A header that no transform names stays.
LEMMA TransformsKeep ==
    ASSUME NEW h, NEW ts, Len(ts) \in Nat, NEW n, \A i \in 1..Len(ts) : ts[i].name # n
    PROVE  LET g == ApplyHeaderTransforms(h, ts)
           IN  (Has(g, n) <=> Has(h, n)) /\ (Has(h, n) => g[n] = h[n])
<1> DEFINE Keeps(g) == (Has(g, n) <=> Has(h, n)) /\ (Has(h, n) => g[n] = h[n])
<1>1. PICK a : /\ a[0] = h
               /\ \A i \in 1..Len(ts) : a[i] = ApplyTransform(a[i - 1], ts[i])
               /\ ApplyHeaderTransforms(h, ts) = a[Len(ts)]
  BY TransformsUnfold
<1>2. ASSUME NEW g, Keeps(g), NEW t, t.name # n PROVE Keeps(ApplyTransform(g, t))
  <2>1. ASSUME NEW v PROVE Keeps(Insert(g, t.name, v))
    BY <1>2 DEF Insert, Over, Single, Has
  <2>2. Keeps(Without(g, {t.name}))
    BY <1>2 DEF Without, Restrict, Has
  <2> HIDE DEF Keeps
  <2> QED BY <1>2, <2>1, <2>2 DEF ApplyTransform
<1> DEFINE S == {i \in Nat : i <= Len(ts) => Keeps(a[i])}
<1>3. 0 \in S
  BY <1>1
<1>4. ASSUME NEW i \in Nat, i \in S PROVE i + 1 \in S
  <2> HIDE DEF Keeps
  <2> SUFFICES ASSUME i + 1 <= Len(ts) PROVE Keeps(a[i + 1])
    OBVIOUS
  <2>1. i + 1 \in 1..Len(ts) /\ (i + 1) - 1 = i /\ i <= Len(ts)
    OBVIOUS
  <2>2. Keeps(a[i])
    BY <1>4, <2>1
  <2>3. a[i + 1] = ApplyTransform(a[i], ts[i + 1]) /\ ts[i + 1].name # n
    BY <1>1, <2>1
  <2> QED BY <1>2, <2>2, <2>3
<1>5. Nat \subseteq S
  <2> HIDE DEF S
  <2> QED BY <1>3, <1>4, SetInduction
<1>6. Keeps(a[Len(ts)])
  BY <1>5
<1> QED BY <1>1, <1>6

-----------------------------------------------------------------------------
(* Keys. *)

\* A key tells its URL and its URI, and is as short as can be without a Vary.
LEMMA KeyParts ==
    ASSUME NEW u, NEW uri, NEW h, NEW vary
    PROVE  CreateCacheKey(u, uri, h, vary)[1] = u /\ CreateCacheKey(u, uri, h, vary)[2] = uri
BY DEF CreateCacheKey

\* What is hashed after each of the names.
LEMMA KeyUnfold ==
    ASSUME NEW u, NEW uri, NEW h, NEW vary, Len(vary) \in Nat
    PROVE  \E f : /\ f[0] = <<>>
                  /\ \A i \in 1..Len(vary) :
                        f[i] = IF Has(h, vary[i]) THEN Append(f[i - 1], <<vary[i], Get(h, vary[i])>>)
                               ELSE f[i - 1]
                  /\ CreateCacheKey(u, uri, h, vary)[3] = f[Len(vary)]
<1> DEFINE n == Len(vary)
           More(v, i) == IF Has(h, vary[i]) THEN Append(v, <<vary[i], Get(h, vary[i])>>) ELSE v
           Is(g, m) == g = [i \in 0..m |-> IF i = 0 THEN <<>>
                                           ELSE IF Has(h, vary[i])
                                           THEN Append(g[i - 1], <<vary[i], Get(h, vary[i])>>)
                                           ELSE g[i - 1]]
           S == {m \in Nat : \E g : Is(g, m)}
           f == CHOOSE g : Is(g, n)
<1>0. \A g, m : Is(g, m) <=> g = [i \in 0..m |-> IF i = 0 THEN <<>> ELSE More(g[i - 1], i)]
  OBVIOUS
<1>4. CreateCacheKey(u, uri, h, vary)[3] = f[n]
  BY DEF CreateCacheKey
<1> HIDE DEF Is, More
<1>1. 0 \in S
  <2> DEFINE g == [i \in 0..0 |-> <<>>]
  <2>1. g = [i \in 0..0 |-> IF i = 0 THEN <<>> ELSE More(g[i - 1], i)]
    OBVIOUS
  <2>2. Is(g, 0)
    BY <1>0, <2>1
  <2> QED BY <2>2
<1>2. ASSUME NEW m \in Nat, m \in S PROVE m + 1 \in S
  <2>1. PICK g : Is(g, m)
    BY <1>2
  <2>2. \A i \in 0..m : g[i] = IF i = 0 THEN <<>> ELSE More(g[i - 1], i)
    BY <1>0, <2>1
  <2> DEFINE e == [i \in 0..m + 1 |-> IF i <= m THEN g[i] ELSE More(g[m], i)]
  <2>3. ASSUME NEW i \in 0..m + 1
        PROVE  e[i] = IF i = 0 THEN <<>> ELSE More(e[i - 1], i)
    <3>1. CASE i = 0
      <4>1. 0 \in 0..m /\ 0 \in 0..m + 1
        OBVIOUS
      <4> QED BY <2>2, <3>1, <4>1
    <3>2. CASE i # 0 /\ i <= m
      <4>1. i \in 0..m /\ i - 1 \in 0..m + 1 /\ i - 1 <= m
        BY <3>2
      <4>2. e[i] = g[i] /\ e[i - 1] = g[i - 1]
        BY <3>2, <4>1
      <4> QED BY <2>2, <3>2, <4>1, <4>2
    <3>3. CASE i = m + 1
      <4>1. i - 1 = m /\ m \in 0..m + 1 /\ i # 0 /\ ~ (i <= m)
        BY <3>3
      <4>2. e[i] = More(g[m], i) /\ e[m] = g[m]
        BY <4>1
      <4> QED BY <4>1, <4>2
    <3> QED BY <3>1, <3>2, <3>3
  <2>4. Is(e, m + 1)
    <3>1. e = [i \in 0..m + 1 |-> e[i]]
      OBVIOUS
    <3> HIDE DEF e
    <3>2. e = [i \in 0..m + 1 |-> IF i = 0 THEN <<>> ELSE More(e[i - 1], i)]
      BY <2>3, <3>1
    <3> QED BY <1>0, <3>2
  <2> QED BY <2>4
<1>3. Is(f, n)
  <2>1. Nat \subseteq S
    <3> HIDE DEF S
    <3> QED BY <1>1, <1>2, SetInduction
  <2> QED BY <2>1
<1> HIDE DEF f
<1>5. \A i \in 0..n : f[i] = IF i = 0 THEN <<>> ELSE More(f[i - 1], i)
  BY <1>0, <1>3
<1>6. f[0] = <<>>
  BY <1>5
<1>7. \A i \in 1..n : f[i] = More(f[i - 1], i)
  BY <1>5
<1> QED BY <1>4, <1>6, <1>7 DEF More

\* With no Vary nothing is hashed, and when nothing is hashed the request has
\* none of the headers that the Vary names.
LEMMA KeyOfNothing ==
    ASSUME NEW u, NEW uri, NEW h, NEW vary, Len(vary) \in Nat
    PROVE  /\ vary = <<>> => CreateCacheKey(u, uri, h, vary)[3] = <<>>
           /\ CreateCacheKey(u, uri, h, vary)[3] = <<>> =>
                  \A i \in 1..Len(vary) : ~ Has(h, vary[i])
<1>1. PICK f : /\ f[0] = <<>>
               /\ \A i \in 1..Len(vary) :
                     f[i] = IF Has(h, vary[i]) THEN Append(f[i - 1], <<vary[i], Get(h, vary[i])>>)
                            ELSE f[i - 1]
               /\ CreateCacheKey(u, uri, h, vary)[3] = f[Len(vary)]
  BY KeyUnfold
<1>2. vary = <<>> => CreateCacheKey(u, uri, h, vary)[3] = <<>>
  <2>1. vary = <<>> => Len(vary) = 0
    OBVIOUS
  <2> QED BY <1>1, <2>1
<1> DEFINE T == {<<vary[i], Get(h, vary[i])>> : i \in 1..Len(vary)}
           Right(i) == f[i] \in Seq(T) /\ (f[i] = <<>> => \A j \in 1..i : ~ Has(h, vary[j]))
           S == {i \in Nat : i <= Len(vary) => Right(i)}
<1>3. 0 \in S
  <2>1. f[0] \in Seq(T)
    <3>1. <<>> \in Seq(T)
      <4> HIDE DEF T
      <4> QED OBVIOUS
    <3> QED BY <1>1, <3>1
  <2>2. \A j \in 1..0 : ~ Has(h, vary[j])
    OBVIOUS
  <2> QED BY <2>1, <2>2
<1>4. ASSUME NEW i \in Nat, i \in S PROVE i + 1 \in S
  <2> SUFFICES ASSUME i + 1 <= Len(vary) PROVE Right(i + 1)
    OBVIOUS
  <2>1. i + 1 \in 1..Len(vary) /\ (i + 1) - 1 = i /\ i <= Len(vary)
    OBVIOUS
  <2>2. Right(i)
    BY <1>4, <2>1
  <2> DEFINE x == <<vary[i + 1], Get(h, vary[i + 1])>>
  <2>3. f[i + 1] = IF Has(h, vary[i + 1]) THEN Append(f[i], x) ELSE f[i]
    BY <1>1, <2>1
  <2>4. x \in T
    BY <2>1
  <2> HIDE DEF x, T
  <2>5. CASE Has(h, vary[i + 1])
    <3>1. f[i + 1] = Append(f[i], x)
      BY <2>3, <2>5
    <3>2. Append(f[i], x) \in Seq(T) /\ Len(Append(f[i], x)) = Len(f[i]) + 1 /\ Len(f[i]) \in Nat
      BY <2>2, <2>4
    <3>3. Append(f[i], x) # <<>>
      BY <3>2
    <3> QED BY <3>1, <3>2, <3>3
  <2>6. CASE ~ Has(h, vary[i + 1])
    <3>1. f[i + 1] = f[i]
      BY <2>3, <2>6
    <3>2. \A j \in 1..i + 1 : j \in 1..i \/ j = i + 1
      OBVIOUS
    <3> QED BY <2>2, <2>6, <3>1, <3>2
  <2> QED BY <2>5, <2>6
<1>5. Nat \subseteq S
  <2> HIDE DEF S
  <2> QED BY <1>3, <1>4, SetInduction
<1>6. Right(Len(vary))
  <2> HIDE DEF Right
  <2> QED BY <1>5
<1> QED BY <1>1, <1>2, <1>6

-----------------------------------------------------------------------------
(* Answers. *)

\* The names whose headers an answer from the cache may have differently.
Varying == {"etag", "last-modified"} \union (IF CorsAlike THEN {} ELSE CorsNames)

\* An answer from the cache, and the one given when it was stored.
LikeFresh(answer, fresh) ==
    /\ answer.status = fresh.status
    /\ answer.body = IF Given(config.cache).serialize THEN <<"json">> \o fresh.body ELSE fresh.body
    /\ Without(answer.headers, Varying) = Without(fresh.headers, Varying)
    /\ AgreeOn(answer.headers, fresh.headers, {"last-modified"})

\* The answer of an entry, with the headers of the entry, differs from the fresh one
\* in those names only.
LEMMA CorsSame ==
    ASSUME IsConfig(config), NEW h
    PROVE  Same(WithEntryCors(h, config.cors), WithCors(h, config.cors, config.default_cors), Varying)
<1> DEFINE cors == config.cors
           default == config.default_cors
<1>0. Same(h, h, Varying)
  BY DEF Same
<1>1. CASE cors = {} /\ (default = {} \/ ~ Given(default).enabled)
  BY <1>0, <1>1 DEF WithEntryCors, WithCors
<1>2. CASE \E c \in cors : c.enabled /\ DOMAIN c.given = CorsNames
  <2>1. PICK c \in cors : c.enabled /\ DOMAIN c.given = CorsNames
    BY <1>2
  <2>2. Given(cors) = c /\ cors # {}
    BY <2>1 DEF IsConfig, IsOption, Given
  <2>3. \A n \in CorsNames : Over(c.given, CorsDefaults)[n] = c.given[n]
    BY <2>1 DEF Over
  <2>4. WithEntryCors(h, cors) = Over([n \in CorsNames |-> <<c.given[n]>>], h)
    <3>1. [n \in CorsNames |-> <<Over(c.given, CorsDefaults)[n]>>] = [n \in CorsNames |-> <<c.given[n]>>]
      BY <2>3
    <3> QED BY <2>2, <3>1 DEF WithEntryCors
  <2>5. WithCors(h, cors, default) = Over([n \in CorsNames |-> <<c.given[n]>>], h)
    BY <2>1, <2>2 DEF WithCors
  <2> QED BY <2>4, <2>5 DEF Same
<1>3. CASE ~ CorsAlike
  <2>1. CorsNames \subseteq Varying
    BY <1>3 DEF Varying
  <2>2. Same(WithEntryCors(h, cors), h, Varying)
    <3>1. CASE cors = {}
      BY <1>0, <3>1 DEF WithEntryCors
    <3>2. CASE cors # {}
      <4> DEFINE x == [n \in CorsNames |-> <<Over(Given(cors).given, CorsDefaults)[n]>>]
      <4>1. WithEntryCors(h, cors) = Over(x, h)
        BY <3>2 DEF WithEntryCors
      <4>2. DOMAIN x \subseteq Varying
        BY <2>1
      <4> HIDE DEF x
      <4> QED BY <4>1, <4>2, OverWithin
    <3> QED BY <3>1, <3>2
  <2>3. Same(WithCors(h, cors, default), h, Varying)
    <3> DEFINE effective == IF cors = {} THEN default ELSE cors
    <3>1. CASE effective = {} \/ ~ Given(effective).enabled
      BY <1>0, <3>1 DEF WithCors
    <3>2. CASE ~ (effective = {} \/ ~ Given(effective).enabled)
      <4> DEFINE x == [n \in DOMAIN Given(effective).given |-> <<Given(effective).given[n]>>]
      <4>1. WithCors(h, cors, default) = Over(x, h)
        BY <3>2 DEF WithCors
      <4>2. Given(effective) \in cors \union default
        BY <3>2 DEF Given
      <4>3. DOMAIN Given(effective).given \subseteq CorsNames
        BY <4>2 DEF IsConfig
      <4>4. DOMAIN x \subseteq Varying
        BY <2>1, <4>3
      <4> HIDE DEF x
      <4> QED BY <4>1, <4>4, OverWithin
    <3> QED BY <3>1, <3>2
  <2> QED BY <2>2, <2>3, SameChain
<1> QED BY <1>1, <1>2, <1>3 DEF CorsAlike

LEMMA SecuritySame ==
    ASSUME NEW g, NEW h, NEW ns, Same(g, h, ns), NEW security
    PROVE  Same(WithSecurity(g, security), WithSecurity(h, security), ns)
BY SameOver DEF WithSecurity

LEMMA ValidatorsSame ==
    ASSUME NEW h, NEW entry, NEW ns, NEW tag \in ns, NEW date \in ns
    PROVE  Same(WithValidators(h, entry, tag, date), h, ns)
<1> DEFINE tagged == Insert(h, tag, entry.etag)
<1>1. ASSUME NEW g, NEW n \in ns, NEW v PROVE Same(Insert(g, n, v), g, ns)
  BY OverWithin DEF Insert, Single
<1>2. Same(tagged, h, ns)
  BY <1>1
<1>3. \A v : Same(Insert(tagged, date, v), h, ns)
  <2> HIDE DEF tagged
  <2> QED BY <1>1, <1>2 DEF Same
<1> QED BY <1>2, <1>3 DEF WithValidators

\* CORS headers, of an entry or of a fresh answer, leave the others as they are.
LEMMA CorsKeeps ==
    ASSUME IsConfig(config), NEW h, NEW n, n \notin CorsNames,
           NEW g \in {WithEntryCors(h, config.cors),
                      WithCors(h, config.cors, config.default_cors)}
    PROVE  (Has(g, n) <=> Has(h, n)) /\ (Has(h, n) => g[n] = h[n])
<1> DEFINE effective == IF config.cors = {} THEN config.default_cors ELSE config.cors
<1>1. ASSUME NEW x, DOMAIN x \subseteq CorsNames, g = Over(x, h)
      PROVE  (Has(g, n) <=> Has(h, n)) /\ (Has(h, n) => g[n] = h[n])
  BY <1>1 DEF Over, Has
<1>2. CASE g = h
  BY <1>2
<1>3. CASE g = WithEntryCors(h, config.cors) /\ g # h
  BY <1>1, <1>3 DEF WithEntryCors
<1>4. CASE g = WithCors(h, config.cors, config.default_cors) /\ g # h
  <2> DEFINE x == [m \in DOMAIN Given(effective).given |-> <<Given(effective).given[m]>>]
  <2>1. g = Over(x, h) /\ effective # {}
    BY <1>4 DEF WithCors
  <2>2. Given(effective) \in config.cors \union config.default_cors
    BY <2>1 DEF Given
  <2>3. DOMAIN x \subseteq CorsNames
    BY <2>2 DEF IsConfig
  <2> HIDE DEF x
  <2> QED BY <1>1, <2>1, <2>3
<1> QED BY <1>2, <1>3, <1>4

\* What two header maps agree on they agree on with the security headers too.
LEMMA SecurityAgrees ==
    ASSUME NEW g, NEW h, NEW n, Has(g, n) <=> Has(h, n), Has(g, n) => Get(g, n) = Get(h, n),
           NEW security
    PROVE  AgreeOn(WithSecurity(g, security), WithSecurity(h, security), {n})
<1>1. ASSUME NEW x PROVE AgreeOn(Over(x, g), Over(x, h), {n})
  <2>1. CASE n \in DOMAIN x
    BY <2>1 DEF AgreeOn, Over, Has, Get
  <2>2. CASE n \notin DOMAIN x
    <3>1. \A f : Has(Over(x, f), n) <=> Has(f, n)
      BY <2>2 DEF Over, Has
    <3>2. \A f : Has(f, n) => Over(x, f)[n] = f[n]
      BY <2>2 DEF Over, Has
    <3> QED BY <3>1, <3>2 DEF AgreeOn, Get
  <2> QED BY <2>1, <2>2
<1>2. AgreeOn(g, h, {n})
  BY DEF AgreeOn
<1> QED BY <1>1, <1>2 DEF WithSecurity

\* The Last-Modified of an entry is the first of the response it was made of.
LEMMA DateAgrees ==
    ASSUME IsConfig(config), NEW h, NEW entry,
           entry.last_modified = IF Has(h, "last-modified") THEN {Get(h, "last-modified")} ELSE {}
    PROVE  AgreeOn(WithSecurity(WithValidators(WithEntryCors(h, config.cors), entry,
                                               "etag", "last-modified"), config.security),
                   WithSecurity(WithCors(h, config.cors, config.default_cors), config.security),
                   {"last-modified"})
<1> DEFINE n     == "last-modified"
           g     == WithEntryCors(h, config.cors)
           dated == WithValidators(g, entry, "etag", n)
           fresh == WithCors(h, config.cors, config.default_cors)
<1>1. n \notin CorsNames
  BY DEF CorsNames
<1>2. (Has(fresh, n) <=> Has(h, n)) /\ (Has(h, n) => fresh[n] = h[n])
  BY <1>1, CorsKeeps
<1>3. Has(g, n) <=> Has(h, n)
  BY <1>1, CorsKeeps
<1> HIDE DEF g, fresh
<1>4. ASSUME Has(h, n)
      PROVE  AgreeOn(WithSecurity(dated, config.security), WithSecurity(fresh, config.security), {n})
  <2>1. entry.last_modified # {} /\ Given(entry.last_modified) = Get(h, n)
    BY <1>4 DEF Given
  <2>2. dated = Insert(Insert(g, "etag", entry.etag), n, Get(h, n))
    BY <2>1 DEF WithValidators
  <2>3. Has(dated, n) /\ dated[n] = <<Get(h, n)>>
    <3> DEFINE x == Insert(g, "etag", entry.etag)
               v == Get(h, n)
    <3>1. dated = Over(Single(n, v), x)
      BY <2>2 DEF Insert
    <3>2. n \in DOMAIN Single(n, v) /\ Single(n, v)[n] = <<v>>
      BY DEF Single
    <3> HIDE DEF x, v, dated
    <3> QED BY <3>1, <3>2 DEF Over, Has, v
  <2>4. Has(fresh, n) /\ Get(fresh, n) = Get(dated, n)
    BY <1>2, <1>4, <2>3 DEF Get
  <2>5. (Has(dated, n) <=> Has(fresh, n)) /\ (Has(dated, n) => Get(dated, n) = Get(fresh, n))
    BY <2>3, <2>4
  <2> HIDE DEF dated
  <2> HIDE DEF fresh
  <2> QED BY <2>5, SecurityAgrees
<1>5. ASSUME ~ Has(h, n)
      PROVE  AgreeOn(WithSecurity(dated, config.security), WithSecurity(fresh, config.security), {n})
  <2>1. dated = Insert(g, "etag", entry.etag)
    BY <1>5 DEF WithValidators
  <2>2. ~ Has(dated, n) /\ ~ Has(fresh, n)
    BY <1>2, <1>3, <1>5, <2>1 DEF Insert, Over, Single, Has
  <2> HIDE DEF dated
  <2> QED BY <2>2, SecurityAgrees
<1>6. AgreeOn(WithSecurity(dated, config.security), WithSecurity(fresh, config.security), {n})
  <2> HIDE DEF dated
  <2> QED BY <1>4, <1>5
<1> QED BY <1>6 DEF g, fresh

\* An entry that is made of a response answers like the response did.
LEMMA HitSame ==
    ASSUME IsConfig(config), NEW r, DOMAIN r = {"status", "body", "headers"},
           r = [x \in DOMAIN r |-> r[x]]
    PROVE  LikeFresh(Hit(Stored(EntryOf(r.status, r.headers, r.body), Given(config.cache).serialize),
                         config.cors, config.security),
                     [r EXCEPT !.headers =
                         WithSecurity(WithCors(@, config.cors, config.default_cors), config.security)])
<1> DEFINE h       == r.headers
           entry   == EntryOf(r.status, h, r.body)
           kept    == Stored(entry, Given(config.cache).serialize)
           answer  == Hit(kept, config.cors, config.security)
           given   == WithSecurity(WithCors(h, config.cors, config.default_cors), config.security)
           fresh   == [r EXCEPT !.headers = given]
<1>1. /\ kept.status = r.status /\ kept.headers = h
      /\ kept.body = IF Given(config.cache).serialize THEN <<"json">> \o r.body ELSE r.body
  BY DEF EntryOf, Stored
<1>2. fresh.status = r.status /\ fresh.body = r.body /\ fresh.headers = given
  OBVIOUS
<1> DEFINE cors  == WithEntryCors(h, config.cors)
           dated == WithValidators(cors, kept, "etag", "last-modified")
<1>3. /\ answer.status = kept.status /\ answer.body = kept.body
      /\ answer.headers = WithSecurity(dated, config.security)
  BY <1>1 DEF Hit
<1>4. Same(dated, cors, Varying)
  <2>1. "etag" \in Varying /\ "last-modified" \in Varying
    BY DEF Varying
  <2> HIDE DEF cors, kept
  <2> QED BY <2>1, ValidatorsSame
<1>5. Same(dated, WithCors(h, config.cors, config.default_cors), Varying)
  <2>1. Same(cors, WithCors(h, config.cors, config.default_cors), Varying)
    BY CorsSame
  <2> HIDE DEF cors, dated
  <2> QED BY <1>4, <2>1 DEF Same
<1>6. Same(answer.headers, given, Varying)
  BY <1>3, <1>5, SecuritySame
<1>7. Without(answer.headers, Varying) = Without(given, Varying)
  BY <1>6, SameWithout
<1>9. AgreeOn(answer.headers, given, {"last-modified"})
  <2>1. kept.last_modified = IF Has(h, "last-modified") THEN {Get(h, "last-modified")} ELSE {}
    BY DEF EntryOf, Stored
  <2> HIDE DEF kept
  <2> QED BY <1>3, <2>1, DateAgrees
<1> HIDE DEF answer, kept, given
<1>10. LikeFresh(answer, fresh)
  BY <1>1, <1>2, <1>3, <1>7, <1>9 DEF LikeFresh
<1> QED BY <1>10 DEF answer, kept, given

\* What a response is called to vary on, once it has been transformed.
VaryIs(h, vary) == IF vary = <<>> THEN ~ Has(h, "vary") ELSE Has(h, "vary") /\ h["vary"] = <<vary>>

LEMMA RepresentationVary ==
    ASSUME IsConfig(config), KeepsVary, NEW s
    PROVE  VaryIs(ApplyHeaderTransforms(Representation(s).headers, config.response_transforms),
                  config.server.vary)
<1> DEFINE ts == config.response_transforms
           h  == Representation(s).headers
<1>1. Len(ts) \in Nat /\ DOMAIN ts = 1..Len(ts)
  BY DEF IsConfig, IsSeq
<1>2. \A i \in 1..Len(ts) : ts[i].name # "vary"
  BY <1>1 DEF KeepsVary
<1>3. VaryIs(h, config.server.vary)
  <2> DEFINE tag  == IF config.server.etags THEN Single("etag", Tag(s.headers)) ELSE NoHeaders
             vary == IF config.server.vary # <<>> THEN Single("vary", config.server.vary) ELSE NoHeaders
             last == [n \in {"last-modified"} |-> << <<Versions[version]>> >> \o config.server.dates]
  <2>1. h = Over(config.server.headers, Over(tag, Over(vary, last)))
    BY DEF Representation
  <2>2. "vary" \notin DOMAIN config.server.headers
    BY DEF KeepsVary
  <2>3. "vary" \notin DOMAIN tag /\ "vary" \notin DOMAIN last
    BY DEF Single, NoHeaders
  <2>4. IF config.server.vary # <<>> THEN "vary" \in DOMAIN vary /\ vary["vary"] = <<config.server.vary>>
        ELSE "vary" \notin DOMAIN vary
    BY DEF Single, NoHeaders
  <2> HIDE DEF tag, vary, last, h
  <2> QED BY <2>1, <2>2, <2>3, <2>4 DEF VaryIs, Over, Has
<1> HIDE DEF ts, h
<1>4. /\ Has(ApplyHeaderTransforms(h, ts), "vary") <=> Has(h, "vary")
      /\ Has(h, "vary") => ApplyHeaderTransforms(h, ts)["vary"] = h["vary"]
  BY <1>1, <1>2, TransformsKeep
<1> QED BY <1>3, <1>4 DEF VaryIs, ts, h

LEMMA EntryVary ==
    ASSUME NEW status, NEW h, NEW body, NEW vary, VaryIs(h, vary), NEW serialize
    PROVE  /\ EntryOf(status, h, body).vary = vary
           /\ Stored(EntryOf(status, h, body), serialize).vary = vary
<1>1. EntryOf(status, h, body).vary = vary
  BY DEF EntryOf, VaryIs, Get, Has
<1>2. Stored(EntryOf(status, h, body), serialize).vary = EntryOf(status, h, body).vary
  BY DEF Stored, EntryOf
<1> QED BY <1>1, <1>2

\* Requests that differ in the URL they go to differ in the host they name.
LEMMA RebuiltSame ==
    ASSUME IsConfig(config), NEW t, NEW u, NEW v
    PROVE  Without(Rebuilt(t, u).headers, {"host"}) = Without(Rebuilt(t, v).headers, {"host"})
<1> DEFINE h  == request[t].headers
           ip == request[t].ip
           ts == config.request_transforms
<1>1. Len(ts) \in Nat
  BY DEF IsConfig, IsSeq
<1>2. Same(RebuiltHeaders(h, ip, u), RebuiltHeaders(h, ip, v), {"host"})
  <2> DEFINE inserted  == [n \in DOMAIN h |-> <<Last(h[n])>>]
             proxied   == Insert(inserted, "x-proxy", <<"road7">>)
             forwarded == IF Has(h, "x-forwarded-for")
                          THEN Get(h, "x-forwarded-for") \o <<",", ip>> ELSE <<ip>>
  <2>1. \A w : RebuiltHeaders(h, ip, w) =
                  Insert(Insert(proxied, "host", <<w>>), "x-forwarded-for", forwarded)
    BY DEF RebuiltHeaders
  <2> HIDE DEF proxied, forwarded
  <2>2. \A w : Same(Insert(proxied, "host", <<w>>), proxied, {"host"})
    BY OverWithin DEF Insert, Single
  <2>3. Same(Insert(proxied, "host", <<u>>), Insert(proxied, "host", <<v>>), {"host"})
    BY <2>2, SameChain
  <2> QED BY <2>1, <2>3, SameOver DEF Insert
<1>3. Same(Rebuilt(t, u).headers, Rebuilt(t, v).headers, {"host"})
  <2>1. \A w : Rebuilt(t, w).headers = ApplyHeaderTransforms(RebuiltHeaders(h, ip, w), ts)
    BY DEF Rebuilt
  <2> HIDE DEF h, ip, ts
  <2> QED BY <1>1, <1>2, <2>1, TransformsSame
<1> QED BY <1>3, SameWithout

-----------------------------------------------------------------------------
(* Steps. *)

\* What every state looks like.
Shape ==
    /\ config \in Configs
    /\ DOMAIN at = Tasks /\ DOMAIN request = Tasks /\ DOMAIN sent = Tasks /\ DOMAIN reply = Tasks

LEMMA ShapeStep == Shape /\ [Next]_vars => Shape' /\ config' = config
<1> SUFFICES ASSUME Shape, [Next]_vars PROVE Shape' /\ config' = config
  OBVIOUS
<1> USE DEF Shape
<1>1. ASSUME NEW t \in Tasks, NEW a \in Arrivals, Receive(t, a) PROVE Shape' /\ config' = config
  BY <1>1 DEF Receive, Moves
<1>2. ASSUME NEW t \in Tasks, Lookup(t) PROVE Shape' /\ config' = config
  BY <1>2 DEF Lookup, AnswerFrom
<1>3. ASSUME NEW t \in Tasks, Condition(t) PROVE Shape' /\ config' = config
  BY <1>3 DEF Condition, Moves
<1>4. ASSUME NEW t \in Tasks, Send(t) PROVE Shape' /\ config' = config
  BY <1>4 DEF Send, Moves
<1>5. ASSUME NEW t \in Tasks, Fail(t) PROVE Shape' /\ config' = config
  BY <1>5 DEF Fail, Moves
<1>6. ASSUME NEW t \in Tasks, GiveUp(t) PROVE Shape' /\ config' = config
  BY <1>6 DEF GiveUp, Leave, Moves
<1>7. ASSUME NEW t \in Tasks, Respond(t) PROVE Shape' /\ config' = config
  BY <1>7 DEF Respond, Moves
<1>8. ASSUME NEW t \in Tasks, NotModified(t) PROVE Shape' /\ config' = config
  BY <1>8 DEF NotModified, Moves
<1>9. ASSUME NEW t \in Tasks, Revalidate(t) PROVE Shape' /\ config' = config
  BY <1>9 DEF Revalidate, AnswerFrom
<1>10. ASSUME NEW t \in Tasks, Store(t) PROVE Shape' /\ config' = config
  BY <1>10 DEF Store, Moves
<1>11. ASSUME NEW t \in Tasks, Finish(t) PROVE Shape' /\ config' = config
  BY <1>11 DEF Finish, Leave, Moves
<1>12. CASE \/ \E k \in DOMAIN entries : Judge(k)
            \/ \E k \in judged : RemoveJudged(k)
            \/ Publish \/ Tick \/ UNCHANGED vars
  BY <1>12 DEF Judge, RemoveJudged, Publish, Tick, vars, tasks
<1> QED BY <1>1, <1>2, <1>3, <1>4, <1>5, <1>6, <1>7, <1>8, <1>9, <1>10, <1>11, <1>12 DEF Next

\* What a task holds.
Quiet(t) == /\ at'[t] = at[t] /\ request'[t] = request[t] /\ sent'[t] = sent[t]
            /\ reply'[t] = reply[t]

\* A task changes by its own steps only.
LEMMA TaskStep ==
    ASSUME Shape, [Next]_vars, NEW t \in Tasks
    PROVE  \/ Quiet(t)
           \/ \E a \in Arrivals : Receive(t, a)
           \/ Lookup(t) \/ Condition(t) \/ Send(t) \/ Fail(t) \/ GiveUp(t)
           \/ Respond(t) \/ NotModified(t) \/ Revalidate(t) \/ Store(t) \/ Finish(t)
<1> USE DEF Shape, Quiet
<1>1. ASSUME NEW u \in Tasks, u # t, NEW a \in Arrivals, Receive(u, a) PROVE Quiet(t)
  BY <1>1 DEF Receive, Moves
<1>2. ASSUME NEW u \in Tasks, u # t, Lookup(u) PROVE Quiet(t)
  BY <1>2 DEF Lookup, AnswerFrom
<1>3. ASSUME NEW u \in Tasks, u # t, Condition(u) PROVE Quiet(t)
  BY <1>3 DEF Condition, Moves
<1>4. ASSUME NEW u \in Tasks, u # t, Send(u) PROVE Quiet(t)
  BY <1>4 DEF Send, Moves
<1>5. ASSUME NEW u \in Tasks, u # t, Fail(u) PROVE Quiet(t)
  BY <1>5 DEF Fail, Moves
<1>6. ASSUME NEW u \in Tasks, u # t, GiveUp(u) PROVE Quiet(t)
  BY <1>6 DEF GiveUp, Leave, Moves
<1>7. ASSUME NEW u \in Tasks, u # t, Respond(u) PROVE Quiet(t)
  BY <1>7 DEF Respond, Moves
<1>8. ASSUME NEW u \in Tasks, u # t, NotModified(u) PROVE Quiet(t)
  BY <1>8 DEF NotModified, Moves
<1>9. ASSUME NEW u \in Tasks, u # t, Revalidate(u) PROVE Quiet(t)
  BY <1>9 DEF Revalidate, AnswerFrom
<1>10. ASSUME NEW u \in Tasks, u # t, Store(u) PROVE Quiet(t)
  BY <1>10 DEF Store, Moves
<1>11. ASSUME NEW u \in Tasks, u # t, Finish(u) PROVE Quiet(t)
  BY <1>11 DEF Finish, Leave, Moves
<1>12. CASE \/ \E k \in DOMAIN entries : Judge(k)
            \/ \E k \in judged : RemoveJudged(k)
            \/ Publish \/ Tick \/ UNCHANGED vars
  BY <1>12 DEF Judge, RemoveJudged, Publish, Tick, vars, tasks
<1> HIDE DEF Quiet
<1> QED BY <1>1, <1>2, <1>3, <1>4, <1>5, <1>6, <1>7, <1>8, <1>9, <1>10, <1>11, <1>12 DEF Next

\* What is put by Store(t), and where, when the body is what was read.
Bodied(t, body) == [reply[t].answer EXCEPT !.body = body]

KeyOf(t, body) == LET r == Bodied(t, body)
                  IN  CreateCacheKey(sent[t].url, request[t].uri, request[t].headers,
                                     EntryOf(r.status, r.headers, r.body).vary)

PutOf(t, body) ==
    LET r == Bodied(t, body)
    IN  [entry  |-> Stored(EntryOf(r.status, r.headers, r.body), Given(config.cache).serialize),
         left   |-> TTL,
         origin |-> Origin(t),
         fresh  |-> [r EXCEPT !.headers = WithSecurity(
                        WithCors(@, config.cors, config.default_cors), config.security)]]

LEMMA StoreSays ==
    ASSUME NEW t, Store(t)
    PROVE  \E body :
             /\ entries' = [k \in DOMAIN entries \union {KeyOf(t, body)} |->
                               IF k = KeyOf(t, body) THEN PutOf(t, body) ELSE entries[k]]
             /\ reply' = [reply EXCEPT ![t].answer = PutOf(t, body).fresh]
<1> DEFINE Written(body) ==
      LET r     == [reply[t].answer EXCEPT !.body = body]
          entry == EntryOf(r.status, r.headers, r.body)
          key   == CreateCacheKey(sent[t].url, request[t].uri, request[t].headers, entry.vary)
          fresh == [r EXCEPT !.headers = WithSecurity(
                        WithCors(@, config.cors, config.default_cors), config.security)]
          put   == [entry |-> Stored(entry, Given(config.cache).serialize), left |-> TTL,
                    origin |-> Origin(t), fresh |-> fresh]
      IN  /\ entries' = [k \in DOMAIN entries \union {key} |-> IF k = key THEN put ELSE entries[k]]
          /\ reply' = [reply EXCEPT ![t].answer = fresh]
<1>1. PICK body : Written(body)
  BY DEF Store
<1>4. /\ entries' = [k \in DOMAIN entries \union {KeyOf(t, body)} |->
                         IF k = KeyOf(t, body) THEN PutOf(t, body) ELSE entries[k]]
      /\ reply' = [reply EXCEPT ![t].answer = PutOf(t, body).fresh]
  BY <1>1 DEF KeyOf, PutOf, Bodied
<1> QED BY <1>4

\* Nothing else puts an entry, and what ages does not change otherwise.
EntryFields == {"entry", "left", "origin", "fresh"}

EntryLike(e, d) ==
    /\ e.entry = d.entry /\ e.origin = d.origin /\ e.fresh = d.fresh
    /\ DOMAIN e = DOMAIN d

LEMMA EntriesStep ==
    ASSUME [Next]_vars, NEW k \in DOMAIN entries',
           \A j \in DOMAIN entries : DOMAIN entries[j] = EntryFields
    PROVE  \/ k \in DOMAIN entries /\ EntryLike(entries'[k], entries[k])
           \/ \E t \in Tasks : Store(t) /\ \E body : k = KeyOf(t, body) /\ entries'[k] = PutOf(t, body)
<1>1. CASE entries' = entries
  BY <1>1 DEF EntryLike
<1>2. ASSUME NEW t \in Tasks, Store(t)
      PROVE  \/ k \in DOMAIN entries /\ entries'[k] = entries[k]
             \/ \E body : k = KeyOf(t, body) /\ entries'[k] = PutOf(t, body)
  <2>1. PICK body :
           entries' = [j \in DOMAIN entries \union {KeyOf(t, body)} |->
                          IF j = KeyOf(t, body) THEN PutOf(t, body) ELSE entries[j]]
    BY <1>2, StoreSays
  <2>2. CASE k = KeyOf(t, body)
    <3>1. entries'[k] = PutOf(t, body)
      BY ONLY <2>1, <2>2, k \in DOMAIN entries'
    <3> QED BY <2>2, <3>1
  <2>3. CASE k # KeyOf(t, body)
    <3>1. k \in DOMAIN entries /\ entries'[k] = entries[k]
      BY ONLY <2>1, <2>3, k \in DOMAIN entries'
    <3> QED BY <3>1
  <2> QED BY <2>2, <2>3
<1>4. CASE Tick
  BY <1>4 DEF Tick, EntryLike, EntryFields
<1>5. CASE \E j \in judged : RemoveJudged(j)
  BY <1>5 DEF RemoveJudged, Without, Restrict, EntryLike
<1>6. ASSUME NEW t \in Tasks,
             \/ \E a \in Arrivals : Receive(t, a)
             \/ Lookup(t) \/ Condition(t) \/ Send(t) \/ Fail(t) \/ GiveUp(t)
             \/ Respond(t) \/ NotModified(t) \/ Revalidate(t) \/ Finish(t)
      PROVE  entries' = entries
  BY <1>6 DEF Receive, Lookup, Condition, Send, Fail, GiveUp, Respond, NotModified, Revalidate,
              Finish, cache
<1>7. CASE (\E j \in DOMAIN entries : Judge(j)) \/ Publish \/ UNCHANGED vars
  BY <1>1, <1>7 DEF Judge, Publish, vars, cache
<1>8. CASE \E t \in Tasks : Store(t)
  <2>1. PICK t \in Tasks : Store(t)
    BY <1>8
  <2> QED BY <1>2, <2>1 DEF EntryLike
<1> QED BY <1>1, <1>4, <1>5, <1>6, <1>7, <1>8 DEF Next

-----------------------------------------------------------------------------
(* The invariant. *)

\* What is kept under a key came from the URL and the URI the key tells, in answer
\* to a request that had none of the headers it depends on, if the key tells none
\* (as long as the Vary of the servers reaches the cache), and answers like the
\* response it was.
EntryRight(k, e) ==
    /\ DOMAIN e = EntryFields
    /\ k[1] = e.origin.url /\ k[2] = e.origin.uri
    /\ KeepsVary =>
         /\ e.entry.vary = config.server.vary
         /\ k[3] = <<>> => \A n \in Range(config.server.vary) : ~ Has(e.origin.headers, n)
    /\ LikeFresh(Hit(e.entry, config.cors, config.security), e.fresh)

EntriesRight == \A k \in DOMAIN entries : EntryRight(k, entries[k])

\* A response on its way to the cache is one of the target's, with the Vary of the
\* servers if that reaches the cache.
Storing(t) ==
    LET r == reply[t].answer
    IN  /\ reply[t] = [by |-> "target", answer |-> r]
        /\ r = [status |-> r.status, body |-> r.body, headers |-> r.headers]
        /\ KeepsVary => VaryIs(r.headers, config.server.vary)

FromCache(t) == reply[t].by \in {"hit", "revalidated"}

Matching(t) ==
    /\ reply[t].origin.url = Urls[1]
    /\ reply[t].origin.uri = request[t].uri
    /\ reply[t].by = "hit" /\ KeepsVary =>
           AgreeOn(reply[t].origin.headers, request[t].headers, Range(config.server.vary))

TaskRight(t) ==
    /\ FromCache(t) => at[t] = "answered"
    /\ at[t] = "store" => Storing(t)
    /\ FromCache(t) => Matching(t) /\ LikeFresh(reply[t].answer, reply[t].fresh)

TasksRight == \A t \in Tasks : TaskRight(t)

LEMMA ConfigFacts ==
    ASSUME Shape
    PROVE  /\ IsConfig(config)
           /\ Len(config.server.vary) \in Nat
           /\ DOMAIN config.server.vary = 1..Len(config.server.vary)
BY ExchangeAssumption DEF Shape, IsConfig, IsSeq

\* The configuration stays as it is.
LEMMA ConfigStays ==
    ASSUME config' = config
    PROVE  (KeepsVary' <=> KeepsVary) /\ Varying' = Varying
<1>1. CorsAlike' <=> CorsAlike
  BY DEF CorsAlike
<1> QED BY <1>1 DEF KeepsVary, Varying

\* What Store puts is right.
LEMMA StorePuts ==
    ASSUME Shape, NEW t \in Tasks, Storing(t), NEW body
    PROVE  EntryRight(KeyOf(t, body), PutOf(t, body))
<1> DEFINE r         == Bodied(t, body)
           h         == request[t].headers
           vary      == config.server.vary
           entry     == EntryOf(r.status, r.headers, r.body)
           serialize == Given(config.cache).serialize
           fresh     == [r EXCEPT !.headers =
                            WithSecurity(WithCors(@, config.cors, config.default_cors), config.security)]
           origin    == Origin(t)
           key       == CreateCacheKey(sent[t].url, request[t].uri, h, entry.vary)
<1>1. KeyOf(t, body) = key
  BY DEF KeyOf
<1>2. PutOf(t, body) = [entry |-> Stored(entry, serialize), left |-> TTL, origin |-> origin, fresh |-> fresh]
  BY DEF PutOf
<1>3. r = [status |-> r.status, body |-> r.body, headers |-> r.headers]
      /\ (KeepsVary => VaryIs(r.headers, vary))
  BY DEF Storing, Bodied
<1>4. origin.url = sent[t].url /\ origin.uri = request[t].uri
      /\ origin.headers = Without(h, {"if-none-match", "if-modified-since"})
  BY DEF Origin
<1>5. key[1] = origin.url /\ key[2] = origin.uri
  BY <1>4, KeyParts
<1>6. IsConfig(config) /\ Len(vary) \in Nat /\ DOMAIN vary = 1..Len(vary)
  BY ConfigFacts
<1>7. ASSUME KeepsVary
      PROVE  /\ Stored(entry, serialize).vary = vary
             /\ key[3] = <<>> => \A n \in Range(vary) : ~ Has(origin.headers, n)
  <2>1. entry.vary = vary /\ Stored(entry, serialize).vary = vary
    BY <1>3, <1>7, EntryVary
  <2>2. key = CreateCacheKey(sent[t].url, request[t].uri, h, vary)
    BY <2>1
  <2>3. key[3] = <<>> => \A i \in 1..Len(vary) : ~ Has(h, vary[i])
    BY <1>6, <2>2, KeyOfNothing
  <2>4. \A n : ~ Has(h, n) => ~ Has(origin.headers, n)
    BY <1>4 DEF Has, Without, Restrict
  <2> HIDE DEF key, h, origin, vary, entry
  <2> QED BY <1>6, <2>1, <2>3, <2>4 DEF Range
<1>8. LikeFresh(Hit(Stored(entry, serialize), config.cors, config.security), fresh)
  <2>1. DOMAIN r = {"status", "body", "headers"}
    BY <1>3
  <2>2. r = [x \in DOMAIN r |-> r[x]]
    BY <1>3
  <2> HIDE DEF r
  <2> QED BY <1>6, <2>1, <2>2, HitSame
<1> HIDE DEF r, h, vary, entry, serialize, fresh, origin, key
<1>9. /\ PutOf(t, body).entry = Stored(entry, serialize) /\ PutOf(t, body).origin = origin
      /\ PutOf(t, body).fresh = fresh /\ DOMAIN PutOf(t, body) = EntryFields
  BY <1>2 DEF EntryFields
<1> QED BY <1>1, <1>5, <1>7, <1>8, <1>9 DEF EntryRight, vary

LEMMA EntriesStayRight ==
    ASSUME Shape, EntriesRight, TasksRight, [Next]_vars
    PROVE  EntriesRight'
<1>1. config' = config
  BY ShapeStep
<1>2. (KeepsVary' <=> KeepsVary) /\ Varying' = Varying
  BY <1>1, ConfigStays
<1>3. ASSUME NEW k \in DOMAIN entries' PROVE EntryRight(k, entries'[k])
  <2>1. \A j \in DOMAIN entries : DOMAIN entries[j] = EntryFields
    BY DEF EntriesRight, EntryRight
  <2>2. CASE k \in DOMAIN entries /\ EntryLike(entries'[k], entries[k])
    BY <2>1, <2>2 DEF EntriesRight, EntryRight, EntryLike
  <2>3. ASSUME NEW t \in Tasks, Store(t), NEW body,
               k = KeyOf(t, body), entries'[k] = PutOf(t, body)
        PROVE  EntryRight(k, entries'[k])
    <3>1. Storing(t)
      BY <2>3 DEF TasksRight, TaskRight, Store, Moves
    <3> QED BY <2>3, <3>1, StorePuts
  <2> QED BY <2>1, <2>2, <2>3, EntriesStep
<1> QED BY <1>1, <1>2, <1>3 DEF EntriesRight, EntryRight, LikeFresh, AgreeOn

\* The answer from an entry of the lookup key is right.
LEMMA AnswerRight ==
    ASSUME Shape, EntriesRight, NEW t \in Tasks, LookupKey(t) \in DOMAIN entries,
           NEW how, AnswerFrom(t, entries[LookupKey(t)], how),
           UNCHANGED <<config, request>>,
           how = "hit" => VaryKey(t, entries[LookupKey(t)].entry) = LookupKey(t)
    PROVE  (Matching(t) /\ LikeFresh(reply[t].answer, reply[t].fresh))'
<1> DEFINE k    == LookupKey(t)
           e    == entries[k]
           h    == request[t].headers
           vary == config.server.vary
<1>1. EntryRight(k, e)
  BY DEF EntriesRight
<1>2. k = CreateCacheKey(Urls[1], request[t].uri, h, <<>>)
  BY DEF LookupKey
<1>3. k[1] = Urls[1] /\ k[2] = request[t].uri
  BY <1>2, KeyParts
<1>4. k[3] = <<>>
  <2>1. Len(<<>>) \in Nat
    OBVIOUS
  <2> QED BY <1>2, <2>1, KeyOfNothing
<1>5. /\ reply'[t].by = how /\ reply'[t].origin = e.origin /\ reply'[t].fresh = e.fresh
      /\ reply'[t].answer = Hit(e.entry, config.cors, config.security)
  BY DEF AnswerFrom, Shape
<1>6. ASSUME how = "hit", KeepsVary PROVE AgreeOn(e.origin.headers, h, Range(vary))
  <2>1. e.entry.vary = vary /\ \A n \in Range(vary) : ~ Has(e.origin.headers, n)
    BY <1>1, <1>4, <1>6 DEF EntryRight
  <2>2. CreateCacheKey(Urls[1], request[t].uri, h, vary) = k
    BY <1>6, <2>1 DEF VaryKey
  <2>3. Len(vary) \in Nat /\ DOMAIN vary = 1..Len(vary)
    BY ConfigFacts
  <2>4. \A i \in 1..Len(vary) : ~ Has(h, vary[i])
    BY <1>4, <2>2, <2>3, KeyOfNothing
  <2> HIDE DEF k, e, h, vary
  <2>5. \A n \in Range(vary) : ~ Has(h, n)
    BY <2>3, <2>4 DEF Range
  <2> QED BY <2>1, <2>5 DEF AgreeOn
<1>7. (KeepsVary' <=> KeepsVary) /\ Varying' = Varying
  BY ConfigStays
<1>8. Matching(t)'
  BY <1>1, <1>3, <1>5, <1>6, <1>7 DEF Matching, EntryRight
<1>9. LikeFresh(reply[t].answer, reply[t].fresh)'
  BY <1>1, <1>5, <1>7 DEF LikeFresh, EntryRight
<1> QED BY <1>8, <1>9

LEMMA TasksStayRight ==
    ASSUME Shape, EntriesRight, TasksRight, [Next]_vars
    PROVE  TasksRight'
<1> SUFFICES ASSUME NEW t \in Tasks PROVE TaskRight(t)'
  BY DEF TasksRight
<1>1. Shape' /\ config' = config /\ TaskRight(t)
  BY ShapeStep DEF TasksRight
<1>2. (KeepsVary' <=> KeepsVary) /\ Varying' = Varying
  BY <1>1, ConfigStays
<1> USE DEF Shape
<1>3. ASSUME reply'[t] = reply[t], ~ FromCache(t), at'[t] # "store" PROVE TaskRight(t)'
  BY <1>3 DEF TaskRight, FromCache
<1>4. CASE Quiet(t)
  BY <1>1, <1>2, <1>4
     DEF Quiet, TaskRight, FromCache, Storing, Matching, LikeFresh
<1>5. CASE \E a \in Arrivals : Receive(t, a)
  BY <1>1, <1>3, <1>5 DEF Receive, Moves, TaskRight
<1>6. CASE Lookup(t)
  <2>1. CASE Cached /\ \E e \in Entry(LookupKey(t)) : VaryKey(t, e.entry) = LookupKey(t)
    <3>1. /\ LookupKey(t) \in DOMAIN entries
          /\ VaryKey(t, entries[LookupKey(t)].entry) = LookupKey(t)
      BY <2>1 DEF Entry
    <3>2. /\ at'[t] = "answered" /\ AnswerFrom(t, entries[LookupKey(t)], "hit")
          /\ UNCHANGED <<config, request>>
      BY <1>6, <2>1 DEF Lookup
    <3>3. (Matching(t) /\ LikeFresh(reply[t].answer, reply[t].fresh))'
      BY <3>1, <3>2, AnswerRight
    <3> QED BY <3>2, <3>3 DEF TaskRight
  <2>2. CASE ~ (Cached /\ \E e \in Entry(LookupKey(t)) : VaryKey(t, e.entry) = LookupKey(t))
    BY <1>1, <1>3, <1>6, <2>2 DEF Lookup, TaskRight
  <2> QED BY <2>1, <2>2
<1>7. CASE Condition(t) \/ Send(t) \/ Fail(t) \/ NotModified(t)
  BY <1>1, <1>3, <1>7 DEF Condition, Send, Fail, NotModified, Moves, TaskRight
<1>8. CASE GiveUp(t) \/ Finish(t)
  BY <1>1, <1>8 DEF GiveUp, Finish, Leave, Moves, NoReply, TaskRight, FromCache
<1>9. CASE Respond(t)
  <2> DEFINE r      == Representation(sent[t])
             h      == ApplyHeaderTransforms(r.headers, config.response_transforms)
             kept   == IF Cached THEN h
                       ELSE WithSecurity(WithCors(h, config.cors, config.default_cors), config.security)
             answer == [r EXCEPT !.headers = kept]
  <2>1. reply'[t] = [by |-> "target", answer |-> answer] /\ (at'[t] = "store" => Cached)
    BY <1>9 DEF Respond, Moves
  <2>2. ~ FromCache(t)'
    BY <2>1 DEF FromCache
  <2>3. ASSUME Cached PROVE Storing(t)'
    <3>1. answer = [status |-> r.status, body |-> r.body, headers |-> h]
      <4>1. r = [status |-> r.status, body |-> r.body, headers |-> r.headers]
        BY DEF Representation
      <4> HIDE DEF r, h
      <4> QED BY <2>3, <4>1
    <3>2. KeepsVary => VaryIs(h, config.server.vary)
      BY ConfigFacts, RepresentationVary
    <3> HIDE DEF r, h, answer
    <3> QED BY <1>1, <1>2, <2>1, <3>1, <3>2 DEF Storing
  <2> HIDE DEF r, h, kept, answer
  <2> QED BY <2>1, <2>2, <2>3 DEF TaskRight
<1>10. CASE Revalidate(t)
  <2>1. CASE Entry(LookupKey(t)) = {}
    BY <1>1, <1>3, <1>10, <2>1 DEF Revalidate, TaskRight
  <2>2. CASE Entry(LookupKey(t)) # {}
    <3>1. LookupKey(t) \in DOMAIN entries
      BY <2>2 DEF Entry
    <3>2. /\ at'[t] = "answered" /\ AnswerFrom(t, entries[LookupKey(t)], "revalidated")
          /\ UNCHANGED <<config, request>>
      BY <1>10, <2>2 DEF Revalidate
    <3>3. (Matching(t) /\ LikeFresh(reply[t].answer, reply[t].fresh))'
      BY <3>1, <3>2, AnswerRight
    <3> QED BY <3>2, <3>3 DEF TaskRight
  <2> QED BY <2>1, <2>2
<1>11. CASE Store(t)
  <2>1. Storing(t) /\ at'[t] = "answered"
    BY <1>1, <1>11 DEF Store, Moves, TaskRight
  <2>2. PICK body : reply'[t] = [reply[t] EXCEPT !.answer = PutOf(t, body).fresh]
    <3>1. PICK body : reply' = [reply EXCEPT ![t].answer = PutOf(t, body).fresh]
      BY <1>11, StoreSays
    <3>2. reply'[t] = [reply[t] EXCEPT !.answer = PutOf(t, body).fresh]
      BY <3>1
    <3> QED BY <3>2
  <2>3. reply'[t].by = "target"
    BY <2>1, <2>2 DEF Storing
  <2> QED BY <2>1, <2>3 DEF TaskRight, FromCache
<1> QED BY <1>4, <1>5, <1>6, <1>7, <1>8, <1>9, <1>10, <1>11, TaskStep

\* The invariant holds in every state.
THEOREM ExchangeInvariant == Spec => [](Shape /\ EntriesRight /\ TasksRight)
<1>1. Init => Shape /\ EntriesRight /\ TasksRight
  BY DEF Init, Shape, EntriesRight, TasksRight, TaskRight, FromCache, NoReply
<1>2. Shape /\ EntriesRight /\ TasksRight /\ [Next]_vars => (Shape /\ EntriesRight /\ TasksRight)'
  BY ShapeStep, EntriesStayRight, TasksStayRight
<1> QED BY <1>1, <1>2, PTL DEF Spec

\* What the cache answers belongs to the request: it came from the first URL for the
\* same URI and, unless the target was asked, to a request with the same values of
\* the headers it varies on, for any number of requests and any configurations.
THEOREM HitsBelong == Spec => []HitsMatchRequest
<1>1. TasksRight => HitsMatchRequest
  BY DEF TasksRight, TaskRight, FromCache, Matching, HitsMatchRequest
<1> QED BY <1>1, ExchangeInvariant, PTL

\* What the cache answers is what was answered when it was stored.
THEOREM HitsAreFresh == Spec => []HitsLikeFresh
<1>1. TasksRight => HitsLikeFresh
  BY DEF TasksRight, TaskRight, FromCache, LikeFresh, Varying, HitsLikeFresh
<1> QED BY <1>1, ExchangeInvariant, PTL

-----------------------------------------------------------------------------
(* Attempts. *)

\* What a task sent last is what it would send now, to some URL; and its body is
\* gone from the start.
AttemptRight(t) ==
    /\ at[t] \in {"idle", "lookup", "condition"} => sent[t] = Nothing
    /\ at[t] # "idle" => DOMAIN request[t] = {"uri", "headers", "body", "ip"}
                         /\ request[t].body = <<>>
    /\ sent[t] # Nothing => \E url \in Range(Urls) : sent[t] = Rebuilt(t, url)

AttemptsRight == \A t \in Tasks : AttemptRight(t)

LEMMA AttemptsStayRight ==
    ASSUME Shape, AttemptsRight, [Next]_vars
    PROVE  AttemptsRight'
<1> SUFFICES ASSUME NEW t \in Tasks PROVE AttemptRight(t)'
  BY DEF AttemptsRight
<1>1. Shape' /\ config' = config /\ AttemptRight(t)
  BY ShapeStep DEF AttemptsRight
<1> USE DEF Shape
<1>2. ASSUME sent'[t] = sent[t], request'[t] = request[t], at[t] # "idle",
             at'[t] \in {"lookup", "condition"} => at[t] \in {"lookup", "condition"},
             at'[t] # "idle"
      PROVE  AttemptRight(t)'
  BY <1>1, <1>2 DEF AttemptRight, Rebuilt
<1>3. CASE Quiet(t)
  BY <1>1, <1>3 DEF Quiet, AttemptRight, Rebuilt
<1>4. ASSUME NEW a \in Arrivals, Receive(t, a) PROVE AttemptRight(t)'
  <2>1. sent'[t] = Nothing /\ at'[t] = "lookup"
    BY <1>1, <1>4 DEF Receive, Moves, AttemptRight
  <2>2. request'[t] = [a EXCEPT !.body = <<>>]
    BY <1>4 DEF Receive
  <2>3. DOMAIN request'[t] = {"uri", "headers", "body", "ip"} /\ request'[t].body = <<>>
    BY <2>2, ExchangeAssumption
  <2> QED BY <2>1, <2>3 DEF AttemptRight
<1>5. CASE Lookup(t)
  BY <1>2, <1>5 DEF Lookup
<1>6. CASE Condition(t)
  <2>1. at[t] = "condition" /\ at'[t] = "loop" /\ sent'[t] = Nothing
    BY <1>1, <1>6 DEF Condition, Moves, AttemptRight
  <2>2. request'[t] = [request[t] EXCEPT !.headers = request'[t].headers]
    BY <1>1, <1>6, <2>1 DEF Condition, AttemptRight
  <2>3. DOMAIN request'[t] = {"uri", "headers", "body", "ip"} /\ request'[t].body = <<>>
    BY <1>1, <2>1, <2>2 DEF AttemptRight
  <2> QED BY <2>1, <2>3 DEF AttemptRight
<1>7. CASE Send(t)
  <2>1. at[t] = "loop" /\ at'[t] = "upstream"
    BY <1>7 DEF Send, Moves
  <2>2. PICK url \in Range(Urls) : sent' = [sent EXCEPT ![t] = Rebuilt(t, url)]
    BY <1>7 DEF Send
  <2>3. request'[t] = [request[t] EXCEPT !.body = <<>>]
    BY <1>7 DEF Send
  <2>4. /\ DOMAIN request'[t] = {"uri", "headers", "body", "ip"}
        /\ request'[t].body = <<>> /\ request[t].body = <<>>
        /\ request'[t].headers = request[t].headers /\ request'[t].ip = request[t].ip
    BY <1>1, <2>1, <2>3 DEF AttemptRight
  <2>5. sent'[t] = Rebuilt(t, url) /\ Rebuilt(t, url)' = Rebuilt(t, url)
    BY <1>1, <2>2, <2>4 DEF Rebuilt
  <2> QED BY <2>1, <2>4, <2>5 DEF AttemptRight
<1>8. CASE Fail(t) \/ Respond(t) \/ NotModified(t) \/ Store(t)
  BY <1>2, <1>8 DEF Fail, Respond, NotModified, Store, Moves
<1>9. CASE Revalidate(t)
  BY <1>2, <1>9 DEF Revalidate
<1>10. CASE GiveUp(t) \/ Finish(t)
  BY <1>10 DEF GiveUp, Finish, Leave, Moves, AttemptRight
<1> QED BY <1>3, <1>4, <1>5, <1>6, <1>7, <1>8, <1>9, <1>10, TaskStep

\* Whatever happens between two attempts of a request, they say the same: the
\* headers of the second are not made of those of the first, and neither has a
\* body.
THEOREM AttemptsSayTheSame == Spec => AttemptsAlike
<1>1. Init => AttemptsRight
  BY DEF Init, AttemptsRight, AttemptRight
<1>2. Shape /\ AttemptsRight /\ [Next]_vars => AttemptsRight'
  BY AttemptsStayRight
<1>3. Shape /\ AttemptsRight /\ [Next]_vars =>
        [\A t \in Tasks : at[t] = "loop" /\ at'[t] = "upstream" /\ sent[t] # Nothing =>
            /\ sent'[t].body = sent[t].body
            /\ Without(sent'[t].headers, {"host"}) = Without(sent[t].headers, {"host"})]_vars
  <2> SUFFICES ASSUME Shape, AttemptsRight, [Next]_vars, NEW t \in Tasks,
                      at[t] = "loop", at'[t] = "upstream", sent[t] # Nothing
               PROVE  /\ sent'[t].body = sent[t].body
                      /\ Without(sent'[t].headers, {"host"}) = Without(sent[t].headers, {"host"})
    OBVIOUS
  <2>1. Send(t)
    <3> USE DEF Shape
    <3>1. ~ Quiet(t)
      BY DEF Quiet
    <3>2. ~ (\E a \in Arrivals : Receive(t, a)) /\ ~ Lookup(t) /\ ~ Condition(t)
      BY DEF Receive, Lookup, Condition, Moves
    <3>3. ~ Fail(t) /\ ~ GiveUp(t) /\ ~ Respond(t) /\ ~ NotModified(t)
      BY DEF Fail, GiveUp, Respond, NotModified, Moves
    <3>4. ~ Revalidate(t) /\ ~ Store(t) /\ ~ Finish(t)
      BY DEF Revalidate, Store, Finish, Moves
    <3> HIDE DEF Shape
    <3> QED BY <3>1, <3>2, <3>3, <3>4, TaskStep
  <2>2. PICK u \in Range(Urls) : sent[t] = Rebuilt(t, u)
    BY DEF AttemptsRight, AttemptRight
  <2>3. PICK v \in Range(Urls) : sent' = [sent EXCEPT ![t] = Rebuilt(t, v)]
    BY <2>1 DEF Send
  <2>4. sent'[t] = Rebuilt(t, v)
    BY <2>3 DEF Shape
  <2>5. Without(Rebuilt(t, v).headers, {"host"}) = Without(Rebuilt(t, u).headers, {"host"})
    BY ConfigFacts, RebuiltSame
  <2>6. Rebuilt(t, v).body = Rebuilt(t, u).body
    BY DEF Rebuilt
  <2> QED BY <2>2, <2>4, <2>5, <2>6
<1> QED BY <1>1, <1>2, <1>3, ExchangeInvariant, PTL DEF Spec, AttemptsAlike
=============================================================================
