--------------------------- MODULE EnqueueProofs ---------------------------
(***************************************************************************)
(* Proofs about Enqueue: for any URLs and domains, any answers of yt-dlp,  *)
(* any number of requests and of changes to what is stored.                *)
(***************************************************************************)
EXTENDS Enqueue, SequenceTheorems, WellFoundedInduction, TLAPS

(***************************************************************************)
(* Least elements: the first combo, and the first domain that has a row.   *)
(***************************************************************************)

LEMMA NatLeast ==
  ASSUME NEW S \in SUBSET Nat, S # {}
  PROVE  \E m \in S : \A n \in S : m <= n
  <1>1. PICK m \in S : \A n \in S : ~(<<n, m>> \in OpToRel(<, Nat))
    BY NatLessThanWellFounded, WFMin
  <1>2. \A n \in S : ~(n < m)
    BY <1>1 DEF OpToRel
  <1> QED BY <1>2

LEMMA FirstIn ==
  ASSUME NEW S \in SUBSET Combos, S # {}
  PROVE  First(S) \in S
  <1>1. \A c \in S : c.from \in Nat /\ c.nth \in Nat /\ c.pair \in Nat
    BY EnqueueAssumption DEF Combos, Indices
  <1> DEFINE F == {c.from : c \in S}
  <1>2. PICK i \in F : \A k \in F : i <= k
    BY <1>1, NatLeast
  <1> DEFINE N == {c.nth : c \in {d \in S : d.from = i}}
  <1>3. PICK n \in N : \A k \in N : n <= k
    <2>1. N \in SUBSET Nat /\ N # {}
      BY <1>1, <1>2
    <2> QED BY <2>1, NatLeast
  <1> DEFINE P == {c.pair : c \in {d \in S : d.from = i /\ d.nth = n}}
  <1>4. PICK p \in P : \A k \in P : p <= k
    <2>1. P \in SUBSET Nat /\ P # {}
      BY <1>1, <1>3
    <2> QED BY <2>1, NatLeast
  <1>5. PICK c \in S : c.from = i /\ c.nth = n /\ c.pair = p
    BY <1>4
  <1>6. ASSUME NEW d \in S PROVE Before(c, d)
    <2>1. i <= d.from
      BY <1>2
    <2>2. d.from = i => n <= d.nth
      BY <1>3
    <2>3. d.from = i /\ d.nth = n => p <= d.pair
      BY <1>4
    <2> QED BY <1>1, <1>5, <2>1, <2>2, <2>3 DEF Before
  <1> QED BY <1>5, <1>6 DEF First

\* A look-up finds a domain of the URL's chain.
LEMMA CookiesFound ==
  ASSUME NEW url \in Urls
  PROVE  ResolveCookiesFile(url) \in ToSet(Chain[url]) \cup {None}
  <1> DEFINE I == {i \in 1 .. Len(Chain[url]) : Chain[url][i] \in jars}
  <1>1. Chain[url] \in Seq(Domains) /\ Len(Chain[url]) \in Nat /\ DOMAIN Chain[url] = 1 .. Len(Chain[url])
    BY EnqueueAssumption
  <1>2. SelectInSeq(Chain[url], LAMBDA d : d \in jars) = IF I # {} THEN Min(I) ELSE 0
    BY DEF SelectInSeq
  <1>3. CASE I = {}
    BY <1>2, <1>3 DEF ResolveCookiesFile
  <1>4. CASE I # {}
    <2>1. \E m \in I : \A n \in I : m <= n
      <3>1. I \in SUBSET Nat
        OBVIOUS
      <3> QED BY <1>4, <3>1, NatLeast
    <2>2. Min(I) \in I
      BY <2>1 DEF Min
    <2> DEFINE m == SelectInSeq(Chain[url], LAMBDA d : d \in jars)
    <2>3. m = Min(I) /\ m \in I /\ m # 0
      <3>1. m = Min(I)
        BY <1>2, <1>4
      <3> HIDE DEF m
      <3> QED BY <2>2, <3>1
    <2>4. ResolveCookiesFile(url) = IF m = 0 THEN None ELSE Chain[url][m]
      BY DEF ResolveCookiesFile
    <2>5. ResolveCookiesFile(url) = Chain[url][m]
      BY <2>3, <2>4
    <2> HIDE DEF m
    <2> QED BY <1>1, <2>3, <2>5 DEF ToSet
  <1> QED BY <1>3, <1>4

\* The same of a stored binding.
LEMMA BindingFound ==
  ASSUME NEW url \in Urls, binding \in [Domains -> [Fields -> Versions] \cup {None}]
  PROVE  LET found == ResolveAuthBinding(url)
         IN \/ found = None
            \/ \E d \in ToSet(Chain[url]) :
                 /\ d \in Domains /\ binding[d] # None /\ binding[d] \in [Fields -> Versions]
                 /\ found = [of |-> d, fields |-> binding[d]]
  <1> DEFINE I == {i \in 1 .. Len(Chain[url]) : binding[Chain[url][i]] # None}
             m == SelectInSeq(Chain[url], LAMBDA d : binding[d] # None)
  <1>1. Chain[url] \in Seq(Domains) /\ Len(Chain[url]) \in Nat /\ DOMAIN Chain[url] = 1 .. Len(Chain[url])
    BY EnqueueAssumption
  <1>2. m = IF I # {} THEN Min(I) ELSE 0
    BY DEF SelectInSeq
  <1>3. ResolveAuthBinding(url) =
          IF m = 0 THEN None ELSE [of |-> Chain[url][m], fields |-> binding[Chain[url][m]]]
    BY DEF ResolveAuthBinding
  <1> HIDE DEF m
  <1>4. CASE I = {}
    BY <1>2, <1>3, <1>4
  <1>5. CASE I # {}
    <2>1. I \in SUBSET Nat
      OBVIOUS
    <2>2. \E n \in I : \A k \in I : n <= k
      BY <1>5, <2>1, NatLeast
    <2>3. Min(I) \in I
      BY <2>2 DEF Min
    <2>4. m \in I /\ m # 0
      BY <1>2, <1>5, <2>3
    <2>5. Chain[url][m] \in ToSet(Chain[url]) /\ Chain[url][m] \in Domains
      BY <1>1, <2>4 DEF ToSet
    <2>6. ResolveAuthBinding(url) = [of |-> Chain[url][m], fields |-> binding[Chain[url][m]]]
      BY <1>3, <2>4
    <2>7. binding[Chain[url][m]] # None /\ binding[Chain[url][m]] \in [Fields -> Versions]
      BY <2>4, <2>5
    <2> QED BY <2>5, <2>6, <2>7
  <1> QED BY <1>4, <1>5

-----------------------------------------------------------------------------
(* A call of yt-dlp: whose credentials it is given.                        *)

\* What is stored, and that no stored field is one that was replaced.
Stocked ==
  /\ binding \in [Domains -> [Fields -> Versions] \cup {None}] /\ jars \subseteq Domains
  /\ gone \subseteq Domains \X Fields \X Versions
  /\ \A d \in Domains, f \in Fields :
       binding[d] # None /\ binding[d][f] # 0 => <<d, f, binding[d][f]>> \notin gone

\* A binding that was found under a URL by a request, and is not one of those
\* that had been replaced when the request was made.
Finds(found, url, old) ==
  found # None =>
    /\ found.of \in ToSet(Chain[url])
    /\ \A f \in Fields : found.fields[f] # 0 => <<found.of, f, found.fields[f]>> \notin old

\* A call that satisfies CredentialsFit and NoneRetired.
Good(call, old) ==
  /\ call.jar \in Known(call) \cup {None}
  /\ \E d \in Known(call) \cup {None} : \A s \in StoredIn(call) : s[1] = d
  /\ \A f \in Fields : <<call.auth[f][1], f, call.auth[f][2]>> \notin old

\* What the look-ups give.
LEMMA LookUp ==
  ASSUME Stocked, NEW url \in Urls, NEW old \in SUBSET gone
  PROVE  /\ ResolveCookiesFile(url) \in Domains \cup {None}
         /\ ResolveCookiesFile(url) \in ToSet(Chain[url]) \cup {None}
         /\ ResolveAuthBinding(url) \in Found
         /\ Finds(ResolveAuthBinding(url), url, old)
  <1>1. ToSet(Chain[url]) \subseteq Domains
    <2>1. Chain[url] \in Seq(Domains)
      BY EnqueueAssumption
    <2> QED BY <2>1 DEF ToSet
  <1>2. ResolveCookiesFile(url) \in ToSet(Chain[url]) \cup {None}
    BY CookiesFound
  <1> DEFINE found == ResolveAuthBinding(url)
  <1>3. \/ found = None
        \/ \E d \in ToSet(Chain[url]) :
             /\ d \in Domains /\ binding[d] # None /\ binding[d] \in [Fields -> Versions]
             /\ found = [of |-> d, fields |-> binding[d]]
    BY BindingFound DEF Stocked
  <1> HIDE DEF found
  <1>4. found \in Found
    BY <1>3 DEF Found
  <1>5. Finds(found, url, old)
    <2> SUFFICES ASSUME found # None
                 PROVE  /\ found.of \in ToSet(Chain[url])
                        /\ \A f \in Fields : found.fields[f] # 0 =>
                             <<found.of, f, found.fields[f]>> \notin old
      BY DEF Finds
    <2>1. PICK d \in ToSet(Chain[url]) :
            /\ d \in Domains /\ binding[d] # None
            /\ found = [of |-> d, fields |-> binding[d]]
      BY <1>3
    <2>2. found.of = d /\ found.fields = binding[d]
      BY <2>1
    <2> QED BY <2>1, <2>2 DEF Stocked
  <1> QED BY <1>1, <1>2, <1>4, <1>5 DEF found

\* What a call is given comes from the request itself or from one binding.
LEMMA CallGood ==
  ASSUME NEW found \in Found, NEW override \in SUBSET Fields, NEW extra \in SUBSET Fields,
         NEW old \in SUBSET (Domains \X Fields \X Versions),
         NEW url, NEW call, call.auth = Argv(MergeAuth(found, override), extra),
         call.jar \in Known(call) \cup {None}, Finds(found, url, old),
         ToSet(Chain[url]) \subseteq Known(call)
  PROVE  call.auth \in [Fields -> Source] /\ Good(call, old)
  <1>1. 0 \in Versions
    BY EnqueueAssumption DEF Versions
  <1>2. \A f \in Fields :
          \/ call.auth[f] \in {<<Form, 0>>, <<Extra, 0>>, <<None, 0>>}
          \/ /\ found # None /\ found.fields[f] # 0
             /\ call.auth[f] = <<found.of, found.fields[f]>>
    BY DEF Argv, MergeAuth
  <1>3. found # None => found.of \in Domains /\ found.fields \in [Fields -> Versions]
    BY DEF Found
  <1>4. \A f \in Fields : call.auth[f] \in Source
    <2> SUFFICES ASSUME NEW f \in Fields PROVE call.auth[f] \in Source
      OBVIOUS
    <2>1. CASE call.auth[f] \in {<<Form, 0>>, <<Extra, 0>>, <<None, 0>>}
      BY <1>1, <2>1 DEF Source
    <2>2. CASE found # None /\ call.auth[f] = <<found.of, found.fields[f]>>
      <3>1. found.of \in Domains /\ found.fields[f] \in Versions
        BY <1>3, <2>2
      <3> QED BY <2>2, <3>1 DEF Source
    <2> QED BY <1>2, <2>1, <2>2
  <1>5. call.auth \in [Fields -> Source]
    BY <1>4 DEF Argv
  <1>6. \A f \in Fields : <<call.auth[f][1], f, call.auth[f][2]>> \notin old
    <2> SUFFICES ASSUME NEW f \in Fields, <<call.auth[f][1], f, call.auth[f][2]>> \in old
                 PROVE  FALSE
      OBVIOUS
    <2>1. call.auth[f][1] \in Domains
      OBVIOUS
    <2>2. call.auth[f] = <<found.of, found.fields[f]>> /\ found # None /\ found.fields[f] # 0
      BY <1>2, <2>1, EnqueueAssumption
    <2> QED BY <2>2 DEF Finds
  <1>7. \A s \in StoredIn(call) : found # None /\ s[1] = found.of
    BY <1>1, <1>2 DEF StoredIn
  <1>8. \E d \in Known(call) \cup {None} : \A s \in StoredIn(call) : s[1] = d
    <2>1. CASE found = None
      BY <1>7, <2>1
    <2>2. CASE found # None
      BY <1>7, <2>2 DEF Finds
    <2> QED BY <2>1, <2>2
  <1> QED BY <1>5, <1>6, <1>8 DEF Good

-----------------------------------------------------------------------------
(* A request, with the credentials g that have been replaced so far.       *)

Base(r, g) ==
  /\ r \in Requests /\ Len(r.reads) <= Len(r.urls) /\ r.gone \subseteq g
  /\ \A i \in DOMAIN r.reads :
       /\ r.reads[i].jar \in ToSet(Chain[r.urls[i]]) \cup {None}
       /\ Finds(r.reads[i].found, r.urls[i], r.gone)
  /\ \A call \in r.asked \cup ToSet(r.jobs) : Good(call, r.gone)
  /\ \A t \in r.targets \cup r.todo : t.from \in DOMAIN r.reads \ ToSet(r.failed)
  /\ ToSet(r.failed) \subseteq DOMAIN r.reads

\* The first n URLs have a target or have failed.
Settled(r, n) ==
  \A i \in 1 .. n : i \in ToSet(r.failed) \/ \E t \in r.targets : t.from = i

Bare(r) == r.jobs = <<>> /\ r.todo = {} /\ r.skipped = {}

\* The last URL is being resolved, or all that were read are.
Asked(r, g) ==
  /\ Base(r, g) /\ Bare(r) /\ Len(r.reads) >= 1 /\ Settled(r, Len(r.reads) - 1)
  /\ Len(r.reads) \notin ToSet(r.failed)
  /\ \A t \in r.targets : t.from # Len(r.reads)

Between(r, g) == Base(r, g) /\ Bare(r) /\ Settled(r, Len(r.reads))

\* Each target has a job, was skipped or is still to do, for each pair.
Covers(r) ==
  /\ Len(r.reads) = Len(r.urls) /\ Settled(r, Len(r.urls))
  /\ {Identity(c) : c \in ToSet(r.jobs) \cup r.skipped \cup r.todo}
       = {<<t.url, p>> : t \in r.targets, p \in ToSet(Pairs)}

AllQueued(r) == \A k \in DOMAIN r.jobs : r.jobs[k].state = "queued"
LastIs(r, state) ==
  /\ r.jobs # <<>>
  /\ \A k \in DOMAIN r.jobs :
       r.jobs[k].state = IF k = Len(r.jobs) THEN state ELSE "queued"

\* The loop over the combos is about to go on.
Ready(r, g) == Base(r, g) /\ Covers(r) /\ AllQueued(r)

\* The request between two steps.
Sound(r, g) ==
  /\ Base(r, g)
  /\ r.stage = "resolve" => Asked(r, g)
  /\ r.stage = "overwrite" => Ready(r, g) /\ r.todo # {}
  /\ r.stage = "post" => Covers(r) /\ LastIs(r, "posting")
  /\ r.stage = "ok" => Ready(r, g) /\ r.todo = {}
  /\ r.stage = "conflict" => r.jobs = <<>>
  /\ r.stage = "error" => r.jobs = <<>> \/ LastIs(r, "failed")

LEMMA ReadTypes ==
  ASSUME NEW r, NEW g, Base(r, g)
  PROVE  /\ r.reads \in Seq([jar : Domains \cup {None}, found : Found]) /\ r.urls \in Seq(Urls)
         /\ Len(r.reads) \in Nat /\ Len(r.urls) \in Nat /\ Len(r.reads) <= Len(r.urls)
         /\ DOMAIN r.reads = 1 .. Len(r.reads) /\ DOMAIN r.urls = 1 .. Len(r.urls)
         /\ \A i \in DOMAIN r.reads :
              r.reads[i] \in [jar : Domains \cup {None}, found : Found] /\ r.urls[i] \in Urls
         /\ \A i \in DOMAIN r.urls : r.urls[i] \in Urls
  <1> DEFINE R == [jar : Domains \cup {None}, found : Found]
  <1>1. r.reads \in Seq(R) /\ r.urls \in Seq(Urls) /\ Len(r.reads) <= Len(r.urls)
    BY DEF Base, Requests
  <1> HIDE DEF R
  <1>2. /\ Len(r.reads) \in Nat /\ DOMAIN r.reads = 1 .. Len(r.reads)
        /\ Len(r.urls) \in Nat /\ DOMAIN r.urls = 1 .. Len(r.urls)
        /\ \A i \in DOMAIN r.reads : r.reads[i] \in R
        /\ \A i \in DOMAIN r.urls : r.urls[i] \in Urls
    BY <1>1
  <1>3. \A i \in DOMAIN r.reads : r.urls[i] \in Urls
    BY <1>1, <1>2
  <1> QED BY <1>1, <1>2, <1>3 DEF R

\* The job of a combo.
LEMMA JobGood ==
  ASSUME Stocked, NEW r, Base(r, gone), NEW c \in Combos, c.from \in DOMAIN r.reads
  PROVE  /\ Job(r, c) \in Jobs /\ Good(Job(r, c), r.gone)
         /\ Job(r, c).state = "posting" /\ Identity(Job(r, c)) = Identity(c)
  <1> DEFINE job == Job(r, c)
             i == c.from
             jar == Or(ResolveCookiesFile(c.url), Fallback(r, c).jar)
             found == Or(ResolveAuthBinding(c.url), Fallback(r, c).found)
  <1>1. /\ r \in Requests /\ r.gone \in SUBSET gone /\ r.given \in Given
        /\ r.gone \in SUBSET (Domains \X Fields \X Versions)
    BY DEF Base, Requests
  <1>3. /\ r.reads[i] \in [jar : Domains \cup {None}, found : Found] /\ r.urls[i] \in Urls
    BY ReadTypes
  <1>4. c.url \in Urls /\ c.pair \in DOMAIN Pairs
    BY DEF Combos
  <1>5. /\ job.url = c.url /\ job.sub = r.urls[i] /\ job.pair = c.pair /\ job.jar = jar
        /\ job.auth = Argv(MergeAuth(found, r.given.form), r.given.extra)
        /\ job.state = "posting" /\ DOMAIN job = {"url", "sub", "pair", "jar", "auth", "state"}
        /\ job = [url |-> c.url, sub |-> r.urls[i], pair |-> c.pair, jar |-> jar,
                  auth |-> job.auth, state |-> "posting"]
    BY DEF Job
  <1>6. Known(job) = ToSet(Chain[c.url]) \cup ToSet(Chain[r.urls[i]])
    BY <1>5 DEF Known
  <1>7. /\ ResolveCookiesFile(c.url) \in Domains \cup {None}
        /\ ResolveCookiesFile(c.url) \in ToSet(Chain[c.url]) \cup {None}
        /\ ResolveAuthBinding(c.url) \in Found
        /\ Finds(ResolveAuthBinding(c.url), c.url, r.gone)
    BY <1>1, <1>4, LookUp
  <1>8. /\ r.reads[i].jar \in ToSet(Chain[r.urls[i]]) \cup {None}
        /\ Finds(r.reads[i].found, r.urls[i], r.gone)
    BY DEF Base
  <1>9. jar \in Domains \cup {None} /\ jar \in Known(job) \cup {None}
    BY <1>3, <1>6, <1>7, <1>8 DEF Or, Fallback
  <1>10. found \in Found /\ \E url \in {c.url, r.urls[i]} : Finds(found, url, r.gone)
    BY <1>3, <1>7, <1>8 DEF Or, Fallback
  <1>11. r.given.form \in SUBSET Fields /\ r.given.extra \in SUBSET Fields
    BY <1>1 DEF Given
  <1> HIDE DEF job, jar, found
  <1>12. job.auth \in [Fields -> Source] /\ Good(job, r.gone)
    <2>1. PICK url \in {c.url, r.urls[i]} : Finds(found, url, r.gone)
      BY <1>10
    <2>2. ToSet(Chain[url]) \subseteq Known(job)
      BY <1>6
    <2> QED BY <1>1, <1>5, <1>9, <1>10, <1>11, <2>1, <2>2, CallGood
  <1>13. job \in Jobs
    BY <1>3, <1>4, <1>5, <1>9, <1>12 DEF Jobs
  <1>14. Identity(job) = Identity(c)
    BY <1>5 DEF Identity
  <1> QED BY <1>5, <1>12, <1>13, <1>14 DEF job

LEMMA Appended ==
  ASSUME NEW S, NEW q \in Seq(S), NEW x \in S
  PROVE  /\ Append(q, x) \in Seq(S) /\ ToSet(Append(q, x)) = ToSet(q) \cup {x}
         /\ Len(q) \in Nat /\ Len(Append(q, x)) = Len(q) + 1 /\ Append(q, x) # <<>>
         /\ DOMAIN q = 1 .. Len(q) /\ DOMAIN Append(q, x) = 1 .. Len(q) + 1
         /\ Append(q, x)[Len(q) + 1] = x
         /\ \A i \in 1 .. Len(q) : Append(q, x)[i] = q[i]
  <1> DEFINE s == Append(q, x)
  <1>1. /\ s \in Seq(S) /\ Len(q) \in Nat /\ Len(s) = Len(q) + 1 /\ s # <<>>
        /\ DOMAIN q = 1 .. Len(q) /\ DOMAIN s = 1 .. Len(q) + 1
        /\ s[Len(q) + 1] = x /\ \A i \in 1 .. Len(q) : s[i] = q[i]
    OBVIOUS
  <1> HIDE DEF s
  <1>2. ToSet(s) = ToSet(q) \cup {x}
    BY <1>1 DEF ToSet
  <1> QED BY <1>1, <1>2 DEF s

\* The first combo gets its job.
LEMMA AdvancePosts ==
  ASSUME Stocked, NEW r, Ready(r, gone), r.todo # {}, NEW c, c = First(r.todo),
         NEW s, s = [r EXCEPT !.stage = "post", !.todo = @ \ {c}, !.jobs = Append(@, Job(r, c))]
  PROVE  Sound(s, gone)
  <1>1. r \in Requests /\ Base(r, gone) /\ Covers(r) /\ AllQueued(r)
    BY DEF Ready, Base
  <1>2. r.todo \in SUBSET Combos /\ r.jobs \in Seq(Jobs)
    BY <1>1 DEF Requests
  <1>3. c \in r.todo /\ c \in Combos
    BY <1>2, FirstIn
  <1>4. c.from \in DOMAIN r.reads
    BY <1>1, <1>3 DEF Base
  <1> DEFINE job == Job(r, c)
  <1>5. /\ job \in Jobs /\ Good(job, r.gone) /\ job.state = "posting"
        /\ Identity(job) = Identity(c)
    BY <1>1, <1>3, <1>4, JobGood
  <1> HIDE DEF job
  <1>6. /\ s.jobs = Append(r.jobs, job) /\ s.todo = r.todo \ {c} /\ s.stage = "post"
        /\ s.urls = r.urls /\ s.reads = r.reads /\ s.asked = r.asked /\ s.targets = r.targets
        /\ s.failed = r.failed /\ s.skipped = r.skipped /\ s.gone = r.gone
    BY <1>1 DEF Requests, job
  <1>7. /\ s.jobs \in Seq(Jobs) /\ ToSet(s.jobs) = ToSet(r.jobs) \cup {job}
        /\ Len(r.jobs) \in Nat /\ Len(s.jobs) = Len(r.jobs) + 1 /\ s.jobs # <<>>
        /\ DOMAIN r.jobs = 1 .. Len(r.jobs) /\ DOMAIN s.jobs = 1 .. Len(r.jobs) + 1
        /\ s.jobs[Len(r.jobs) + 1] = job
        /\ \A i \in 1 .. Len(r.jobs) : s.jobs[i] = r.jobs[i]
    BY <1>2, <1>5, <1>6, Appended
  <1>8. s \in Requests
    BY <1>1, <1>2, <1>6, <1>7 DEF Requests, Stages, job
  <1>9. Base(s, gone)
    BY <1>1, <1>5, <1>6, <1>7, <1>8 DEF Base
  <1>10. LastIs(s, "posting")
    BY <1>1, <1>5, <1>7 DEF LastIs, AllQueued
  <1>11. Covers(s)
    <2>1. {Identity(d) : d \in ToSet(s.jobs) \cup s.skipped \cup s.todo}
            = {Identity(d) : d \in ToSet(r.jobs) \cup r.skipped \cup r.todo}
      BY <1>3, <1>5, <1>6, <1>7
    <2> QED BY <1>1, <1>6, <2>1 DEF Covers, Settled
  <1> QED BY <1>6, <1>9, <1>10, <1>11 DEF Sound

\* A step that only changes the stage.
LEMMA Staged ==
  ASSUME NEW r, NEW g, Base(r, g), NEW stage \in Stages, NEW s, s = [r EXCEPT !.stage = stage]
  PROVE  /\ Base(s, g) /\ s.stage = stage /\ s.jobs = r.jobs /\ s.todo = r.todo
         /\ s.urls = r.urls /\ s.reads = r.reads /\ s.targets = r.targets
         /\ s.failed = r.failed /\ s.skipped = r.skipped
         /\ Ready(r, g) => Ready(s, g)
  <1>1. r \in Requests
    BY DEF Base
  <1>2. /\ s.stage = stage
        /\ s.urls = r.urls /\ s.reads = r.reads /\ s.asked = r.asked /\ s.targets = r.targets
        /\ s.failed = r.failed /\ s.skipped = r.skipped /\ s.gone = r.gone
        /\ s.jobs = r.jobs /\ s.todo = r.todo
    BY <1>1 DEF Requests
  <1>3. s \in Requests
    BY <1>1 DEF Requests
  <1>4. Base(s, g)
    BY <1>2, <1>3 DEF Base
  <1>5. Ready(r, g) => Ready(s, g)
    BY <1>2, <1>4 DEF Ready, Covers, AllQueued, Settled
  <1> QED BY <1>2, <1>4, <1>5

LEMMA AdvanceSound ==
  ASSUME Stocked, NEW r, Ready(r, gone), NEW deleted \in BOOLEAN
  PROVE  Sound(Advance(r, deleted), gone)
  <1> DEFINE c == First(r.todo)
             s == Advance(r, deleted)
  <1>1. CASE r.todo = {}
    <2>1. s = [r EXCEPT !.stage = "ok"]
      BY <1>1 DEF Advance
    <2>2. Ready(s, gone) /\ s.stage = "ok" /\ s.todo = {}
      <3>1. "ok" \in Stages /\ Base(r, gone)
        BY DEF Stages, Ready
      <3> HIDE DEF s
      <3> QED BY <1>1, <2>1, <3>1, Staged
    <2>3. Sound(s, gone)
      <3> HIDE DEF s
      <3> QED BY <2>2 DEF Sound, Ready
    <2> QED BY <2>3
  <1>2. CASE r.todo # {} /\ ~deleted /\ c.existing /\ r.choice = "overwrite"
    <2>1. s = [r EXCEPT !.stage = "overwrite"]
      BY <1>2 DEF Advance
    <2>2. Ready(s, gone) /\ s.stage = "overwrite" /\ s.todo # {}
      <3>1. "overwrite" \in Stages /\ Base(r, gone)
        BY DEF Stages, Ready
      <3> HIDE DEF s
      <3> QED BY <1>2, <2>1, <3>1, Staged
    <2>3. Sound(s, gone)
      <3> HIDE DEF s
      <3> QED BY <2>2 DEF Sound, Ready
    <2> QED BY <2>3
  <1>3. CASE r.todo # {} /\ ~(~deleted /\ c.existing /\ r.choice = "overwrite")
    <2>1. s = [r EXCEPT !.stage = "post", !.todo = @ \ {c}, !.jobs = Append(@, Job(r, c))]
      BY <1>3 DEF Advance
    <2>2. Sound(s, gone)
      <3> HIDE DEF s, c
      <3> QED BY <1>3, <2>1, AdvancePosts DEF c
    <2> QED BY <2>2
  <1> QED BY <1>1, <1>2, <1>3

\* All URLs are resolved.
LEMMA MatchSound ==
  ASSUME Stocked, NEW r, Between(r, gone), Len(r.reads) = Len(r.urls)
  PROVE  Sound(Match(r), gone)
  <1> DEFINE combos == {Combo(t, k) : t \in r.targets, k \in DOMAIN Pairs}
             clash == {c \in combos : c.existing}
             skipped == IF r.choice = "cancel" THEN clash ELSE {}
             s == Match(r)
             q == [r EXCEPT !.todo = combos \ skipped, !.skipped = skipped]
  <1>1. /\ Base(r, gone) /\ Bare(r) /\ r \in Requests /\ r.targets \in SUBSET Targets
        /\ "error" \in Stages /\ "conflict" \in Stages
    BY DEF Between, Base, Requests, Stages
  <1>5. s = IF combos = {} THEN [r EXCEPT !.stage = "error"]
            ELSE IF clash # {} /\ r.choice = None THEN [r EXCEPT !.stage = "conflict"]
            ELSE Advance(q, FALSE)
    BY DEF Match
  <1> SUFFICES Sound(s, gone)
    OBVIOUS
  <1> HIDE DEF s, q, combos, clash, skipped
  <1>2. CASE combos = {}
    <2>1. s = [r EXCEPT !.stage = "error"]
      BY <1>2, <1>5
    <2>2. Base(s, gone) /\ s.stage = "error" /\ s.jobs = <<>>
      BY <1>1, <2>1, Staged DEF Bare
    <2> QED BY <2>2 DEF Sound
  <1>3. CASE combos # {} /\ clash # {} /\ r.choice = None
    <2>1. s = [r EXCEPT !.stage = "conflict"]
      BY <1>3, <1>5
    <2>2. Base(s, gone) /\ s.stage = "conflict" /\ s.jobs = <<>>
      BY <1>1, <2>1, Staged DEF Bare
    <2> QED BY <2>2 DEF Sound
  <1>4. CASE combos # {} /\ ~(clash # {} /\ r.choice = None)
    <2>1. s = Advance(q, FALSE)
      BY <1>4, <1>5
    <2>2. /\ combos \in SUBSET Combos
          /\ \A c \in combos : c.from \in DOMAIN r.reads \ ToSet(r.failed)
      <3> SUFFICES ASSUME NEW t \in r.targets, NEW k \in DOMAIN Pairs
                   PROVE  /\ Combo(t, k) \in Combos
                          /\ Combo(t, k).from \in DOMAIN r.reads \ ToSet(r.failed)
        BY DEF combos
      <3>1. t \in Targets /\ t.from \in DOMAIN r.reads \ ToSet(r.failed)
        BY <1>1 DEF Base
      <3> QED BY <3>1 DEF Combo, Combos, Targets
    <2>3. {Identity(c) : c \in combos} = {<<t.url, p>> : t \in r.targets, p \in ToSet(Pairs)}
      <3>1. \A t \in r.targets, k \in DOMAIN Pairs :
              Identity(Combo(t, k)) = <<t.url, Pairs[k]>> /\ Combo(t, k) \in combos
        BY DEF Identity, Combo, combos
      <3>2. \A c \in combos : \E t \in r.targets, k \in DOMAIN Pairs : c = Combo(t, k)
        BY DEF combos
      <3>3. ToSet(Pairs) = {Pairs[k] : k \in DOMAIN Pairs}
        BY DEF ToSet
      <3> QED BY <3>1, <3>2, <3>3
    <2>4. skipped \in SUBSET combos
      BY DEF skipped, clash
    <2>5. /\ q.todo = combos \ skipped /\ q.skipped = skipped /\ q.jobs = <<>>
          /\ q.urls = r.urls /\ q.reads = r.reads /\ q.asked = r.asked /\ q.targets = r.targets
          /\ q.failed = r.failed /\ q.gone = r.gone /\ r.jobs = <<>>
      BY <1>1 DEF Requests, Bare, q
    <2>6. q \in Requests
      BY <1>1, <2>2, <2>4 DEF Requests, q
    <2>7. Base(q, gone)
      BY <1>1, <2>2, <2>5, <2>6 DEF Base
    <2>8. AllQueued(q) /\ ToSet(q.jobs) = {}
      BY <2>5 DEF AllQueued, ToSet
    <2>9. Covers(q)
      <3>1. ToSet(q.jobs) \cup q.skipped \cup q.todo = combos
        BY <2>4, <2>5, <2>8
      <3> QED BY <2>3, <2>5, <3>1 DEF Covers, Between, Settled
    <2> QED BY <2>1, <2>7, <2>8, <2>9, AdvanceSound DEF Ready
  <1> QED BY <1>2, <1>3, <1>4

\* The next URL is read and asked for.
LEMMA AskSound ==
  ASSUME Stocked, NEW r, Between(r, gone), Len(r.reads) < Len(r.urls)
  PROVE  Sound(Ask(r), gone)
  <1> DEFINE n == Len(r.reads) + 1
             url == r.urls[n]
             read == [jar |-> ResolveCookiesFile(url), found |-> ResolveAuthBinding(url)]
             call == BuildResolveArgs(url, read, r.given)
             R == [jar : Domains \cup {None}, found : Found]
             s == Ask(r)
  <1>1. /\ Base(r, gone) /\ r \in Requests /\ r.given \in Given /\ r.asked \in SUBSET Calling
        /\ r.gone \in SUBSET gone /\ r.gone \in SUBSET (Domains \X Fields \X Versions)
        /\ "resolve" \in Stages
    BY DEF Between, Base, Requests, Stages, Stocked
  <1>2. /\ r.reads \in Seq(R) /\ Len(r.reads) \in Nat /\ Len(r.urls) \in Nat
        /\ DOMAIN r.reads = 1 .. Len(r.reads) /\ DOMAIN r.urls = 1 .. Len(r.urls)
        /\ \A i \in DOMAIN r.urls : r.urls[i] \in Urls
    BY <1>1, ReadTypes
  <1>3. url \in Urls /\ n \in DOMAIN r.urls
    BY <1>2
  <1>4. /\ ResolveCookiesFile(url) \in Domains \cup {None}
        /\ ResolveCookiesFile(url) \in ToSet(Chain[url]) \cup {None}
        /\ ResolveAuthBinding(url) \in Found
        /\ Finds(ResolveAuthBinding(url), url, r.gone)
    BY <1>1, <1>3, LookUp
  <1>5. s = [r EXCEPT !.stage = "resolve", !.reads = Append(@, read), !.asked = @ \cup {call}]
    BY DEF Ask
  <1>6. /\ call.url = url /\ call.sub = url /\ call.jar = read.jar
        /\ call.auth = Argv(MergeAuth(read.found, r.given.form), r.given.extra)
        /\ call = [url |-> url, sub |-> url, jar |-> read.jar, auth |-> call.auth]
    BY DEF BuildResolveArgs
  <1>7. /\ read \in R /\ read.jar \in Domains \cup {None} /\ read.found \in Found
        /\ read.jar \in ToSet(Chain[url]) \cup {None} /\ Finds(read.found, url, r.gone)
    BY <1>4
  <1>8. Known(call) = ToSet(Chain[url])
    BY <1>6 DEF Known
  <1>9. r.given.form \in SUBSET Fields /\ r.given.extra \in SUBSET Fields
    BY <1>1 DEF Given
  <1> HIDE DEF call, read
  <1>10. call.auth \in [Fields -> Source] /\ Good(call, r.gone)
    <2>1. call.jar \in Known(call) \cup {None} /\ ToSet(Chain[url]) \subseteq Known(call)
      BY <1>6, <1>7, <1>8
    <2> HIDE DEF url
    <2> QED BY <1>1, <1>6, <1>7, <1>9, <2>1, CallGood
  <1>11. call \in Calling
    BY <1>3, <1>6, <1>7, <1>10 DEF Calling
  <1> HIDE DEF s, R, url
  <1>12. /\ s.stage = "resolve" /\ s.reads = Append(r.reads, read) /\ s.asked = r.asked \cup {call}
         /\ s.urls = r.urls /\ s.targets = r.targets /\ s.failed = r.failed /\ s.gone = r.gone
         /\ s.jobs = r.jobs /\ s.todo = r.todo /\ s.skipped = r.skipped
    BY <1>1, <1>5 DEF Requests
  <1>13. /\ s.reads \in Seq(R) /\ Len(s.reads) = n /\ DOMAIN s.reads = 1 .. n
         /\ s.reads[n] = read /\ \A i \in 1 .. Len(r.reads) : s.reads[i] = r.reads[i]
    BY <1>2, <1>7, <1>12, Appended
  <1>14. s \in Requests
    BY <1>1, <1>5, <1>11, <1>12, <1>13 DEF Requests, R
  <1>15. Base(s, gone)
    <2>1. ASSUME NEW i \in DOMAIN s.reads
          PROVE  /\ s.reads[i].jar \in ToSet(Chain[s.urls[i]]) \cup {None}
                 /\ Finds(s.reads[i].found, s.urls[i], s.gone)
      <3>1. CASE i = n
        BY <1>7, <1>12, <1>13, <3>1 DEF url
      <3>2. CASE i \in 1 .. Len(r.reads)
        BY <1>1, <1>2, <1>12, <1>13, <3>2 DEF Base
      <3> QED BY <1>2, <1>13, <3>1, <3>2
    <2>2. DOMAIN r.reads \subseteq DOMAIN s.reads
      BY <1>2, <1>13
    <2>3. Len(s.reads) <= Len(s.urls)
      BY <1>2, <1>12, <1>13
    <2> QED BY <1>1, <1>10, <1>12, <1>14, <2>1, <2>2, <2>3 DEF Base
  <1>16. Asked(s, gone)
    <2>1. Bare(s)
      BY <1>12 DEF Between, Bare
    <2>2. Settled(s, Len(s.reads) - 1)
      <3>1. Len(s.reads) - 1 = Len(r.reads)
        BY <1>2, <1>13
      <3> QED BY <1>12, <3>1 DEF Between, Settled
    <2>3. Len(s.reads) \notin DOMAIN r.reads /\ Len(s.reads) >= 1
      BY <1>2, <1>13
    <2>4. Len(s.reads) \notin ToSet(s.failed) /\ \A t \in s.targets : t.from # Len(s.reads)
      BY <1>1, <1>12, <2>3 DEF Base
    <2> QED BY <1>15, <2>1, <2>2, <2>3, <2>4 DEF Asked
  <1>17. Sound(s, gone)
    BY <1>12, <1>15, <1>16 DEF Sound
  <1> QED BY <1>17 DEF s

LEMMA ContinueSound ==
  ASSUME Stocked, NEW r, Between(r, gone)
  PROVE  Sound(Continue(r), gone)
  <1>1. Base(r, gone)
    BY DEF Between
  <1>2. Len(r.reads) \in Nat /\ Len(r.urls) \in Nat /\ Len(r.reads) <= Len(r.urls)
    BY <1>1, ReadTypes
  <1>3. CASE Len(r.reads) < Len(r.urls)
    BY <1>3, AskSound DEF Continue
  <1>4. CASE ~(Len(r.reads) < Len(r.urls))
    <2>1. Len(r.reads) = Len(r.urls)
      BY <1>2, <1>4
    <2> QED BY <1>4, <2>1, MatchSound DEF Continue
  <1> QED BY <1>3, <1>4

\* The URL that was being resolved has failed.
LEMMA UnresolvedSound ==
  ASSUME Stocked, NEW r, Asked(r, gone)
  PROVE  Sound(Continue(Unresolved(r)), gone)
  <1> DEFINE s == Unresolved(r)
             n == Len(r.reads)
  <1>1. Base(r, gone) /\ Bare(r) /\ r \in Requests /\ r.failed \in Seq(Indices)
    BY DEF Asked, Base, Requests
  <1>2. n \in Nat /\ n >= 1 /\ DOMAIN r.reads = 1 .. n /\ n \in Indices
    BY <1>1, ReadTypes DEF Asked, Indices
  <1>3. s = [r EXCEPT !.failed = Append(@, n)]
    BY DEF Unresolved
  <1> HIDE DEF s
  <1>4. /\ s.failed = Append(r.failed, n)
        /\ s.stage = r.stage /\ s.urls = r.urls /\ s.reads = r.reads /\ s.asked = r.asked
        /\ s.targets = r.targets /\ s.gone = r.gone
        /\ s.jobs = r.jobs /\ s.todo = r.todo /\ s.skipped = r.skipped
    BY <1>1, <1>3 DEF Requests
  <1>5. s.failed \in Seq(Indices) /\ ToSet(s.failed) = ToSet(r.failed) \cup {n}
    BY <1>1, <1>2, <1>4, Appended
  <1>6. s \in Requests
    BY <1>1, <1>3, <1>4, <1>5 DEF Requests
  <1>7. Base(s, gone)
    <2>1. \A t \in s.targets \cup s.todo : t.from \in DOMAIN s.reads \ ToSet(s.failed)
      BY <1>1, <1>4, <1>5 DEF Base, Asked, Bare
    <2> QED BY <1>1, <1>2, <1>4, <1>5, <1>6, <2>1 DEF Base
  <1>8. Between(s, gone)
    BY <1>2, <1>4, <1>5, <1>7 DEF Between, Bare, Settled, Asked
  <1>9. Sound(Continue(s), gone)
    BY <1>8, ContinueSound
  <1> QED BY <1>9 DEF s

\* It was resolved: it has a target at least.
LEMMA ResolvedSound ==
  ASSUME Stocked, NEW r, Asked(r, gone), NEW dump, dump \in Dumps[r.urls[Len(r.reads)]]
  PROVE  LET more == Expand(r, Len(r.reads), ParseResolveOutput(dump))
         IN Sound(Continue([r EXCEPT !.targets = @ \cup more]), gone)
  <1> DEFINE n == Len(r.reads)
             more == Expand(r, n, ParseResolveOutput(dump))
             s == [r EXCEPT !.targets = @ \cup more]
             entries == {k \in DOMAIN dump.entries : dump.entries[k] # None}
             canonical == IF dump.entries = <<>> THEN dump.page ELSE None
  <1>1. Base(r, gone) /\ Bare(r) /\ r \in Requests /\ r.targets \in SUBSET Targets
    BY DEF Asked, Base, Requests
  <1>2. /\ n \in Nat /\ n >= 1 /\ DOMAIN r.reads = 1 .. n /\ n \in Indices
        /\ r.urls[n] \in Urls
    BY <1>1, ReadTypes DEF Asked, Indices
  <1>3. dump.entries \in Seq(Urls \cup {None}) /\ dump.page \in Urls \cup {None}
    <2>1. dump \in [entries : Seq(Urls \cup {None}), page : Urls \cup {None}]
      BY <1>2, EnqueueAssumption
    <2> QED BY <2>1
  <1>4. \A k \in entries : dump.entries[k] \in Urls /\ k \in Indices
    <2>1. DOMAIN dump.entries = 1 .. Len(dump.entries) /\ Len(dump.entries) \in Nat
      BY <1>3
    <2>2. \A k \in DOMAIN dump.entries : dump.entries[k] \in Urls \cup {None}
      BY <1>3
    <2> QED BY <2>1, <2>2 DEF Indices
  <1>5. more = IF entries # {} THEN {Target(dump.entries[k], n, k) : k \in entries}
               ELSE {Target(Or(canonical, r.urls[n]), n, 1)}
    BY DEF Expand, ParseResolveOutput
  <1>6. Or(canonical, r.urls[n]) \in Urls
    BY <1>2, <1>3 DEF Or
  <1> HIDE DEF more, entries, canonical
  <1>7. more \in SUBSET Targets /\ more # {} /\ \A t \in more : t.from = n
    <2>1. \A url \in Urls, k \in Indices : Target(url, n, k) \in Targets /\ Target(url, n, k).from = n
      BY <1>2 DEF Target, Targets
    <2>2. 1 \in Indices
      BY DEF Indices
    <2> QED BY <1>4, <1>5, <1>6, <2>1, <2>2
  <1> HIDE DEF s
  <1>8. /\ s.targets = r.targets \cup more
        /\ s.stage = r.stage /\ s.urls = r.urls /\ s.reads = r.reads /\ s.asked = r.asked
        /\ s.failed = r.failed /\ s.gone = r.gone
        /\ s.jobs = r.jobs /\ s.todo = r.todo /\ s.skipped = r.skipped
    BY <1>1 DEF Requests, s
  <1>9. s \in Requests
    BY <1>1, <1>7, <1>8 DEF Requests, s
  <1>10. Base(s, gone)
    <2>1. \A t \in s.targets \cup s.todo : t.from \in DOMAIN s.reads \ ToSet(s.failed)
      BY <1>1, <1>2, <1>7, <1>8 DEF Base, Asked
    <2> QED BY <1>1, <1>8, <1>9, <2>1 DEF Base
  <1>11. Between(s, gone)
    <2>1. \E t \in s.targets : t.from = n
      BY <1>7, <1>8
    <2> QED BY <1>2, <1>8, <1>10, <2>1 DEF Between, Bare, Settled, Asked
  <1>12. Sound(Continue(s), gone)
    BY <1>11, ContinueSound
  <1> QED BY <1>12 DEF s, more

\* The jobs of a request after its last job got a status.
LastChanged(r, jobs, state) ==
  /\ jobs \in Seq(Jobs) /\ Len(jobs) = Len(r.jobs) /\ Len(jobs) \in Nat \ {0}
  /\ DOMAIN jobs = 1 .. Len(jobs) /\ DOMAIN r.jobs = 1 .. Len(jobs) /\ jobs # <<>>
  /\ \A k \in DOMAIN jobs :
       jobs[k].state = IF k = Len(jobs) THEN state ELSE r.jobs[k].state
  /\ \A c \in ToSet(jobs) : \E d \in ToSet(r.jobs) : Identity(c) = Identity(d)
  /\ \A d \in ToSet(r.jobs) : \E c \in ToSet(jobs) : Identity(c) = Identity(d)
  /\ \A call \in ToSet(jobs) : Good(call, r.gone)

LEMMA SetLastEffect ==
  ASSUME NEW r, NEW g, Base(r, g), r.jobs # <<>>, NEW state \in {"posting", "queued", "failed"},
         NEW jobs, jobs = SetLast(r, state)
  PROVE  LastChanged(r, jobs, state)
  <1> DEFINE q == r.jobs
             n == Len(q)
  <1>1. q \in Seq(Jobs) /\ q # <<>>
    BY DEF Base, Requests
  <1>2. n \in Nat \ {0} /\ DOMAIN q = 1 .. n /\ \A k \in 1 .. n : q[k] \in Jobs
    BY <1>1
  <1>3. jobs = [q EXCEPT ![n].state = state]
    BY DEF SetLast
  <1>4. jobs = [q EXCEPT ![n] = [q[n] EXCEPT !.state = state]]
    BY <1>2, <1>3
  <1> DEFINE last == [q[n] EXCEPT !.state = state]
  <1>5. /\ last \in Jobs /\ last.state = state /\ last.url = q[n].url /\ last.sub = q[n].sub
        /\ last.pair = q[n].pair /\ last.jar = q[n].jar /\ last.auth = q[n].auth
    BY <1>2 DEF Jobs
  <1> HIDE DEF last
  <1>6. /\ jobs \in Seq(Jobs) /\ Len(jobs) = n /\ DOMAIN jobs = 1 .. n /\ jobs # <<>>
        /\ jobs[n] = last /\ \A k \in 1 .. n : k # n => jobs[k] = q[k]
    BY <1>1, <1>2, <1>4, <1>5 DEF last
  <1>7. ASSUME NEW k \in 1 .. n
        PROVE  /\ jobs[k].url = q[k].url /\ jobs[k].sub = q[k].sub /\ jobs[k].pair = q[k].pair
               /\ jobs[k].jar = q[k].jar /\ jobs[k].auth = q[k].auth
    BY <1>5, <1>6
  <1>8. \A k \in 1 .. n : Identity(jobs[k]) = Identity(q[k])
    BY <1>7 DEF Identity
  <1>9. ToSet(jobs) = {jobs[k] : k \in 1 .. n} /\ ToSet(q) = {q[k] : k \in 1 .. n}
    BY <1>2, <1>6 DEF ToSet
  <1>10. /\ \A c \in ToSet(jobs) : \E d \in ToSet(q) : Identity(c) = Identity(d)
         /\ \A d \in ToSet(q) : \E c \in ToSet(jobs) : Identity(c) = Identity(d)
    BY <1>8, <1>9
  <1>11. \A call \in ToSet(jobs) : Good(call, r.gone)
    <2> SUFFICES ASSUME NEW k \in 1 .. n PROVE Good(jobs[k], r.gone)
      BY <1>9
    <2>1. Good(q[k], r.gone)
      BY <1>9 DEF Base
    <2>2. Known(jobs[k]) = Known(q[k]) /\ StoredIn(jobs[k]) = StoredIn(q[k])
      BY <1>7 DEF Known, StoredIn
    <2> QED BY <1>7, <2>1, <2>2 DEF Good
  <1>12. \A k \in DOMAIN jobs : jobs[k].state = IF k = Len(jobs) THEN state ELSE q[k].state
    BY <1>5, <1>6
  <1> QED BY <1>2, <1>6, <1>10, <1>11, <1>12 DEF LastChanged

LEMMA LastJob ==
  ASSUME NEW r, NEW g, Base(r, g), Covers(r), LastIs(r, "posting"),
         NEW state \in {"posting", "queued", "failed"},
         NEW s, s = [r EXCEPT !.jobs = SetLast(r, state)]
  PROVE  Base(s, g) /\ Covers(s) /\ LastIs(s, state) /\ (state = "queued" => Ready(s, g))
  <1>1. r \in Requests /\ r.jobs # <<>>
    BY DEF Base, LastIs
  <1>2. PICK jobs : jobs = SetLast(r, state)
    OBVIOUS
  <1>3. LastChanged(r, jobs, state)
    BY <1>2, <1>1, SetLastEffect
  <1>4. /\ jobs \in Seq(Jobs) /\ Len(jobs) \in Nat \ {0}
        /\ DOMAIN jobs = 1 .. Len(jobs) /\ DOMAIN r.jobs = 1 .. Len(jobs) /\ jobs # <<>>
        /\ \A k \in DOMAIN jobs :
             jobs[k].state = IF k = Len(jobs) THEN state ELSE r.jobs[k].state
        /\ \A c \in ToSet(jobs) : \E d \in ToSet(r.jobs) : Identity(c) = Identity(d)
        /\ \A d \in ToSet(r.jobs) : \E c \in ToSet(jobs) : Identity(c) = Identity(d)
        /\ \A call \in ToSet(jobs) : Good(call, r.gone)
    BY <1>3 DEF LastChanged
  <1>5. /\ s.jobs = jobs
        /\ s.stage = r.stage /\ s.urls = r.urls /\ s.reads = r.reads /\ s.asked = r.asked
        /\ s.targets = r.targets /\ s.failed = r.failed /\ s.gone = r.gone
        /\ s.todo = r.todo /\ s.skipped = r.skipped
    BY <1>2, <1>1 DEF Requests
  <1>6. s \in Requests
    BY <1>2, <1>1, <1>4, <1>5 DEF Requests
  <1>7. Base(s, g)
    BY <1>4, <1>5, <1>6 DEF Base
  <1>8. Covers(s)
    <2>1. {Identity(c) : c \in ToSet(s.jobs) \cup s.skipped \cup s.todo}
            = {Identity(c) : c \in ToSet(r.jobs) \cup r.skipped \cup r.todo}
      BY <1>4, <1>5
    <2>2. Len(s.reads) = Len(s.urls) /\ Settled(s, Len(s.urls))
      BY <1>5 DEF Covers, Settled
    <2>3. {Identity(c) : c \in ToSet(r.jobs) \cup r.skipped \cup r.todo}
            = {<<t.url, p>> : t \in s.targets, p \in ToSet(Pairs)}
      BY <1>5 DEF Covers
    <2> QED BY <2>1, <2>2, <2>3 DEF Covers
  <1>9. LastIs(s, state)
    BY <1>4, <1>5 DEF LastIs
  <1>10. state = "queued" => AllQueued(s)
    BY <1>9 DEF LastIs, AllQueued
  <1> QED BY <1>7, <1>8, <1>9, <1>10 DEF Ready

\* The last job was refused.
LEMMA FailSound ==
  ASSUME NEW r, NEW g, Base(r, g), Covers(r), LastIs(r, "posting")
  PROVE  Sound(FailLast(r), g)
  <1> DEFINE q == [r EXCEPT !.jobs = SetLast(r, "failed")]
             s == FailLast(r)
  <1>1. Base(q, g) /\ LastIs(q, "failed")
    <2> HIDE DEF q
    <2> QED BY LastJob DEF q
  <1>2. s = [q EXCEPT !.stage = "error"]
    BY DEF FailLast, Base, Requests
  <1>3. "error" \in Stages
    BY DEF Stages
  <1> HIDE DEF q, s
  <1>4. Base(s, g) /\ s.stage = "error" /\ s.jobs = q.jobs
    BY <1>1, <1>2, <1>3, Staged
  <1>5. LastIs(s, "failed")
    BY <1>1, <1>4 DEF LastIs
  <1>6. Sound(s, g)
    BY <1>4, <1>5 DEF Sound
  <1> QED BY <1>6 DEF s

\* A request that is not under way.
LEMMA IdleSound ==
  ASSUME NEW g, NEW given \in Given
  PROVE  /\ Idle \in Requests /\ Sound(Idle, g)
         /\ Sound([Idle EXCEPT !.stage = "asking", !.given = given], g)
  <1>1. /\ <<>> \in Seq(Urls) /\ <<>> \in Seq(Jobs) /\ <<>> \in Seq(Indices)
        /\ <<>> \in Seq([jar : Domains \cup {None}, found : Found])
        /\ Len(<<>>) = 0 /\ DOMAIN <<>> = {}
    OBVIOUS
  <1>2. ToSet(<<>>) = {}
    BY <1>1 DEF ToSet
  <1>3. ASSUME NEW s \in {Idle, [Idle EXCEPT !.stage = "asking", !.given = given]}
        PROVE  s \in Requests /\ Sound(s, g)
    <2>1. /\ s.stage \in {"idle", "asking"} /\ s.urls = <<>> /\ s.given \in Given
          /\ s.choice = None /\ s.reads = <<>> /\ s.asked = {} /\ s.targets = {}
          /\ s.failed = <<>> /\ s.todo = {} /\ s.skipped = {} /\ s.jobs = <<>> /\ s.gone = {}
      <3>1. CASE s = Idle
        BY <3>1 DEF Idle, Given
      <3>2. CASE s = [Idle EXCEPT !.stage = "asking", !.given = given]
        BY <3>2 DEF Idle
      <3> QED BY <1>3, <3>1, <3>2
    <2>2. s = [stage |-> s.stage, urls |-> s.urls, given |-> s.given,
               choice |-> s.choice, reads |-> s.reads, asked |-> s.asked, targets |-> s.targets,
               failed |-> s.failed, todo |-> s.todo, skipped |-> s.skipped, jobs |-> s.jobs,
               gone |-> s.gone]
      BY <1>3 DEF Idle
    <2>3. s \in Requests
      BY <1>1, <2>1, <2>2 DEF Requests, Stages
    <2>4. Base(s, g)
      BY <1>1, <1>2, <2>1, <2>3 DEF Base
    <2> QED BY <2>1, <2>3, <2>4 DEF Sound
  <1> QED BY <1>3

\* A request that is posted.
LEMMA PostSound ==
  ASSUME Stocked, form \in Seq(Urls), form # <<>>, NEW given \in Given,
         NEW choice \in Resolutions \cup {None}
  PROVE  Sound(Ask([Idle EXCEPT !.urls = form, !.given = given, !.choice = choice,
                                !.gone = gone]), gone)
  <1> DEFINE s == [Idle EXCEPT !.urls = form, !.given = given, !.choice = choice, !.gone = gone]
  <1>1. /\ <<>> \in Seq(Jobs) /\ <<>> \in Seq(Indices)
        /\ <<>> \in Seq([jar : Domains \cup {None}, found : Found])
        /\ Len(<<>>) = 0 /\ DOMAIN <<>> = {}
    OBVIOUS
  <1>2. ToSet(<<>>) = {}
    BY <1>1 DEF ToSet
  <1>3. /\ s.stage = "idle" /\ s.urls = form /\ s.given = given
        /\ s.choice = choice /\ s.reads = <<>> /\ s.asked = {} /\ s.targets = {}
        /\ s.failed = <<>> /\ s.todo = {} /\ s.skipped = {} /\ s.jobs = <<>> /\ s.gone = gone
    BY DEF Idle
  <1>4. Idle \in Requests /\ given \in Given
    BY IdleSound
  <1>5. Len(form) \in Nat \ {0}
    OBVIOUS
  <1> SUFFICES Sound(Ask(s), gone)
    OBVIOUS
  <1>6. s \in Requests
    BY <1>4 DEF Requests, Stocked
  <1> HIDE DEF s
  <1>7. Base(s, gone)
    BY <1>1, <1>2, <1>3, <1>5, <1>6 DEF Base
  <1>8. Between(s, gone) /\ Len(s.reads) < Len(s.urls)
    BY <1>1, <1>3, <1>5, <1>7 DEF Between, Bare, Settled
  <1> QED BY <1>8, AskSound

\* More may be replaced while a request is under way.
LEMMA SoundMono ==
  ASSUME NEW r, NEW g, NEW h, g \subseteq h, Sound(r, g)
  PROVE  Sound(r, h)
  <1>1. Base(r, g) => Base(r, h)
    BY DEF Base
  <1> QED BY <1>1 DEF Sound, Asked, Ready

-----------------------------------------------------------------------------
(* The invariant: what is stored is newer than all that was replaced.      *)

Versioned ==
  /\ \A d \in Domains, f \in Fields : binding[d] # None => binding[d][f] <= edits
  /\ \A e \in gone : e[3] <= edits

AllSound == \A v \in Visits : Sound(req[v], gone)

Inv == TypeOK /\ Stocked /\ Versioned /\ AllSound

\* The part of TypeOK that Stocked and Sound do not give.
Rest ==
  /\ edits \in Versions /\ posts \in 0 .. MaxPosts /\ form \in Seq(Urls)
  /\ visit \in Visits /\ req \in [Visits -> Requests]
  /\ live \cup done \subseteq Urls \X ToSet(Pairs)

LEMMA Typed == Rest /\ Stocked /\ AllSound => TypeOK
  BY DEF AllSound, Rest, Stocked, Sound, Base, TypeOK

\* One request goes on.
LEMMA OneGoes ==
  ASSUME Inv, gone' = gone, NEW v \in Visits, NEW r, Sound(r, gone), req' = [req EXCEPT ![v] = r]
  PROVE  req' \in [Visits -> Requests] /\ \A w \in Visits : Sound(req'[w], gone)
  <1>1. req \in [Visits -> Requests]
    BY DEF Inv, TypeOK
  <1>2. r \in Requests
    BY DEF Sound, Base
  <1>3. \A w \in Visits : req'[w] = IF w = v THEN r ELSE req[w]
    BY <1>1
  <1> QED BY <1>1, <1>2, <1>3 DEF Inv, AllSound

LEMMA InvInit == Init => Inv
  <1> SUFFICES ASSUME Init PROVE Inv
    OBVIOUS
  <1>1. PICK kept \in Stored : binding = kept.binding /\ jars = kept.jars /\ done = kept.done
    BY DEF Init
  <1>2. /\ kept.binding \in [Domains -> [Fields -> {0, 1}] \cup {None}]
        /\ kept.jars \subseteq Domains /\ kept.done \subseteq Urls \X ToSet(Pairs)
    BY EnqueueAssumption
  <1>3. {0, 1} \subseteq Versions
    BY EnqueueAssumption DEF Versions
  <1>4. /\ edits = 1 /\ gone = {} /\ form = <<>> /\ live = {} /\ posts = 0
        /\ visit \in Visits /\ req = [v \in Visits |-> Idle]
    BY DEF Init
  <1>5. [Fields -> {0, 1}] \subseteq [Fields -> Versions]
    BY <1>3
  <1>6. Stocked
    BY <1>1, <1>2, <1>4, <1>5 DEF Stocked
  <1>7. Versioned
    BY <1>1, <1>2, <1>4 DEF Versioned
  <1>8. req \in [Visits -> Requests] /\ \A v \in Visits : Sound(req[v], gone)
    <2>1. [form |-> {}, extra |-> {}] \in Given
      BY DEF Given
    <2>2. Idle \in Requests /\ Sound(Idle, gone)
      BY <2>1, IdleSound
    <2> QED BY <1>4, <2>2
  <1>9. Rest
    BY <1>1, <1>2, <1>3, <1>4, <1>8, EnqueueAssumption DEF Rest
  <1> QED BY <1>6, <1>7, <1>8, <1>9, Typed DEF Inv, AllSound

\* A change to what is stored.
LEMMA StoresInv ==
  ASSUME Inv, Stores
  PROVE  Inv'
  <1>1. PICK d \in Domains :
          \/ \E patch \in SUBSET Fields : SaveBinding(d, patch)
          \/ DeleteBinding(d) \/ WriteCookieFile(d) \/ DeleteCookieFile(d)
    BY DEF Stores
  <1>2. edits \in Nat /\ edits < MaxEdits /\ edits' = edits + 1 /\ edits' \in Versions
    BY <1>1, EnqueueAssumption
    DEF Inv, TypeOK, Versions, Edit, SaveBinding, DeleteBinding, WriteCookieFile, DeleteCookieFile
  <1>3. UNCHANGED <<form, visit, req, live, done, posts>>
    BY <1>1 DEF SaveBinding, DeleteBinding, WriteCookieFile, DeleteCookieFile, pageVars
  <1>4. Rest'
    BY <1>2, <1>3 DEF Inv, TypeOK, Rest
  <1> DEFINE old == Or(binding[d], NoFields)
  <1>5. old \in [Fields -> Versions] /\ \A f \in Fields : old[f] <= edits
    <2>1. 0 \in Versions
      BY EnqueueAssumption DEF Versions
    <2> QED BY <1>2, <2>1 DEF Inv, Stocked, Versioned, Or, NoFields
  <1>6. Stocked' /\ Versioned' /\ gone \subseteq gone'
    <2>1. ASSUME NEW patch \in SUBSET Fields, SaveBinding(d, patch)
          PROVE  Stocked' /\ Versioned' /\ gone \subseteq gone'
      <3> DEFINE new == Upsert(old, patch)
                 retired == {<<d, f, old[f]>> : f \in patch}
      <3>1. /\ binding' = [binding EXCEPT ![d] = new] /\ gone' = gone \cup retired
            /\ jars' = jars
        BY <2>1 DEF SaveBinding, Retire
      <3>2. /\ new \in [Fields -> Versions]
            /\ \A f \in Fields : new[f] = IF f \in patch THEN edits' ELSE old[f]
        BY <1>2, <1>5 DEF Upsert
      <3>3. retired \subseteq Domains \X Fields \X Versions
        BY <1>5
      <3> HIDE DEF new, old
      <3>4. \A e \in retired : e[3] <= edits /\ \E f \in patch : e = <<d, f, old[f]>>
        BY <1>5
      <3> HIDE DEF retired
      <3>5. /\ binding' \in [Domains -> [Fields -> Versions] \cup {None}]
            /\ binding'[d] = new /\ \A b \in Domains \ {d} : binding'[b] = binding[b]
        BY <3>1, <3>2 DEF Inv, Stocked
      <3>6. \A e \in gone \cup retired : e[3] <= edits
        BY <3>4 DEF Inv, Versioned
      <3>7. ASSUME NEW b \in Domains, NEW f \in Fields,
                   binding'[b] # None, binding'[b][f] # 0
            PROVE  <<b, f, binding'[b][f]>> \notin gone'
        <4>1. CASE b # d
          BY <3>1, <3>4, <3>5, <3>7, <4>1 DEF Inv, Stocked
        <4>2. CASE b = d /\ f \in patch
          BY <1>2, <3>1, <3>2, <3>5, <3>6, <4>2
        <4>3. CASE b = d /\ f \notin patch
          <5>1. binding'[b][f] = old[f]
            BY <3>2, <3>5, <4>3
          <5>2. <<b, f, old[f]>> \notin gone
            BY <3>7, <4>3, <5>1 DEF Inv, Stocked, old, Or, NoFields
          <5> QED BY <3>1, <3>4, <4>3, <5>1, <5>2
        <4> QED BY <4>1, <4>2, <4>3
      <3>8. Stocked'
        BY <3>1, <3>3, <3>5, <3>7 DEF Inv, Stocked
      <3>9. \A b \in Domains, f \in Fields : binding'[b] # None => binding'[b][f] <= edits'
        <4> SUFFICES ASSUME NEW b \in Domains, NEW f \in Fields, binding'[b] # None
                     PROVE  binding'[b][f] <= edits'
          OBVIOUS
        <4>1. CASE b = d
          <5>1. binding'[b][f] = edits' \/ binding'[b][f] = old[f]
            BY <3>2, <3>5, <4>1
          <5>2. old[f] \in Nat /\ old[f] <= edits
            BY <1>5, EnqueueAssumption DEF Versions
          <5> QED BY <1>2, <5>1, <5>2
        <4>2. CASE b # d
          <5>1. binding[b] # None /\ binding'[b] = binding[b] /\ binding[b][f] \in Versions
            BY <3>5, <4>2 DEF Inv, Stocked
          <5>2. binding[b][f] <= edits
            BY <5>1 DEF Inv, Versioned
          <5> QED BY <1>2, <5>1, <5>2, EnqueueAssumption DEF Versions
        <4> QED BY <4>1, <4>2
      <3>10. \A e \in gone' : e[3] <= edits'
        <4> SUFFICES ASSUME NEW e \in gone' PROVE e[3] <= edits'
          OBVIOUS
        <4>1. e[3] \in Nat
          BY <3>1, <3>3, EnqueueAssumption DEF Inv, Stocked, Versions
        <4> QED BY <1>2, <3>1, <3>6, <4>1
      <3> QED BY <3>1, <3>8, <3>9, <3>10 DEF Versioned
    <2>2. CASE DeleteBinding(d)
      <3> DEFINE retired == {<<d, f, old[f]>> : f \in Fields}
      <3>1. /\ binding' = [binding EXCEPT ![d] = None] /\ gone' = gone \cup retired
            /\ jars' = jars
        BY <2>2 DEF DeleteBinding, Retire
      <3>2. retired \subseteq Domains \X Fields \X Versions
        BY <1>5
      <3>3. \A e \in retired : e[3] <= edits /\ e[1] = d
        BY <1>5
      <3> HIDE DEF retired, old
      <3>4. /\ binding' \in [Domains -> [Fields -> Versions] \cup {None}]
            /\ binding'[d] = None /\ \A b \in Domains \ {d} : binding'[b] = binding[b]
        BY <3>1 DEF Inv, Stocked
      <3>5. ASSUME NEW b \in Domains, NEW f \in Fields,
                   binding'[b] # None, binding'[b][f] # 0
            PROVE  <<b, f, binding'[b][f]>> \notin gone'
        <4>1. b # d /\ binding'[b] = binding[b]
          BY <3>4, <3>5
        <4>2. <<b, f, binding[b][f]>> \notin gone
          BY <3>5, <4>1 DEF Inv, Stocked
        <4> QED BY <3>1, <3>3, <4>1, <4>2
      <3>6. Stocked'
        BY <3>1, <3>2, <3>4, <3>5 DEF Inv, Stocked
      <3>7. \A b \in Domains, f \in Fields : binding'[b] # None => binding'[b][f] <= edits'
        <4> SUFFICES ASSUME NEW b \in Domains, NEW f \in Fields, binding'[b] # None
                     PROVE  binding'[b][f] <= edits'
          OBVIOUS
        <4>1. binding[b] # None /\ binding'[b] = binding[b] /\ binding[b][f] \in Versions
          BY <3>4 DEF Inv, Stocked
        <4>2. binding[b][f] <= edits
          BY <4>1 DEF Inv, Versioned
        <4> QED BY <1>2, <4>1, <4>2, EnqueueAssumption DEF Versions
      <3>8. \A e \in gone' : e[3] <= edits'
        <4> SUFFICES ASSUME NEW e \in gone' PROVE e[3] <= edits'
          OBVIOUS
        <4>1. e[3] \in Nat
          BY <3>1, <3>2, EnqueueAssumption DEF Inv, Stocked, Versions
        <4>2. e[3] <= edits
          BY <3>1, <3>3 DEF Inv, Versioned
        <4> QED BY <1>2, <4>1, <4>2
      <3> QED BY <3>1, <3>6, <3>7, <3>8 DEF Versioned
    <2>3. CASE WriteCookieFile(d) \/ DeleteCookieFile(d)
      <3>1. UNCHANGED <<binding, gone>> /\ jars' \subseteq Domains
        BY <2>3 DEF WriteCookieFile, DeleteCookieFile, Inv, Stocked
      <3>2. \A b \in Domains, f \in Fields : binding[b] # None => binding[b][f] <= edits'
        <4> SUFFICES ASSUME NEW b \in Domains, NEW f \in Fields, binding[b] # None
                     PROVE  binding[b][f] <= edits'
          OBVIOUS
        <4>1. binding[b][f] \in Nat /\ binding[b][f] <= edits
          BY EnqueueAssumption DEF Inv, Stocked, Versioned, Versions
        <4> QED BY <1>2, <4>1
      <3>3. \A e \in gone : e[3] <= edits'
        <4> SUFFICES ASSUME NEW e \in gone PROVE e[3] <= edits'
          OBVIOUS
        <4>1. e[3] \in Nat /\ e[3] <= edits
          BY EnqueueAssumption DEF Inv, Stocked, Versioned, Versions
        <4> QED BY <1>2, <4>1
      <3> QED BY <3>1, <3>2, <3>3 DEF Inv, Stocked, Versioned
    <2> QED BY <1>1, <2>1, <2>2, <2>3
  <1>7. \A v \in Visits : Sound(req[v], gone')
    BY <1>6, SoundMono DEF Inv, AllSound
  <1>8. AllSound'
    BY <1>3, <1>7 DEF AllSound
  <1> QED BY <1>4, <1>6, <1>8, Typed, PTL DEF Inv

\* A step of the page.
LEMMA PageInv ==
  ASSUME Inv, Page
  PROVE  Inv'
  <1>1. /\ Stocked /\ Versioned /\ Rest /\ req \in [Visits -> Requests] /\ visit \in Visits
        /\ \A v \in Visits : Sound(req[v], gone) /\ req[v] \in Requests
        /\ UNCHANGED <<stores, live, done>>
    BY DEF Page, Type, Submit, Confirm, Post, Dismiss, Reopen, Receive, Inv, AllSound, TypeOK,
           Rest
  <1>2. Stocked' /\ Versioned' /\ gone' = gone
    BY <1>1 DEF stores, Stocked, Versioned
  <1> DEFINE Fine == /\ form' \in Seq(Urls) /\ posts' \in 0 .. MaxPosts /\ visit' \in Visits
                      /\ req' \in [Visits -> Requests]
                      /\ \A v \in Visits : Sound(req'[v], gone)
  <1>3. Fine
    <2>1. ASSUME NEW list \in Lists, Type(list)
          PROVE  Fine
      BY <1>1, <2>1, EnqueueAssumption DEF Type, Rest
    <2>2. ASSUME NEW given \in Given, NEW choice \in Resolutions \cup {None}, Post(given, choice)
          PROVE  Fine
      <3>1. /\ form' = form /\ visit' = visit /\ posts' = posts + 1 /\ posts < MaxPosts
            /\ form # <<>>
        BY <2>2 DEF Post
      <3>2. posts' \in 0 .. MaxPosts
        BY <1>1, <3>1, EnqueueAssumption DEF Rest
      <3> DEFINE r == Ask([Idle EXCEPT !.urls = form, !.given = given, !.choice = choice,
                                       !.gone = gone])
      <3>3. req' = [req EXCEPT ![visit] = r]
        BY <2>2 DEF Post
      <3>4. Sound(r, gone)
        BY <1>1, <3>1, PostSound DEF Rest
      <3> HIDE DEF r
      <3> QED BY <1>1, <1>2, <3>1, <3>2, <3>3, <3>4, OneGoes DEF Rest
    <2>3. ASSUME NEW given \in Secrets, Submit(given)
          PROVE  Fine
      <3>1. given \in Given
        BY EnqueueAssumption DEF Given
      <3> QED BY <2>2, <2>3, <3>1 DEF Submit
    <2>4. ASSUME NEW choice \in Resolutions, Confirm(choice)
          PROVE  Fine
      <3>1. req[visit].given \in Given
        BY <1>1 DEF Requests
      <3> QED BY <2>2, <2>4, <3>1 DEF Confirm
    <2>5. Sound(Idle, gone)
      <3>1. [form |-> {}, extra |-> {}] \in Given
        BY DEF Given
      <3> QED BY <3>1, IdleSound
    <2>6. CASE Dismiss
      BY <1>1, <1>2, <2>5, <2>6, OneGoes DEF Dismiss, Rest
    <2>7. ASSUME NEW v \in Visits, Reopen(v)
          PROVE  Fine
      <3>1. /\ form' = form /\ posts' = posts /\ visit' = v
            /\ req' \in {req, [req EXCEPT ![visit] = Idle]}
        BY <2>7 DEF Reopen
      <3>2. req' = req => req' \in [Visits -> Requests] /\ \A w \in Visits : Sound(req'[w], gone)
        BY <1>1
      <3> QED BY <1>1, <1>2, <2>5, <3>1, <3>2, OneGoes DEF Rest
    <2>8. ASSUME NEW v \in Visits, Receive(v)
          PROVE  Fine
      <3> DEFINE q == req[v]
      <3>1. form' \in Seq(Urls)
        <4>1. CASE q.stage = "ok"
          <5>1. Base(q, gone)
            BY <1>1 DEF Sound
          <5>2. /\ q.failed \in Seq(Indices) /\ ToSet(q.failed) \subseteq DOMAIN q.reads
                /\ \A i \in DOMAIN q.reads : q.urls[i] \in Urls
            BY <1>1, <5>1, ReadTypes DEF Base, Requests
          <5>3. /\ Len(q.failed) \in Nat /\ DOMAIN q.failed = 1 .. Len(q.failed)
                /\ \A n \in DOMAIN q.failed : q.failed[n] \in ToSet(q.failed)
            BY <5>2 DEF ToSet
          <5>4. \A n \in 1 .. Len(q.failed) : q.urls[q.failed[n]] \in Urls
            BY <5>2, <5>3
          <5>5. form' = [n \in 1 .. Len(q.failed) |-> q.urls[q.failed[n]]]
            BY <2>8, <4>1, <5>3 DEF Receive, Kept
          <5> QED BY <5>3, <5>4, <5>5
        <4>2. CASE q.stage # "ok"
          BY <1>1, <2>8, <4>2 DEF Receive, Rest
        <4> QED BY <4>1, <4>2
      <3>2. q.given \in Given
        BY <1>1 DEF Requests
      <3>3. PICK r \in {Idle, [Idle EXCEPT !.stage = "asking", !.given = q.given]} :
              req' = [req EXCEPT ![v] = r]
        BY <2>8 DEF Receive
      <3>4. Sound(r, gone)
        BY <2>5, <3>2, <3>3, IdleSound
      <3>5. posts' = posts /\ visit' = visit
        BY <2>8 DEF Receive
      <3> QED BY <1>1, <1>2, <3>1, <3>3, <3>4, <3>5, OneGoes DEF Rest
    <2> QED BY <2>1, <2>3, <2>4, <2>6, <2>7, <2>8 DEF Page
  <1>4. Rest'
    BY <1>1, <1>3 DEF Rest, stores
  <1>5. AllSound'
    BY <1>2, <1>3 DEF AllSound
  <1> QED BY <1>2, <1>4, <1>5, Typed, PTL DEF Inv

\* The identity of the job that is being posted.
LEMMA LastIdentity ==
  ASSUME NEW r, NEW g, Base(r, g), r.jobs # <<>>
  PROVE  Identity(Last(r.jobs)) \in Urls \X ToSet(Pairs)
  <1>1. r.jobs \in Seq(Jobs)
    BY DEF Base, Requests
  <1>2. Last(r.jobs) \in Jobs
    BY <1>1 DEF Last
  <1>3. \A k \in DOMAIN Pairs : Pairs[k] \in ToSet(Pairs)
    BY DEF ToSet
  <1> QED BY <1>2, <1>3 DEF Identity, Jobs

\* A step of the handler or the end of a job.
LEMMA HandlerInv ==
  ASSUME Inv, Handler
  PROVE  Inv'
  <1>1. PICK v \in Visits :
          \/ \E u \in Urls : \E dump \in Dumps[u] :
               /\ req[v].stage = "resolve" /\ u = req[v].urls[Len(req[v].reads)]
               /\ Resolved(v, dump)
          \/ ResolveFails(v) \/ Overwritten(v) \/ Posted(v) \/ PostFails(v)
    BY DEF Handler
  <1> DEFINE q == req[v]
             All == Urls \X ToSet(Pairs)
  <1>2. /\ Stocked /\ Versioned /\ Rest /\ Sound(q, gone) /\ Base(q, gone)
        /\ req \in [Visits -> Requests] /\ UNCHANGED <<stores, form, visit, posts>>
    BY <1>1 DEF ResolveFails, Resolved, Overwritten, Posted, PostFails, Inv, AllSound, TypeOK,
                Rest, Sound
  <1>3. Stocked' /\ Versioned' /\ gone' = gone
    BY <1>2 DEF stores, Stocked, Versioned
  <1>4. live \subseteq All /\ done \subseteq All
    BY <1>2 DEF Rest
  <1>5. /\ live' \subseteq All /\ done' \subseteq All
        /\ \E r : Sound(r, gone) /\ req' = [req EXCEPT ![v] = r]
    <2>1. CASE ResolveFails(v)
      <3>1. /\ Asked(q, gone) /\ UNCHANGED <<live, done>>
            /\ req' = [req EXCEPT ![v] = Continue(Unresolved(q))]
        BY <1>2, <2>1 DEF ResolveFails, Sound
      <3> QED BY <1>2, <1>4, <3>1, UnresolvedSound
    <2>2. ASSUME NEW u \in Urls, NEW dump \in Dumps[u], q.stage = "resolve",
                 u = q.urls[Len(q.reads)], Resolved(v, dump)
          PROVE  /\ live' \subseteq All /\ done' \subseteq All
                 /\ \E r : Sound(r, gone) /\ req' = [req EXCEPT ![v] = r]
      <3> DEFINE more == Expand(q, Len(q.reads), ParseResolveOutput(dump))
                 s == Continue([q EXCEPT !.targets = @ \cup more])
      <3>1. Asked(q, gone) /\ UNCHANGED <<live, done>>
        BY <1>2, <2>2 DEF Resolved, Sound
      <3>2. req' = [req EXCEPT ![v] = s]
        BY <2>2 DEF Resolved
      <3>3. dump \in Dumps[q.urls[Len(q.reads)]]
        BY <2>2
      <3>4. Sound(s, gone)
        BY <1>2, <3>1, <3>3, ResolvedSound
      <3> QED BY <1>4, <3>1, <3>2, <3>4
    <2>3. CASE Overwritten(v)
      <3>1. /\ Ready(q, gone) /\ live' = live /\ done' \subseteq done
            /\ req' = [req EXCEPT ![v] = Advance(q, TRUE)]
        BY <1>2, <2>3 DEF Overwritten, Sound
      <3> QED BY <1>2, <1>4, <3>1, AdvanceSound
    <2>4. ASSUME Posted(v) \/ PostFails(v)
          PROVE  /\ live' \subseteq All /\ done' = done
                 /\ Covers(q) /\ LastIs(q, "posting")
      <3>1. Covers(q) /\ LastIs(q, "posting")
        BY <1>2, <2>4 DEF Sound, Posted, PostFails
      <3>2. Identity(Last(q.jobs)) \in All
        BY <1>2, <3>1, LastIdentity DEF LastIs
      <3> HIDE DEF All
      <3> QED BY <1>4, <2>4, <3>1, <3>2 DEF Posted, PostFails
    <2>5. CASE Posted(v)
      <3> DEFINE s == [q EXCEPT !.jobs = SetLast(q, "queued")]
      <3>1. Ready(s, gone)
        <4> HIDE DEF s
        <4> QED BY <1>2, <2>4, <2>5, LastJob DEF s
      <3>2. req' = [req EXCEPT ![v] = Advance(s, FALSE)]
        BY <1>2, <2>5 DEF Posted
      <3> HIDE DEF s
      <3>3. Sound(Advance(s, FALSE), gone)
        BY <1>2, <3>1, AdvanceSound
      <3> QED BY <1>4, <2>4, <2>5, <3>2, <3>3
    <2>6. CASE PostFails(v)
      <3>1. req' = [req EXCEPT ![v] = FailLast(q)]
        BY <2>6 DEF PostFails
      <3> QED BY <1>2, <1>4, <2>4, <2>6, <3>1, FailSound
    <2> QED BY <1>1, <2>1, <2>2, <2>3, <2>5, <2>6
  <1>6. req' \in [Visits -> Requests] /\ AllSound'
    BY <1>3, <1>5, OneGoes DEF AllSound
  <1>7. Rest'
    BY <1>2, <1>5, <1>6 DEF Rest, stores
  <1> QED BY <1>3, <1>6, <1>7, Typed, PTL DEF Inv

\* The end of a job.
LEMMA EndsInv ==
  ASSUME Inv, NEW identity \in live, Ends(identity)
  PROVE  Inv'
  <1>1. /\ UNCHANGED <<binding, jars, edits, gone, form, visit, req, posts>>
        /\ live' \subseteq live /\ done' \subseteq done \cup live
    BY DEF Ends, stores, pageVars
  <1>2. Stocked' /\ Versioned' /\ Rest' /\ AllSound'
    BY <1>1 DEF Inv, AllSound, TypeOK, Rest, Stocked, Versioned
  <1> QED BY <1>2, Typed, PTL DEF Inv

LEMMA InvNext == Inv /\ [Next]_vars => Inv'
  <1> SUFFICES ASSUME Inv, [Next]_vars PROVE Inv'
    OBVIOUS
  <1>1. CASE Next
    BY <1>1, StoresInv, PageInv, HandlerInv, EndsInv DEF Next
  <1>2. CASE UNCHANGED vars
    <2>1. UNCHANGED <<binding, jars, edits, gone, form, visit, req, live, done, posts>>
      BY <1>2 DEF vars, stores, pageVars
    <2>2. Stocked' /\ Versioned' /\ Rest' /\ AllSound'
      BY <2>1 DEF Inv, AllSound, TypeOK, Rest, Stocked, Versioned
    <2> QED BY <2>2, Typed, PTL DEF Inv
  <1> QED BY <1>1, <1>2

LEMMA Invariance == Spec => []Inv
  BY InvInit, InvNext, PTL DEF Spec

-----------------------------------------------------------------------------
(* The results.                                                            *)

\* The stores and the requests keep their shape, whatever yt-dlp answers, and the
\* loop that creates the jobs never looks for the fallbacks of a URL that was
\* not resolved (route.ts:198-246).
THEOREM TypeCorrect == Spec => []TypeOK
  <1>1. Inv => TypeOK
    BY DEF Inv
  <1> QED BY <1>1, Invariance, PTL

\* yt-dlp is never given the cookies or credentials of a domain that is neither
\* the URL's nor that of the URL it was submitted as, nor those of two bindings
\* at once, for any number of domains and URLs (route.ts:178-217, 304-312).
THEOREM CredentialsCorrect == Spec => []CredentialsFit
  <1>1. Inv => CredentialsFit
    BY DEF Inv, AllSound, Sound, Base, Good, CredentialsFit, Calls
  <1> QED BY <1>1, Invariance, PTL

\* A credential that was replaced or deleted is in no call of a request made
\* afterwards, however the edits and the resolves interleave (route.ts:180).
THEOREM RetiredCorrect == Spec => []NoneRetired
  <1>1. Inv => NoneRetired
    BY DEF Inv, AllSound, Sound, Base, Good, NoneRetired, Calls
  <1> QED BY <1>1, Invariance, PTL

\* A request that was answered accounts for each target and each pair: a queued
\* job, a skip, or the answer that says it failed (route.ts:246-363).
THEOREM AccountedCorrect == Spec => []Accounted
  <1>1. Inv => Accounted
    <2> SUFFICES ASSUME Inv, NEW v \in Visits PROVE Accounts(req[v])
      BY DEF Accounted
    <2> DEFINE r == req[v]
    <2>1. Sound(r, gone)
      BY DEF Inv, AllSound
    <2>2. ASSUME r.stage = "ok"
          PROVE  /\ \A job \in ToSet(r.jobs) : job.state = "queued"
                 /\ {Identity(c) : c \in ToSet(r.jobs) \cup r.skipped}
                      = {<<t.url, p>> : t \in r.targets, p \in ToSet(Pairs)}
      <3>1. Covers(r) /\ AllQueued(r) /\ r.todo = {}
        BY <2>1, <2>2 DEF Sound, Ready
      <3>2. ToSet(r.jobs) \cup r.skipped = ToSet(r.jobs) \cup r.skipped \cup r.todo
        BY <3>1
      <3>3. \A job \in ToSet(r.jobs) : job.state = "queued"
        BY <3>1 DEF AllQueued, ToSet
      <3> QED BY <3>1, <3>2, <3>3 DEF Covers
    <2>3. r.stage = "conflict" => r.jobs = <<>>
      BY <2>1 DEF Sound
    <2>4. r.stage = "error" =>
            \A k \in DOMAIN r.jobs :
              r.jobs[k].state = IF k = Len(r.jobs) THEN "failed" ELSE "queued"
      <3>1. DOMAIN <<>> = {}
        OBVIOUS
      <3> QED BY <2>1, <3>1 DEF Sound, LastIs
    <2> QED BY <2>2, <2>3, <2>4 DEF Accounts
  <1> QED BY <1>1, Invariance, PTL

\* When the page has handled a 201, its own or that of a visit that was left, the
\* URLs in the text area are exactly those of the request of which no target came:
\* none is lost, none is sent twice (queue/page.tsx:247-255).
THEOREM StayCorrect == Spec => FailedStay
  <1>1. Inv /\ [Next]_vars =>
          [\A v \in Visits :
             req[v].stage = "ok" /\ req'[v].stage # "ok" => ToSet(form') = Unsent(req[v])]_vars
    <2> SUFFICES ASSUME Inv, [Next]_vars, NEW v \in Visits,
                        req[v].stage = "ok", req'[v].stage # "ok"
                 PROVE  ToSet(form') = Unsent(req[v])
      OBVIOUS
    <2> DEFINE r == req[v]
    <2>1. req \in [Visits -> Requests] /\ visit \in Visits
      BY DEF Inv, TypeOK
    <2>2. Receive(v)
      <3>1. req' # req
        OBVIOUS
      <3>2. ASSUME NEW w \in Visits, req[w].stage # "ok" \/ w # v,
                   \E q : req' = [req EXCEPT ![w] = q]
            PROVE  FALSE
        BY <2>1, <3>2
      <3>3. ~ Stores /\ \A identity \in live : ~ Ends(identity)
        BY <3>1 DEF Stores, SaveBinding, DeleteBinding, WriteCookieFile, DeleteCookieFile, Ends,
                    pageVars
      <3>4. ~ Handler
        BY <2>1, <3>2 DEF Handler, Resolved, ResolveFails, Overwritten, Posted, PostFails
      <3>5. Page
        BY <3>1, <3>3, <3>4 DEF Next, vars, pageVars
      <3> QED BY <2>1, <3>1, <3>2, <3>5 DEF Page, Type, Submit, Confirm, Post, Dismiss, Reopen, Receive
    <2>3. Base(r, gone) /\ Covers(r)
      BY DEF Inv, AllSound, Sound, Ready
    <2>4. /\ DOMAIN r.reads = DOMAIN r.urls /\ DOMAIN r.urls = 1 .. Len(r.urls)
      BY <2>3, ReadTypes DEF Covers
    <2>5. {n \in DOMAIN r.urls : \A t \in r.targets : t.from # n} = ToSet(r.failed)
      <3>1. ToSet(r.failed) \subseteq DOMAIN r.urls
        BY <2>3, <2>4 DEF Base
      <3>2. \A i \in DOMAIN r.urls : i \in ToSet(r.failed) \/ \E t \in r.targets : t.from = i
        BY <2>3, <2>4 DEF Covers, Settled
      <3>3. \A t \in r.targets : t.from \notin ToSet(r.failed)
        BY <2>3 DEF Base
      <3> QED BY <3>1, <3>2, <3>3
    <2>6. form' = [n \in DOMAIN r.failed |-> r.urls[r.failed[n]]]
      BY <2>2 DEF Receive, Kept
    <2>7. ToSet(form') = {r.urls[i] : i \in ToSet(r.failed)}
      <3>1. DOMAIN form' = DOMAIN r.failed
        BY <2>6
      <3>2. \A n \in DOMAIN r.failed : form'[n] = r.urls[r.failed[n]]
        BY <2>6
      <3> QED BY <3>1, <3>2 DEF ToSet
    <2> QED BY <2>5, <2>7 DEF Unsent
  <1> QED BY <1>1, Invariance, PTL DEF Spec, FailedStay
=============================================================================
