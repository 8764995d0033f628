------------------------------ MODULE Enqueue ------------------------------
(***************************************************************************)
(* From the queue page to the downloader: the form of queue/page.tsx, POST *)
(* /api/jobs (api/jobs/route.ts) with the credentials and cookies it looks *)
(* up per domain (auth.ts, cookies.ts), POST /resolve and POST /jobs of    *)
(* the downloader, while the credentials and cookies pages change what is  *)
(* stored.                                                                 *)
(*                                                                         *)
(* A credential is known by where it comes from: <<domain, version>>, the  *)
(* version being the number of the edit that stored it.  The handler runs  *)
(* from one await to the next in one action.                               *)
(***************************************************************************)
EXTENDS Naturals, FiniteSets, SequencesExt

CONSTANTS
  Urls,      \* what is submitted, and what a playlist or a short link leads to
  Domains,
  Chain,     \* the domains a URL matches, its host first, then the parents
  Dumps,     \* what yt-dlp may print when it resolves a URL
  Fields,    \* the credentials: user name, password, ...
  Secrets,   \* what the user gives with a request: see Given
  Lists,     \* the URL lists the user may type
  Stored,    \* what is stored to begin with, as edit 1, and downloaded
  Pairs,     \* the selected <format, container> pairs, in order
  MaxEdits,  \* bound: changes to the stored credentials and cookies
  Visits,    \* bound: slots for visits of the page whose request is under way
  MaxPosts,  \* bound: requests of the page
  Form, Extra, \* credentials of the form, and those in the advanced arguments
  None

ASSUME EnqueueAssumption ==
  /\ Chain \in [Urls -> Seq(Domains)]
  /\ Dumps \in [Urls -> SUBSET [entries : Seq(Urls \cup {None}), page : Urls \cup {None}]]
  /\ Secrets \subseteq [form : SUBSET Fields, extra : SUBSET Fields]
  /\ Lists \subseteq Seq(Urls)
  /\ Pairs \in Seq(ToSet(Pairs))
  /\ Stored \subseteq [binding : [Domains -> [Fields -> {0, 1}] \cup {None}],
                      jars : SUBSET Domains, done : SUBSET (Urls \X ToSet(Pairs))]
  /\ MaxEdits \in Nat \ {0} /\ MaxPosts \in Nat
  /\ Form # Extra /\ None \notin Domains \cup {Form, Extra} \cup Urls
  /\ {Form, Extra} \cap Domains = {}

VARIABLES
  binding, \* auth_bindings: per domain None, or the version of each field (0: NULL)
  jars,    \* the domains with a cookies file
  edits,   \* changes to the two so far
  gone,    \* <<domain, field, version>> that were replaced or deleted
  form,    \* the URLs in the text area, which the tab store keeps
  visit,   \* the visit of the page that the user is on
  req,     \* the request of each visit: see Idle
  live,    \* the identities, <<url, pair>>, of the downloader's unfinished jobs
  done,    \* those of the completed rows
  posts    \* requests so far

stores == <<binding, jars, edits, gone>>
pageVars == <<form, visit, req>>
vars == <<stores, pageVars, live, done, posts>>

\* What a request carries of its own.
Given == [form : SUBSET Fields, extra : SUBSET Fields]
Resolutions == {"append", "overwrite", "save-as", "cancel"}
Versions == 0 .. MaxEdits
Source == (Domains \cup {Form, Extra, None}) \X Versions
Found == [of : Domains, fields : [Fields -> Versions]] \cup {None}

-----------------------------------------------------------------------------
(* Looking up what is stored for a URL.                                    *)

\* resolveCookiesFile: the first domain of the chain that has a file.
ResolveCookiesFile(url) ==
  LET i == SelectInSeq(Chain[url], LAMBDA d : d \in jars)
  IN IF i = 0 THEN None ELSE Chain[url][i]

\* resolveAuthBinding, in the same way; a row of NULLs is found too.
ResolveAuthBinding(url) ==
  LET i == SelectInSeq(Chain[url], LAMBDA d : binding[d] # None)
  IN IF i = 0 THEN None ELSE [of |-> Chain[url][i], fields |-> binding[Chain[url][i]]]

\* mergeAuth: the form's fields over those of the binding.
MergeAuth(found, override) ==
  [f \in Fields |->
    IF f \in override THEN <<Form, 0>>
    ELSE IF found # None /\ found.fields[f] # 0 THEN <<found.of, found.fields[f]>>
    ELSE <<None, 0>>]

\* appendAuthArgs, and the user's arguments after it: the last one counts.
Argv(auth, extra) == [f \in Fields |-> IF f \in extra THEN <<Extra, 0>> ELSE auth[f]]

Or(x, y) == IF x # None THEN x ELSE y

-----------------------------------------------------------------------------
(* The request.                                                            *)

\* What identifies a download (findExistingByIdentity).
Identity(c) == <<c.url, Pairs[c.pair]>>

\* A target: the submitted URL, by index, whose fallbacks it carries, and its
\* place in the playlist.
Target(url, i, k) == [url |-> url, from |-> i, nth |-> k]

\* The order in which the combos, targets with the index of a pair, are tried.
Before(c, d) ==
  \/ c.from < d.from
  \/ c.from = d.from /\ c.nth < d.nth
  \/ c.from = d.from /\ c.nth = d.nth /\ c.pair <= d.pair

First(combos) == CHOOSE c \in combos : \A d \in combos : Before(c, d)

Idle == [stage |-> "idle", urls |-> <<>>, given |-> [form |-> {}, extra |-> {}],
         choice |-> None, reads |-> <<>>, asked |-> {}, targets |-> {},
         failed |-> <<>>, todo |-> {}, skipped |-> {}, jobs |-> <<>>,
         gone |-> {}]

\* parseResolveOutput: entries without a URL are dropped, and a playlist that
\* is left with none is taken for a single video.
ParseResolveOutput(dump) ==
  LET entries == {k \in DOMAIN dump.entries : dump.entries[k] # None}
  IN [isPlaylist |-> entries # {}, entries |-> entries, urls |-> dump.entries,
      canonical |-> IF dump.entries = <<>> THEN dump.page ELSE None]

\* The targets of the i-th URL.
Expand(r, i, res) ==
  IF res.isPlaylist THEN {Target(res.urls[k], i, k) : k \in res.entries}
  ELSE {Target(Or(res.canonical, r.urls[i]), i, 1)}

\* buildResolveArgs: what yt-dlp is given to resolve a URL.
BuildResolveArgs(url, read, given) ==
  [url |-> url, sub |-> url, jar |-> read.jar,
   auth |-> Argv(MergeAuth(read.found, given.form), given.extra)]

\* The URL's cookies and binding, read before the call that resolves it.
Ask(r) ==
  LET url == r.urls[Len(r.reads) + 1]
      read == [jar |-> ResolveCookiesFile(url), found |-> ResolveAuthBinding(url)]
  IN [r EXCEPT !.stage = "resolve", !.reads = Append(@, read),
               !.asked = @ \cup {BuildResolveArgs(url, read, r.given)}]

\* Mutant: a target falls back on what the last URL was resolved with.
LastFallback(r, c) == Last(r.reads)

\* What the submitted URL of a combo was resolved with.
Fallback(r, c) == r.reads[c.from]

\* The job of a combo: its own URL's cookies and binding first.
Job(r, c) ==
  LET jar == Or(ResolveCookiesFile(c.url), Fallback(r, c).jar)
      found == Or(ResolveAuthBinding(c.url), Fallback(r, c).found)
  IN [url |-> c.url, sub |-> r.urls[c.from], pair |-> c.pair, jar |-> jar,
      auth |-> Argv(MergeAuth(found, r.given.form), r.given.extra), state |-> "posting"]

\* The loop up to its next await: the delete of an overwrite, or postJob.
Advance(r, deleted) ==
  LET c == First(r.todo) IN
  IF r.todo = {} THEN [r EXCEPT !.stage = "ok"]
  ELSE IF ~deleted /\ c.existing /\ r.choice = "overwrite"
  THEN [r EXCEPT !.stage = "overwrite"]
  ELSE [r EXCEPT !.stage = "post", !.todo = @ \ {c}, !.jobs = Append(@, Job(r, c))]

Combo(t, k) ==
  [url |-> t.url, from |-> t.from, nth |-> t.nth, pair |-> k,
   existing |-> <<t.url, Pairs[k]>> \in done]

\* All is resolved: the combos, the conflicts, the first insert.
Match(r) ==
  LET combos == {Combo(t, k) : t \in r.targets, k \in DOMAIN Pairs}
      clash == {c \in combos : c.existing}
      skipped == IF r.choice = "cancel" THEN clash ELSE {}
  IN IF combos = {} THEN [r EXCEPT !.stage = "error"]
     ELSE IF clash # {} /\ r.choice = None THEN [r EXCEPT !.stage = "conflict"]
     ELSE Advance([r EXCEPT !.todo = combos \ skipped, !.skipped = skipped], FALSE)

\* The handler after a URL: the next one, or the combos.
Continue(r) == IF Len(r.reads) < Len(r.urls) THEN Ask(r) ELSE Match(r)

\* postJobs: the page sends what is in the text area.
Post(given, choice) ==
  /\ posts < MaxPosts /\ posts' = posts + 1
  /\ form # <<>>
  /\ req' = [req EXCEPT ![visit] =
              Ask([Idle EXCEPT !.urls = form, !.given = given, !.choice = choice,
                               !.gone = gone])]
  /\ UNCHANGED <<stores, form, visit, live, done>>

-----------------------------------------------------------------------------
(* The page.                                                               *)

\* The text area is not disabled while a request is under way; the dialog that
\* asks about conflicts covers it until it is closed.
Type(list) ==
  /\ req[visit].stage # "asking" /\ form # list
  /\ posts < MaxPosts
  /\ form' = list
  /\ UNCHANGED <<stores, visit, req, live, done, posts>>

\* onSubmit.
Submit(given) == req[visit].stage = "idle" /\ Post(given, None)

\* onResolveConfirm: the whole request again, with the choice.
Confirm(choice) == req[visit].stage = "asking" /\ Post(req[visit].given, choice)

\* The dialog is closed.
Dismiss ==
  /\ req[visit].stage = "asking"
  /\ req' = [req EXCEPT ![visit] = Idle]
  /\ UNCHANGED <<stores, form, visit, live, done, posts>>

\* The page is left, its dialog with it, and opened again: "submitting" is
\* forgotten, the text area is not, and a request under way goes on.
Reopen(v) ==
  /\ v # visit /\ req[v].stage = "idle" /\ req[visit].stage # "idle"
  /\ visit' = v
  /\ req' = IF req[visit].stage = "asking" THEN [req EXCEPT ![visit] = Idle] ELSE req
  /\ UNCHANGED <<stores, form, live, done, posts>>

\* Mutant: the text area is emptied whatever the answer names as failed.
Clears(r) == <<>>

\* What stays in the text area: the URLs that could not be resolved.
Kept(r) == [n \in DOMAIN r.failed |-> r.urls[r.failed[n]]]

\* The page handles the answer: 201, 409 or an error, which leaves the dialog
\* open if it is the answer to a choice.  A page that was left only sets the text.
Receive(v) ==
  /\ req[v].stage \in {"ok", "conflict", "error"}
  /\ form' = IF req[v].stage = "ok" THEN Kept(req[v]) ELSE form
  /\ LET asks == \/ req[v].stage = "conflict"
                 \/ req[v].stage = "error" /\ req[v].choice # None
     IN req' = [req EXCEPT ![v] =
          IF v = visit /\ asks THEN [Idle EXCEPT !.stage = "asking", !.given = req[v].given]
          ELSE Idle]
  /\ UNCHANGED <<stores, visit, live, done, posts>>

-----------------------------------------------------------------------------
(* The downloader's answers.                                               *)

\* Mutant: a URL that cannot be resolved is downloaded as it is.
AsItIs(r) ==
  [r EXCEPT !.failed = Append(@, Len(r.reads)),
            !.targets = @ \cup {Target(Last(r.urls), Len(r.reads), 1)}]

\* It is reported as failed, and may be a playlist for all the handler knows.
Unresolved(r) == [r EXCEPT !.failed = Append(@, Len(r.reads))]

\* POST /resolve fails: yt-dlp did, it took longer than 90 s, or the cookies
\* file is gone.
ResolveFails(v) ==
  /\ req[v].stage = "resolve"
  /\ req' = [req EXCEPT ![v] = Continue(Unresolved(@))]
  /\ UNCHANGED <<stores, form, visit, live, done, posts>>

\* It succeeds, the cookies having been copied when it began.
Resolved(v, dump) ==
  /\ req[v].stage = "resolve"
  /\ LET more == Expand(req[v], Len(req[v].reads), ParseResolveOutput(dump))
     IN req' = [req EXCEPT ![v] = Continue([req[v] EXCEPT !.targets = @ \cup more])]
  /\ UNCHANGED <<stores, form, visit, live, done, posts>>

\* The row that was found is deleted, if it still exists; another completed one
\* of its identity stays.  See Library for what becomes of the file.
Overwritten(v) ==
  /\ req[v].stage = "overwrite"
  /\ done' \in {done, done \ {Identity(First(req[v].todo))}}
  /\ req' = [req EXCEPT ![v] = Advance(@, TRUE)]
  /\ UNCHANGED <<stores, form, visit, live, posts>>

SetLast(r, state) == [r.jobs EXCEPT ![Len(r.jobs)].state = state]

\* The downloader took the job.
Posted(v) ==
  /\ req[v].stage = "post"
  /\ req' = [req EXCEPT ![v] = Advance([@ EXCEPT !.jobs = SetLast(req[v], "queued")], FALSE)]
  /\ live' = live \cup {Identity(Last(req[v].jobs))}
  /\ UNCHANGED <<stores, form, visit, done, posts>>

\* Mutant: the row of a job that was refused stays as it was inserted.
LeaveLast(r) == [r EXCEPT !.stage = "error", !.jobs = SetLast(r, "queued")]

\* The row is marked failed, and the rest of the combos are not tried.
FailLast(r) == [r EXCEPT !.stage = "error", !.jobs = SetLast(r, "failed")]

\* postJob throws: the job was refused, or the answer that it was taken is lost.
PostFails(v) ==
  /\ req[v].stage = "post"
  /\ req' = [req EXCEPT ![v] = FailLast(@)]
  /\ live' \in {live, live \cup {Identity(Last(req[v].jobs))}}
  /\ UNCHANGED <<stores, form, visit, done, posts>>

\* A job ends: the row is completed, and its identity in use, or it is not.
Ends(identity) ==
  /\ live' = live \ {identity}
  /\ done' \in {done, done \cup {identity}}
  /\ UNCHANGED <<stores, pageVars, posts>>

-----------------------------------------------------------------------------
(* The credentials and cookies pages.                                      *)

Edit == edits < MaxEdits /\ edits' = edits + 1

NoFields == [f \in Fields |-> 0]

Retire(d, fields) ==
  gone' = gone \cup {<<d, f, Or(binding[d], NoFields)[f]>> : f \in fields}

\* Mutant: what the row holds goes over what is given.
KeepRow(old, patch) == [f \in Fields |-> IF f \in patch /\ old[f] = 0 THEN edits' ELSE old[f]]

\* upsertAuthBinding: the fields given are replaced, the others stay.
Upsert(old, patch) == [f \in Fields |-> IF f \in patch THEN edits' ELSE old[f]]

\* PUT /api/auth/:domain; the page sends the fields that are not blank.
SaveBinding(d, patch) ==
  /\ Edit
  /\ binding' = [binding EXCEPT ![d] = Upsert(Or(@, NoFields), patch)]
  /\ Retire(d, patch)
  /\ UNCHANGED <<jars, pageVars, live, done, posts>>

\* DELETE /api/auth/:domain.
DeleteBinding(d) ==
  /\ Edit /\ binding[d] # None
  /\ binding' = [binding EXCEPT ![d] = None]
  /\ Retire(d, Fields)
  /\ UNCHANGED <<jars, pageVars, live, done, posts>>

\* POST /api/cookies.
WriteCookieFile(d) ==
  /\ Edit /\ d \notin jars
  /\ jars' = jars \cup {d}
  /\ UNCHANGED <<binding, gone, pageVars, live, done, posts>>

\* DELETE /api/cookies/:domain.
DeleteCookieFile(d) ==
  /\ Edit /\ d \in jars
  /\ jars' = jars \ {d}
  /\ UNCHANGED <<binding, gone, pageVars, live, done, posts>>

Init ==
  /\ \E kept \in Stored : binding = kept.binding /\ jars = kept.jars /\ done = kept.done
  /\ edits = 1 /\ gone = {}
  /\ form = <<>> /\ visit \in Visits /\ req = [v \in Visits |-> Idle]
  /\ live = {} /\ posts = 0

Stores ==
  \E d \in Domains :
    \/ \E patch \in SUBSET Fields : SaveBinding(d, patch)
    \/ DeleteBinding(d) \/ WriteCookieFile(d) \/ DeleteCookieFile(d)

Page ==
  \/ \E list \in Lists : Type(list)
  \/ \E given \in Secrets : Submit(given)
  \/ \E choice \in Resolutions : Confirm(choice)
  \/ Dismiss
  \/ \E v \in Visits : Reopen(v) \/ Receive(v)

Handler ==
  \E v \in Visits :
    \/ \E u \in Urls : \E dump \in Dumps[u] :
         req[v].stage = "resolve" /\ u = req[v].urls[Len(req[v].reads)] /\ Resolved(v, dump)
    \/ ResolveFails(v) \/ Overwritten(v) \/ Posted(v) \/ PostFails(v)

Next == Stores \/ Page \/ Handler \/ (\E identity \in live : Ends(identity))

Spec == Init /\ [][Next]_vars

-----------------------------------------------------------------------------

Calling == [url : Urls, sub : Urls, jar : Domains \cup {None}, auth : [Fields -> Source]]
Jobs == [url : Urls, sub : Urls, pair : DOMAIN Pairs, jar : Domains \cup {None},
         auth : [Fields -> Source], state : {"posting", "queued", "failed"}]
Indices == Nat \ {0}
Targets == [url : Urls, from : Indices, nth : Indices]
Combos == [url : Urls, from : Indices, nth : Indices, pair : DOMAIN Pairs, existing : BOOLEAN]
Stages == {"idle", "resolve", "overwrite", "post", "ok", "conflict", "error", "asking"}
Requests ==
  [stage : Stages, urls : Seq(Urls), given : Given, choice : Resolutions \cup {None},
   reads : Seq([jar : Domains \cup {None}, found : Found]), asked : SUBSET Calling,
   targets : SUBSET Targets, failed : Seq(Indices), todo : SUBSET Combos,
   skipped : SUBSET Combos, jobs : Seq(Jobs), gone : SUBSET (Domains \X Fields \X Versions)]

\* The stores and the requests keep their shape, and a combo still to be created
\* carries the fallbacks of a URL that was resolved (route.ts:198-246).
TypeOK ==
  /\ binding \in [Domains -> [Fields -> Versions] \cup {None}]
  /\ jars \subseteq Domains /\ edits \in Versions /\ posts \in 0 .. MaxPosts
  /\ gone \subseteq Domains \X Fields \X Versions
  /\ form \in Seq(Urls) /\ visit \in Visits /\ req \in [Visits -> Requests]
  /\ \A v \in Visits : \A c \in req[v].todo :
       c.from \in DOMAIN req[v].reads \ ToSet(req[v].failed)
  /\ live \cup done \subseteq Urls \X ToSet(Pairs)

Calls(r) == r.asked \cup ToSet(r.jobs)
Known(call) == ToSet(Chain[call.url]) \cup ToSet(Chain[call.sub])
StoredIn(call) == {call.auth[f] : f \in Fields} \ ({Form, Extra, None} \X Versions)

\* yt-dlp is given credentials of one stored binding only, and cookies and
\* credentials of no domain but those of the URL itself and of the submitted URL
\* it came from, however many URLs a request resolves (route.ts:178-217, 304-312).
CredentialsFit ==
  \A v \in Visits : \A call \in Calls(req[v]) :
    /\ call.jar \in Known(call) \cup {None}
    /\ \E d \in Known(call) \cup {None} : \A s \in StoredIn(call) : s[1] = d

\* Once the save or the delete of a credential was answered, no request made
\* after it uses the old one; a request under way may, as the fallback it read
\* before it waited for the resolve (route.ts:180).
NoneRetired ==
  \A v \in Visits : \A call \in Calls(req[v]) : \A f \in Fields :
    <<call.auth[f][1], f, call.auth[f][2]>> \notin req[v].gone

\* A request that was answered accounts for all it was asked.  201: each target
\* has a queued job for each pair or was skipped.  409: no job.  Else: all jobs
\* but the last are queued, and the last has failed.
Accounts(r) ==
  /\ r.stage = "ok" =>
       /\ \A job \in ToSet(r.jobs) : job.state = "queued"
       /\ {Identity(c) : c \in ToSet(r.jobs) \cup r.skipped}
            = {<<t.url, p>> : t \in r.targets, p \in ToSet(Pairs)}
  /\ r.stage = "conflict" => r.jobs = <<>>
  /\ r.stage = "error" =>
       \A k \in DOMAIN r.jobs :
         r.jobs[k].state = IF k = Len(r.jobs) THEN "failed" ELSE "queued"

\* So does each of the requests that are under way at once.
Accounted == \A v \in Visits : Accounts(req[v])

\* The URLs of which no target came.
Unsent(r) == {r.urls[i] : i \in {n \in DOMAIN r.urls : \A t \in r.targets : t.from # n}}

\* No URL of the request is forgotten, nor sent twice: when the page has handled
\* its 201, the URLs in the text area are those which have no job and were not
\* skipped (queue/page.tsx:247-255).
FailedStay ==
  [][\A v \in Visits :
       req[v].stage = "ok" /\ req'[v].stage # "ok" => ToSet(form') = Unsent(req[v])]_vars
=============================================================================
