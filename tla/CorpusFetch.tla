------------------------------ MODULE CorpusFetch ------------------------------
(***************************************************************************)
(* Capture of web pages into the vulnerability corpus: corpus.py add-url   *)
(* and fetch.  Scouts run `fetch` side by side over one SQLite database.   *)
(* A fetch vets every address it is about to ask for (blocked hosts,       *)
(* robots.txt), follows redirects by hand, records one row per attempt,    *)
(* and climbs a ladder when a page has no readable text: http, headless    *)
(* browser, one headed attempt.  No lease keeps two scouts off one URL,    *)
(* and a scout may be killed between any two of its transactions.          *)
(***************************************************************************)
EXTENDS Naturals, FiniteSets

CONSTANTS
  Urls,          \* normalized addresses
  Hosts,
  HostOf,        \* the host of each address
  Scouts,        \* processes that run corpus.py fetch
  Patterns,      \* robots.txt paths
  Matches,       \* the addresses each of them matches
  Length,        \* its length
  Texts,         \* the robots.txt files servers hand out
  NoText,        \* a host whose robots.txt has not been read
  MAX_REDIRECTS,
  MaxRuns,       \* bound: fetch commands
  MaxChanges,    \* bound: changes of a robots.txt and expiries of a copy
  MaxKills       \* bound: killed commands

Rules == [pattern : Patterns, allow : BOOLEAN]
(* named: there is a group for this crawler beside the one for everybody. *)
RobotsTexts == [named : BOOLEAN, token : SUBSET Rules, star : SUBSET Rules]

ASSUME UrlAssumption == Urls # {} /\ HostOf \in [Urls -> Hosts]
AnyUrl == CHOOSE u \in Urls : TRUE
ASSUME RobotsAssumption ==
  /\ Matches \in [Patterns -> SUBSET Urls] /\ Length \in [Patterns -> Nat]
  /\ Texts \subseteq RobotsTexts /\ Texts # {}
  /\ NoText \notin RobotsTexts
ASSUME FetchBoundAssumption ==
  MAX_REDIRECTS \in Nat /\ MaxRuns \in Nat /\ MaxChanges \in Nat /\ MaxKills \in Nat

(* "none": not in the frontier. *)
UrlStates == {"none", "new", "fetched", "blocked", "failed"}
Outcomes == {"ok", "blocked", "not_found", "error", "too_large"}
Methods == {"http", "headless", "headed"}

(* What the corpus keeps of a capture: whether it has THIN_TEXT readable     *)
(* characters.                                                               *)
Pages == {"readable", "thin", "none"}

HostRow == [known : BOOLEAN, blocked : BOOLEAN,
            text : Texts \cup {NoText}, fresh : BOOLEAN]
FetchRow == [run : 1..MaxRuns, url : Urls, method : Methods,
             outcome : Outcomes, page : Pages]

Stages == {"idle", "vet", "robots", "store", "request", "record",
           "headless", "headed", "record_browser"}
Scout == [stage : Stages, run : 0..MaxRuns, url : Urls, hop : Urls,
          seen : SUBSET Urls, text : Texts \cup {NoText},
          method : Methods, outcome : Outcomes, page : Pages, spent : BOOLEAN]

VARIABLES
  urls,       \* urls.state
  hosts,      \* hosts: state, robots_txt, and whether robots_at is under a day old
  fetches,    \* fetches: one row per recorded attempt
  scout,      \* per process: the local variables of cmd_fetch
  site,       \* per host: the robots.txt it serves
  served,     \* history: what it served since the last copy expired
  requests,   \* history: the addresses asked for, by whom, and whether robots.txt allowed it
  headedRuns, \* history: headed attempts started, per URL
  disturbed,  \* history: URLs two scouts fetched at once, or on which one was killed
  ended,      \* history: URLs on which a fetch ran to its end
  runs, changes, kills

vars == <<urls, hosts, fetches, scout, site, served, requests, headedRuns,
          disturbed, ended, runs, changes, kills>>
history == <<served, requests, headedRuns, disturbed, ended>>
-------------------------------------------------------------------------------
(* RFC 9309: the group for our token, else `*`; the longest matching rule    *)
(* wins and Allow beats Disallow on a tie.                                   *)
Group(t) == IF t.named THEN t.token ELSE t.star

robots_permit(t, u) ==
  LET hits == {r \in Group(t) : u \in Matches[r.pattern]} IN
  hits # {} =>
    \E r \in hits : /\ r.allow
                    /\ \A q \in hits : Length[q.pattern] <= Length[r.pattern]

(* What a request rests on: a text its host served within the day permits it.  *)
(* The tool asks for an address; a page the browser shows sends it elsewhere.  *)
Request(by, u) ==
  [by |-> by, url |-> u, allowed |-> \E t \in served[HostOf[u]] : robots_permit(t, u)]
-------------------------------------------------------------------------------
(* The frontier and the web.                                                 *)

add_url(u) ==
  /\ urls[u] = "none"
  /\ urls' = [urls EXCEPT ![u] = "new"]
  /\ hosts' = [hosts EXCEPT ![HostOf[u]].known = TRUE]
  /\ UNCHANGED <<fetches, scout, site, history, runs, changes, kills>>

(* A person blocks a host. *)
BlockHost(h) ==
  /\ hosts[h].known /\ ~hosts[h].blocked
  /\ changes < MaxChanges /\ changes' = changes + 1
  /\ hosts' = [hosts EXCEPT ![h].blocked = TRUE]
  /\ UNCHANGED <<urls, fetches, scout, site, history, runs, kills>>

SiteChanges(h) ==
  /\ changes < MaxChanges /\ changes' = changes + 1
  /\ \E t \in Texts \ {site[h]} :
       /\ site' = [site EXCEPT ![h] = t]
       /\ served' = [served EXCEPT ![h] = @ \cup {t}]
  /\ UNCHANGED <<urls, hosts, fetches, scout, requests, headedRuns, disturbed,
                 ended, runs, kills>>

(* A copy of robots.txt gets a day old; a fetch takes minutes. *)
CopyExpires(h) ==
  /\ \A s \in Scouts : scout[s].stage = "idle"
  /\ hosts[h].fresh
  /\ changes < MaxChanges /\ changes' = changes + 1
  /\ hosts' = [hosts EXCEPT ![h].fresh = FALSE]
  /\ served' = [served EXCEPT ![h] = {site[h]}]
  /\ UNCHANGED <<urls, fetches, scout, site, requests, headedRuns, disturbed,
                 ended, runs, kills>>
-------------------------------------------------------------------------------
(* cmd_fetch.                                                                *)

At(s, stage) == scout[s].stage = stage
Idle == [stage |-> "idle", run |-> 0, url |-> AnyUrl, hop |-> AnyUrl, seen |-> {},
         text |-> NoText, method |-> "http", outcome |-> "error",
         page |-> "none", spent |-> FALSE]

(* Mutant of Begin: only a fetched URL is left alone. *)
BeginBlocked(s, u) ==
  /\ At(s, "idle") /\ runs < MaxRuns
  /\ urls[u] \in {"new", "failed", "blocked"} /\ ~hosts[HostOf[u]].blocked
  /\ runs' = runs + 1
  /\ scout' = [scout EXCEPT ![s] =
                 [Idle EXCEPT !.stage = "vet", !.run = runs + 1,
                              !.url = u, !.hop = u, !.seen = {u}]]
  /\ disturbed' = IF \E q \in Scouts : ~At(q, "idle") /\ scout[q].url = u
                    THEN disturbed \cup {u} ELSE disturbed
  /\ UNCHANGED <<urls, hosts, fetches, site, served, requests, headedRuns, ended,
                 changes, kills>>

(* A URL that is fetched or blocked, or whose host is blocked, is not fetched: *)
(* the command ends without a trace.                                           *)
Begin(s, u) ==
  /\ At(s, "idle") /\ runs < MaxRuns
  /\ urls[u] \in {"new", "failed"} /\ ~hosts[HostOf[u]].blocked
  /\ runs' = runs + 1
  /\ scout' = [scout EXCEPT ![s] =
                 [Idle EXCEPT !.stage = "vet", !.run = runs + 1,
                              !.url = u, !.hop = u, !.seen = {u}]]
  /\ disturbed' = IF \E q \in Scouts : ~At(q, "idle") /\ scout[q].url = u
                    THEN disturbed \cup {u} ELSE disturbed
  /\ UNCHANGED <<urls, hosts, fetches, site, served, requests, headedRuns, ended,
                 changes, kills>>

(* The attempt to record when a request must not be, or could not be, made. *)
Refused(s, outcome) ==
  [scout[s] EXCEPT !.stage = "record", !.outcome = outcome, !.page = "none",
                   !.text = NoText]

(* After its vetting the address is asked for, unless it is one redirect too *)
(* many.                                                                     *)
Vetted(s) ==
  LET seen == scout[s].seen \cup {scout[s].hop} IN
  IF Cardinality(seen) > MAX_REDIRECTS + 1 THEN Refused(s, "error")
    ELSE [scout[s] EXCEPT !.stage = "request", !.seen = seen, !.text = NoText]

Judged(s, t) ==
  IF robots_permit(t, scout[s].hop) THEN Vetted(s) ELSE Refused(s, "blocked")

(* Mutant of VetHost: the copy of robots.txt never expires. *)
VetHostAnyAge(s) ==
  LET h == HostOf[scout[s].hop] IN
  /\ At(s, "vet")
  /\ hosts' = [hosts EXCEPT ![h].known = TRUE]
  /\ scout' = [scout EXCEPT ![s] =
                 IF hosts[h].blocked THEN Refused(s, "blocked")
                 ELSE IF hosts[h].text # NoText
                   THEN Judged(s, hosts[h].text)
                   ELSE [scout[s] EXCEPT !.stage = "robots"]]
  /\ UNCHANGED <<urls, fetches, site, history, runs, changes, kills>>

(* vet, up to robots.txt: the host row is read, and inserted when a redirect *)
(* leads to a host nobody knew.                                              *)
VetHost(s) ==
  LET h == HostOf[scout[s].hop] IN
  /\ At(s, "vet")
  /\ hosts' = [hosts EXCEPT ![h].known = TRUE]
  /\ scout' = [scout EXCEPT ![s] =
                 IF hosts[h].blocked THEN Refused(s, "blocked")
                 ELSE IF hosts[h].text # NoText /\ hosts[h].fresh
                   THEN Judged(s, hosts[h].text)
                   ELSE [scout[s] EXCEPT !.stage = "robots"]]
  /\ UNCHANGED <<urls, fetches, site, history, runs, changes, kills>>

(* fetch_robots: the text, an outage, or a host at an internal address. *)
ReadRobots(s) ==
  /\ At(s, "robots")
  /\ scout' \in {[scout EXCEPT ![s] = next] : next \in
       {[scout[s] EXCEPT !.stage = "store", !.text = site[HostOf[scout[s].hop]]],
        Refused(s, "error"), Refused(s, "blocked")}}
  /\ UNCHANGED <<urls, hosts, fetches, site, history, runs, changes, kills>>

StoreRobots(s) ==
  LET h == HostOf[scout[s].hop] IN
  /\ At(s, "store")
  /\ hosts' = [hosts EXCEPT ![h].text = scout[s].text, ![h].fresh = TRUE]
  /\ scout' = [scout EXCEPT ![s] = Judged(s, scout[s].text)]
  /\ UNCHANGED <<urls, fetches, site, history, runs, changes, kills>>

Answered(s, outcome, page) ==
  [scout[s] EXCEPT !.stage = "record", !.outcome = outcome, !.page = page]

(* What http_get and the checks after it make of a response: an empty body is *)
(* an error, a thin page that is a denial wall is blocked.                    *)
HttpAnswers(s) ==
  {Answered(s, "ok", "readable"), Answered(s, "ok", "thin")}
    \cup {Answered(s, outcome, "none") : outcome \in Outcomes \ {"ok"}}

(* http_fetch refuses a redirect to an address it has asked for already. *)
Redirected(s, u) ==
  IF u \in scout[s].seen THEN Refused(s, "error")
    ELSE [scout[s] EXCEPT !.stage = "vet", !.hop = u]

http_fetch(s) ==
  /\ At(s, "request")
  /\ requests' = requests \cup {Request("tool", scout[s].hop)}
  /\ \E next \in HttpAnswers(s) \cup {Redirected(s, u) : u \in Urls} :
       scout' = [scout EXCEPT ![s] = next]
  /\ UNCHANGED <<urls, hosts, fetches, site, served, headedRuns, disturbed, ended,
                 runs, changes, kills>>

Row(s) == [run |-> scout[s].run, url |-> scout[s].url, method |-> scout[s].method,
           outcome |-> scout[s].outcome, page |-> scout[s].page]

(* record_fetch is one transaction: the row and, when it is given, the state. *)
record_fetch(s, state) ==
  /\ fetches' = fetches \cup {Row(s)}
  /\ urls' = IF state = "keep" THEN urls ELSE [urls EXCEPT ![scout[s].url] = state]

Leave(s) == [scout EXCEPT ![s] = Idle]
Climb(s, method) ==
  [scout EXCEPT ![s] = [@ EXCEPT !.stage = method, !.method = method]]

RecordHttp(s) ==
  LET thin == scout[s].outcome = "ok" /\ scout[s].page = "thin"
      final_state == CASE scout[s].outcome = "ok" -> "fetched"
                       [] scout[s].outcome = "blocked" -> "blocked"
                       [] OTHER -> "failed" IN
  /\ At(s, "record")
  /\ record_fetch(s, IF thin THEN "keep" ELSE final_state)
  /\ scout' = IF thin THEN Climb(s, "headless") ELSE Leave(s)
  /\ ended' = IF thin THEN ended ELSE ended \cup {scout[s].url}
  /\ UNCHANGED <<hosts, site, served, requests, headedRuns, disturbed, runs, changes,
                 kills>>

HeadedRows(u) == {row \in fetches : row.url = u /\ row.method = "headed"}

(* browser_attempt is given the address that passed vet.  Where that page then *)
(* takes the browser (redirects, meta refresh, scripts; this host or another)  *)
(* nothing vets: only the address it ends at is looked at, for being internal. *)
Browsed(s) ==
  \E visited \in SUBSET Urls :
    requests' = requests \cup {Request("tool", scout[s].hop)}
                         \cup {Request("page", u) : u \in visited}

(* What comes of it; spent says whether an earlier fetch of the URL had its    *)
(* headed attempt.                                                             *)
Rendered(s, spent) ==
  {[scout[s] EXCEPT !.stage = "record_browser", !.outcome = a[1], !.page = a[2],
                    !.spent = spent] :
     a \in {<<"ok", "readable">>, <<"ok", "thin">>, <<"error", "none">>,
            <<"blocked", "none">>}}

Headless(s) ==
  /\ At(s, "headless")
  /\ Browsed(s)
  /\ \E next \in Rendered(s, HeadedRows(scout[s].url) # {}) :
       scout' = [scout EXCEPT ![s] = next]
  /\ UNCHANGED <<urls, hosts, fetches, site, served, headedRuns, disturbed, ended,
                 runs, changes, kills>>

Headed(s) ==
  /\ At(s, "headed")
  /\ Browsed(s)
  /\ headedRuns' = [headedRuns EXCEPT ![scout[s].url] = @ + 1]
  /\ \E next \in Rendered(s, scout[s].spent) : scout' = [scout EXCEPT ![s] = next]
  /\ UNCHANGED <<urls, hosts, fetches, site, served, disturbed, ended, runs, changes,
                 kills>>

(* The attempt is the last one when it rendered, failed, or no headed one is *)
(* left.                                                                     *)
IsLast(s) ==
  \/ scout[s].outcome # "ok" \/ scout[s].page = "readable"
  \/ scout[s].method = "headed" \/ scout[s].spent

(* Mutant of BrowserState: a capture counts as fetched however thin it is. *)
BrowserStateThin(s) ==
  CASE scout[s].outcome = "ok" -> "fetched"
    [] scout[s].outcome = "blocked" -> "blocked"
    [] OTHER -> "failed"

BrowserState(s) ==
  CASE scout[s].outcome = "ok" /\ scout[s].page = "readable" -> "fetched"
    [] scout[s].outcome = "blocked" -> "blocked"
    [] OTHER -> "failed"

(* fetches_one_headed_per_url *)
OneHeadedIndex(s) == scout[s].method = "headed" => HeadedRows(scout[s].url) = {}

RecordBrowser(s) ==
  /\ At(s, "record_browser") /\ OneHeadedIndex(s)
  /\ record_fetch(s, IF IsLast(s) THEN BrowserState(s) ELSE "keep")
  /\ scout' = IF IsLast(s) THEN Leave(s) ELSE Climb(s, "headed")
  /\ ended' = IF IsLast(s) THEN ended \cup {scout[s].url} ELSE ended
  /\ UNCHANGED <<hosts, site, served, requests, headedRuns, disturbed, runs, changes,
                 kills>>

(* The second headed row of a URL is refused: IntegrityError ends the command. *)
RecordRefused(s) ==
  /\ At(s, "record_browser") /\ ~OneHeadedIndex(s)
  /\ scout' = Leave(s)
  /\ UNCHANGED <<urls, hosts, fetches, site, history, runs, changes, kills>>

Kill(s) ==
  /\ ~At(s, "idle")
  /\ kills < MaxKills /\ kills' = kills + 1
  /\ scout' = Leave(s)
  /\ disturbed' = disturbed \cup {scout[s].url}
  /\ UNCHANGED <<urls, hosts, fetches, site, served, requests, headedRuns, ended, runs,
                 changes>>
-------------------------------------------------------------------------------
Init ==
  /\ urls = [u \in Urls |-> "none"]
  /\ hosts = [h \in Hosts |->
                [known |-> FALSE, blocked |-> FALSE, text |-> NoText, fresh |-> FALSE]]
  /\ fetches = {}
  /\ scout = [s \in Scouts |-> Idle]
  /\ site \in [Hosts -> Texts]
  /\ served = [h \in Hosts |-> {site[h]}]
  /\ requests = {} /\ disturbed = {} /\ ended = {}
  /\ headedRuns = [u \in Urls |-> 0]
  /\ runs = 0 /\ changes = 0 /\ kills = 0

Next ==
  \/ \E u \in Urls : add_url(u)
  \/ \E h \in Hosts : BlockHost(h) \/ SiteChanges(h) \/ CopyExpires(h)
  \/ \E s \in Scouts : \/ \E u \in Urls : Begin(s, u)
                       \/ VetHost(s) \/ ReadRobots(s) \/ StoreRobots(s)
                       \/ http_fetch(s) \/ RecordHttp(s)
                       \/ Headless(s) \/ Headed(s)
                       \/ RecordBrowser(s) \/ RecordRefused(s) \/ Kill(s)

Spec == Init /\ [][Next]_vars
-------------------------------------------------------------------------------
(* Types of the state. *)
TypeOK ==
  /\ urls \in [Urls -> UrlStates]
  /\ hosts \in [Hosts -> HostRow]
  /\ fetches \subseteq FetchRow
  /\ scout \in [Scouts -> Scout]
  /\ site \in [Hosts -> Texts] /\ served \in [Hosts -> SUBSET Texts]
  /\ requests \subseteq [by : {"tool", "page"}, url : Urls, allowed : BOOLEAN]
  /\ headedRuns \in [Urls -> Nat]
  /\ disturbed \subseteq Urls /\ ended \subseteq Urls
  /\ runs \in 0..MaxRuns /\ changes \in 0..MaxChanges /\ kills \in 0..MaxKills

RowsOf(u) == {row \in fetches : row.url = u}
Readable(row) == row.outcome = "ok" /\ row.page = "readable"

(* The state of a URL rests on its rows: a fetched one has a readable        *)
(* capture, which the next fetch looks up without asking whether it is       *)
(* there, a blocked one a denial, a failed one an attempt without a readable *)
(* page; and a fetch that ran to its end has decided.  Scouts that overlap   *)
(* or die between two rows of the ladder do not break this.                  *)
StateMatchesRows ==
  \A u \in Urls :
    /\ urls[u] = "fetched" => \E row \in RowsOf(u) : Readable(row)
    /\ urls[u] = "blocked" => \E row \in RowsOf(u) : row.outcome = "blocked"
    /\ urls[u] = "failed" => \E row \in RowsOf(u) : ~Readable(row)
    /\ u \in ended => urls[u] \notin {"none", "new"}

(* The browser is for pages that did not render, never a second try after a  *)
(* refusal: a row of the browser follows a row of the same fetch, one rung   *)
(* lower, that got a page without readable text.                             *)
LadderOnlyWhenThin ==
  \A row \in fetches :
    row.method # "http" =>
      \E below \in RowsOf(row.url) :
        /\ below.run = row.run
        /\ below.method = (IF row.method = "headed" THEN "headless" ELSE "http")
        /\ below.outcome = "ok" /\ below.page = "thin"

(* One headed attempt per URL: one row for ever, and as long as no two       *)
(* scouts met on the URL and none died on it, one browser start.             *)
HeadedOnce ==
  \A u \in Urls :
    /\ Cardinality(HeadedRows(u)) <= 1
    /\ u \notin disturbed => headedRuns[u] <= 1

(* No address is asked for by http, first or on a redirect to whatever host, *)
(* or handed to a browser, that no robots.txt its host served within the day *)
(* allows.  Where a rendered page takes the browser next is not promised:    *)
(* the tool does not see it.                                                 *)
RobotsObeyed == \A q \in requests : q.by = "tool" => q.allowed

(* A capture is not lost to a later failure, and a denial is terminal, for   *)
(* every URL on which the scouts did not overlap.                            *)
SettledStays ==
  [][\A u \in Urls \ disturbed :
       urls[u] \in {"fetched", "blocked"} => urls'[u] = urls[u]]_vars
===============================================================================
