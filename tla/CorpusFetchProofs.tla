--------------------------- MODULE CorpusFetchProofs ---------------------------
(***************************************************************************)
(* What CorpusFetch keeps for any number of scouts, pages, hosts and       *)
(* robots.txt files.  The inductive invariant relates what each scout      *)
(* holds in its hand to the rows, the copies of robots.txt and the other   *)
(* scouts.                                                                 *)
(***************************************************************************)
EXTENDS CorpusFetch, FiniteSetTheorems, TLAPS

Settled == {"fetched", "blocked"}

Permitted(u) == \E t \in served[HostOf[u]] : robots_permit(t, u)

(* The scout is about to make, or to record, an attempt with this method. *)
OnRung(c, method) ==
  c.stage = method \/ (c.stage = "record_browser" /\ c.method = method)

(* The fetch got a page without readable text by this method. *)
WasThin(c, method) ==
  \E row \in fetches : /\ row.url = c.url /\ row.run = c.run /\ row.method = method
                        /\ row.outcome = "ok" /\ row.page = "thin"

(* The method goes with the stage. *)
StageOK(c) ==
  /\ c.stage # "idle" => c.run # 0
  /\ c.stage \in {"vet", "robots", "store", "request", "record"} => c.method = "http"
  /\ c.stage \in {"headless", "headed"} => c.method = c.stage
  /\ c.stage = "record_browser" => c.method # "http"
  /\ c.stage \in {"record", "record_browser"} =>
       (c.outcome = "ok" <=> c.page \in {"readable", "thin"})

(* What it asked for, or will ask for, robots.txt allows. *)
MayAsk(c) ==
  /\ c.stage = "store" => c.text \in served[HostOf[c.hop]]
  /\ c.stage \in {"request", "headless", "headed"} => Permitted(c.hop)
  /\ c.stage \in {"record", "record_browser"} /\ c.outcome = "ok" => Permitted(c.hop)

(* It stands on the rows below. *)
Climbed(c) ==
  /\ OnRung(c, "headless") => WasThin(c, "http")
  /\ OnRung(c, "headed") => WasThin(c, "headless")

(* Alone on its URL, it finds the URL as it was when it began. *)
Undisturbed(c) ==
  c.stage # "idle" /\ c.url \notin disturbed =>
    /\ urls[c.url] \notin Settled
    /\ OnRung(c, "headed") => HeadedRows(c.url) = {}
    /\ c.stage = "record_browser" /\ c.method = "headless" =>
         (HeadedRows(c.url) # {} => c.spent)

ScoutOK(c) == StageOK(c) /\ MayAsk(c) /\ Climbed(c) /\ Undisturbed(c)
ScoutsOK == \A s \in Scouts : ScoutOK(scout[s])

(* Two scouts on one URL disturb it. *)
Alone ==
  \A s, q \in Scouts :
    s # q /\ scout[s].stage # "idle" /\ scout[q].stage # "idle"
      /\ scout[s].url = scout[q].url => scout[s].url \in disturbed

(* A fresh copy of robots.txt was served since the last one expired. *)
CopiesServed ==
  \A h \in Hosts :
    /\ site[h] \in served[h]
    /\ hosts[h].fresh /\ hosts[h].text # NoText => hosts[h].text \in served[h]

(* A URL has one headed row; undisturbed, one headed attempt, which is       *)
(* recorded or about to be.                                                  *)
OneHeadedRow ==
  \A a, b \in fetches :
    a.method = "headed" /\ b.method = "headed" /\ a.url = b.url => a = b
HeadedCounted ==
  \A u \in Urls \ disturbed :
    /\ headedRuns[u] <= 1
    /\ headedRuns[u] = 0 \/ HeadedRows(u) # {}
         \/ \E s \in Scouts : /\ scout[s].stage = "record_browser"
                               /\ scout[s].method = "headed" /\ scout[s].url = u

Inv == /\ TypeOK /\ ScoutsOK /\ Alone /\ CopiesServed /\ OneHeadedRow /\ HeadedCounted
       /\ StateMatchesRows /\ LadderOnlyWhenThin /\ RobotsObeyed
-------------------------------------------------------------------------------
(* What a scout holds stays true while others go on.                         *)

LEMMA ScoutStays ==
  ASSUME NEW c \in Scout, ScoutOK(c), TypeOK, TypeOK',
         \A h \in Hosts : served[h] \subseteq served'[h],
         fetches \subseteq fetches', disturbed \subseteq disturbed',
         c.stage # "idle" /\ c.url \notin disturbed' =>
           urls'[c.url] = urls[c.url] /\ HeadedRows(c.url)' = HeadedRows(c.url)
  PROVE  ScoutOK(c)'
<1>1. c.url \in Urls /\ c.hop \in Urls /\ HostOf[c.hop] \in Hosts
  BY UrlAssumption DEF Scout
<1>2. Permitted(c.hop) => Permitted(c.hop)'
  BY <1>1 DEF Permitted, robots_permit, Group
<1>3. MayAsk(c)'
  BY <1>1, <1>2 DEF ScoutOK, MayAsk
<1>4. Climbed(c)'
  BY DEF ScoutOK, Climbed, WasThin, OnRung
<1>5. Undisturbed(c)'
  BY <1>1 DEF ScoutOK, Undisturbed, OnRung
<1>. QED
  BY <1>3, <1>4, <1>5 DEF ScoutOK, StageOK

LEMMA IdleOK == Idle \in Scout /\ ScoutOK(Idle)
<1>1. AnyUrl \in Urls
  BY UrlAssumption DEF AnyUrl
<1>2. 0 \in 0..MaxRuns
  BY FetchBoundAssumption
<1>3. Idle \in Scout
  BY <1>1, <1>2 DEF Idle, Scout, Stages, Methods, Outcomes, Pages
<1>4. ScoutOK(Idle)
  BY DEF Idle, ScoutOK, StageOK, MayAsk, Climbed, OnRung, Undisturbed
<1>. QED
  BY <1>3, <1>4

LEMMA OthersOK ==
  ASSUME Inv, TypeOK', NEW s \in Scouts,
         \A q \in Scouts \ {s} : scout'[q] = scout[q], ScoutOK(scout[s])',
         \A h \in Hosts : served[h] \subseteq served'[h],
         fetches \subseteq fetches', disturbed \subseteq disturbed',
         \A q \in Scouts \ {s} :
           scout[q].stage # "idle" /\ scout[q].url \notin disturbed' =>
             /\ urls'[scout[q].url] = urls[scout[q].url]
             /\ HeadedRows(scout[q].url)' = HeadedRows(scout[q].url)
  PROVE  ScoutsOK'
<1>1. scout \in [Scouts -> Scout]
  BY DEF Inv, TypeOK
<1>2. ASSUME NEW q \in Scouts PROVE ScoutOK(scout[q])'
  <2>1. CASE q = s
    BY <2>1
  <2>2. CASE q # s
    <3>1. scout'[q] = scout[q] /\ scout[q] \in Scout
      BY <1>1, <2>2
    <3>2. ScoutOK(scout[q]) /\ TypeOK
      BY DEF Inv, ScoutsOK
    <3>3. scout[q].stage # "idle" /\ scout[q].url \notin disturbed' =>
             /\ urls'[scout[q].url] = urls[scout[q].url]
             /\ HeadedRows(scout[q].url)' = HeadedRows(scout[q].url)
      BY <2>2
    <3>4. SUFFICES ASSUME NEW d, d = scout[q], d = scout'[q] PROVE ScoutOK(d)'
      BY <3>1
    <3>. QED
      BY <3>1, <3>2, <3>3, <3>4, ScoutStays
  <2>. QED
    BY <2>1, <2>2
<1>. QED
  BY <1>2 DEF ScoutsOK

(* A scout that asks, or gets ready to ask, and records nothing yet.          *)
LEMMA QuietStep ==
  ASSUME Inv, TypeOK', NEW s \in Scouts,
         \A q \in Scouts \ {s} : scout'[q] = scout[q], ScoutOK(scout[s])',
         scout[s].stage \notin {"idle", "record_browser"}, scout'[s].url = scout[s].url,
         UNCHANGED <<urls, fetches, served, disturbed, ended, headedRuns>>,
         CopiesServed', RobotsObeyed'
  PROVE  Inv'
<1>1. scout \in [Scouts -> Scout] /\ scout' \in [Scouts -> Scout]
  BY DEF Inv, TypeOK
<1>2. \A u : HeadedRows(u)' = HeadedRows(u)
  BY DEF HeadedRows
<1>3. ScoutsOK'
  <2>1. \A h \in Hosts : served[h] \subseteq served'[h]
    OBVIOUS
  <2>2. fetches \subseteq fetches' /\ disturbed \subseteq disturbed'
    OBVIOUS
  <2>3. \A q \in Scouts \ {s} :
          scout[q].stage # "idle" /\ scout[q].url \notin disturbed' =>
             /\ urls'[scout[q].url] = urls[scout[q].url]
             /\ HeadedRows(scout[q].url)' = HeadedRows(scout[q].url)
    BY DEF HeadedRows
  <2>. QED
    BY <2>1, <2>2, <2>3, OthersOK
<1>4. Alone'
  BY <1>1 DEF Alone, Inv
<1>5. OneHeadedRow' /\ StateMatchesRows' /\ LadderOnlyWhenThin'
  BY DEF Inv, OneHeadedRow, StateMatchesRows, LadderOnlyWhenThin, RowsOf
<1>6. HeadedCounted'
  BY <1>1, <1>2 DEF Inv, HeadedCounted
<1>. QED
  BY <1>3, <1>4, <1>5, <1>6 DEF Inv

(* A step of the world: the scouts stand still.                              *)
LEMMA WorldStep ==
  ASSUME Inv, TypeOK',
         \A h \in Hosts : served[h] \subseteq served'[h],
         UNCHANGED <<fetches, scout, requests, headedRuns, disturbed, ended>>,
         \A u \in Urls : urls'[u] = urls[u] \/ (urls[u] = "none" /\ urls'[u] = "new"),
         CopiesServed'
  PROVE  Inv'
<1>1. scout \in [Scouts -> Scout]
  BY DEF Inv, TypeOK
<1>2. ASSUME NEW s \in Scouts PROVE ScoutOK(scout[s])'
  <2>1. scout[s] \in Scout /\ ScoutOK(scout[s])
    BY <1>1 DEF Inv, ScoutsOK
  <2>2. scout[s].url \in Urls /\ scout[s].hop \in Urls /\ HostOf[scout[s].hop] \in Hosts
    BY <2>1, UrlAssumption DEF Scout
  <2>3. Permitted(scout[s].hop) => Permitted(scout[s].hop)'
    BY <2>2 DEF Permitted, robots_permit, Group
  <2>4. MayAsk(scout[s])'
    BY <2>1, <2>2, <2>3 DEF ScoutOK, MayAsk
  <2>5. Climbed(scout[s])'
    BY <2>1 DEF ScoutOK, Climbed, WasThin, OnRung
  <2>6. Undisturbed(scout[s])'
    BY <2>1, <2>2 DEF ScoutOK, Undisturbed, OnRung, HeadedRows, Settled
  <2>7. StageOK(scout[s])'
    BY <2>1 DEF ScoutOK, StageOK
  <2>. QED
    BY <2>4, <2>5, <2>6, <2>7 DEF ScoutOK
<1>3. Alone' /\ OneHeadedRow' /\ LadderOnlyWhenThin' /\ RobotsObeyed'
  BY DEF Inv, Alone, OneHeadedRow, LadderOnlyWhenThin, RowsOf, RobotsObeyed
<1>4. StateMatchesRows'
  BY DEF Inv, StateMatchesRows, RowsOf
<1>5. HeadedCounted'
  BY DEF Inv, HeadedCounted, HeadedRows
<1>. QED
  BY <1>2, <1>3, <1>4, <1>5 DEF Inv, ScoutsOK

LEMMA Facts ==
  ASSUME Inv, NEW s \in Scouts
  PROVE  /\ scout[s] \in Scout /\ ScoutOK(scout[s])
         /\ scout[s].url \in Urls /\ scout[s].hop \in Urls
         /\ HostOf[scout[s].hop] \in Hosts
         /\ scout[s].stage # "idle" => scout[s].run \in 1..MaxRuns
<1>1. scout[s] \in Scout /\ ScoutOK(scout[s])
  BY DEF Inv, TypeOK, ScoutsOK
<1>. QED
  BY <1>1, UrlAssumption, FetchBoundAssumption DEF Scout, ScoutOK, StageOK

Requests == [by : {"tool", "page"}, url : Urls, allowed : BOOLEAN]

LEMMA RequestTyped ==
  ASSUME NEW u \in Urls, NEW by \in {"tool", "page"}
  PROVE  Request(by, u) \in Requests
<1>1. (\E t \in served[HostOf[u]] : robots_permit(t, u)) \in BOOLEAN
  OBVIOUS
<1>. QED
  BY <1>1, Zenon DEF Request, Requests

LEMMA RequestAllowed ==
  ASSUME NEW u \in Urls, Permitted(u)
  PROVE  Request("tool", u) \in Requests /\ Request("tool", u).allowed
<1>1. Request("tool", u).allowed
  BY DEF Request, Permitted
<1>. QED
  BY <1>1, RequestTyped

(* Wherever its page takes the browser, the tool gave it what it may ask for. *)
LEMMA BrowsedObeys ==
  ASSUME Inv, NEW s \in Scouts, Permitted(scout[s].hop), Browsed(s)
  PROVE  requests' \subseteq Requests /\ RobotsObeyed'
<1>1. PICK visited \in SUBSET Urls :
        requests' = requests \cup {Request("tool", scout[s].hop)}
                             \cup {Request("page", u) : u \in visited}
  BY DEF Browsed
<1>2. scout[s].hop \in Urls
  BY Facts
<1>3. Request("tool", scout[s].hop) \in Requests /\ Request("tool", scout[s].hop).allowed
  BY <1>2, RequestAllowed
<1>4. ASSUME NEW u \in visited
      PROVE  Request("page", u) \in Requests /\ Request("page", u).by # "tool"
  BY <1>4, RequestTyped DEF Request
<1>5. requests \subseteq Requests /\ RobotsObeyed
  BY DEF Inv, TypeOK, Requests
<1>. QED
  BY <1>1, <1>3, <1>4, <1>5 DEF RobotsObeyed

LEMMA RefusedOK ==
  ASSUME Inv, NEW s \in Scouts, NEW outcome \in Outcomes \ {"ok"},
         scout[s].stage \in {"vet", "robots", "store", "request"},
         scout'[s] = Refused(s, outcome), UNCHANGED <<urls, disturbed>>
  PROVE  /\ ScoutOK(scout[s])' /\ scout'[s] \in Scout /\ scout'[s].url = scout[s].url
<1>1. /\ scout[s] \in Scout /\ ScoutOK(scout[s])
  BY Facts
<1>2. scout'[s] = [stage |-> "record", run |-> scout[s].run, url |-> scout[s].url,
                   hop |-> scout[s].hop, seen |-> scout[s].seen, text |-> NoText,
                   method |-> scout[s].method, outcome |-> outcome, page |-> "none",
                   spent |-> scout[s].spent]
  BY <1>1 DEF Refused, Scout
<1>3. scout'[s] \in Scout
  BY <1>1, <1>2 DEF Scout, Stages, Pages
<1>4. StageOK(scout[s])'
  BY <1>1, <1>2 DEF ScoutOK, StageOK
<1>5. MayAsk(scout[s])' /\ Climbed(scout[s])'
  BY <1>2 DEF MayAsk, Climbed, OnRung
<1>6. Undisturbed(scout[s])'
  BY <1>1, <1>2 DEF ScoutOK, Undisturbed, OnRung
<1>. QED
  BY <1>2, <1>3, <1>4, <1>5, <1>6 DEF ScoutOK

LEMMA JudgedOK ==
  ASSUME Inv, NEW s \in Scouts, NEW t \in served[HostOf[scout[s].hop]],
         scout[s].stage \in {"vet", "store"},
         scout'[s] = Judged(s, t), UNCHANGED <<urls, served, disturbed>>
  PROVE  /\ ScoutOK(scout[s])' /\ scout'[s] \in Scout /\ scout'[s].url = scout[s].url
<1>1. /\ scout[s] \in Scout /\ ScoutOK(scout[s]) /\ scout[s].hop \in Urls
  BY Facts
<1>2. CASE scout'[s] = Refused(s, "blocked") \/ scout'[s] = Refused(s, "error")
  BY <1>2, RefusedOK DEF Outcomes
<1>3. CASE robots_permit(t, scout[s].hop)
            /\ scout'[s] = [scout[s] EXCEPT !.stage = "request",
                              !.seen = scout[s].seen \cup {scout[s].hop}, !.text = NoText]
  <2>1. scout'[s] = [stage |-> "request", run |-> scout[s].run, url |-> scout[s].url,
                     hop |-> scout[s].hop, seen |-> scout[s].seen \cup {scout[s].hop},
                     text |-> NoText, method |-> scout[s].method,
                     outcome |-> scout[s].outcome, page |-> scout[s].page,
                     spent |-> scout[s].spent]
    BY <1>1, <1>3 DEF Scout
  <2>2. scout'[s] \in Scout
    BY <1>1, <2>1 DEF Scout, Stages
  <2>3. StageOK(scout[s])'
    BY <1>1, <2>1 DEF ScoutOK, StageOK
  <2>4. Permitted(scout[s].hop)
    BY <1>3 DEF Permitted
  <2>5. Permitted(scout[s].hop)'
    BY <2>1, <2>4 DEF Permitted
  <2>6. MayAsk(scout[s])' /\ Climbed(scout[s])'
    BY <2>1, <2>5 DEF MayAsk, Climbed, OnRung
  <2>7. Undisturbed(scout[s])'
    BY <1>1, <2>1 DEF ScoutOK, Undisturbed, OnRung
  <2>. QED
    BY <2>1, <2>2, <2>3, <2>6, <2>7 DEF ScoutOK
<1>. QED
  BY <1>2, <1>3 DEF Judged, Vetted
-------------------------------------------------------------------------------
(* One lemma per action.                                                     *)

LEMMA InitInv == Init => Inv
<1>. SUFFICES ASSUME Init PROVE Inv
  OBVIOUS
<1>1. TypeOK
  <2>1. scout \in [Scouts -> Scout]
    BY IdleOK DEF Init
  <2>2. hosts \in [Hosts -> HostRow]
    BY DEF Init, HostRow
  <2>3. runs \in 0..MaxRuns /\ changes \in 0..MaxChanges /\ kills \in 0..MaxKills
    BY FetchBoundAssumption DEF Init
  <2>. QED
    BY <2>1, <2>2, <2>3, FetchBoundAssumption DEF Init, TypeOK, UrlStates
<1>2. ScoutsOK /\ Alone
  BY IdleOK DEF Init, ScoutsOK, Alone, Idle
<1>3. CopiesServed /\ OneHeadedRow /\ HeadedCounted
  BY DEF Init, CopiesServed, OneHeadedRow, HeadedCounted
<1>4. StateMatchesRows /\ LadderOnlyWhenThin /\ RobotsObeyed
  BY DEF Init, StateMatchesRows, LadderOnlyWhenThin, RobotsObeyed
<1>. QED
  BY <1>1, <1>2, <1>3, <1>4 DEF Inv

LEMMA add_urlInv == ASSUME Inv, NEW u \in Urls, add_url(u) PROVE Inv'
<1>1. HostOf[u] \in Hosts
  BY UrlAssumption
<1>2. TypeOK'
  <2>1. hosts' \in [Hosts -> HostRow]
    BY <1>1 DEF Inv, TypeOK, add_url, HostRow
  <2>. QED
    BY <2>1 DEF Inv, TypeOK, add_url, UrlStates, history
<1>3. CopiesServed'
  BY <1>1 DEF Inv, TypeOK, CopiesServed, add_url, history, HostRow
<1>4. \A v \in Urls : urls'[v] = urls[v] \/ (urls[v] = "none" /\ urls'[v] = "new")
  BY DEF Inv, TypeOK, add_url
<1>. QED
  BY <1>2, <1>3, <1>4, WorldStep DEF add_url, history

LEMMA BlockHostInv == ASSUME Inv, NEW h \in Hosts, BlockHost(h) PROVE Inv'
<1>2. TypeOK'
  <2>1. hosts' \in [Hosts -> HostRow]
    BY DEF Inv, TypeOK, BlockHost, HostRow
  <2>2. changes' \in 0..MaxChanges
    BY FetchBoundAssumption DEF Inv, TypeOK, BlockHost
  <2>. QED
    BY <2>1, <2>2 DEF Inv, TypeOK, BlockHost, history
<1>3. CopiesServed'
  BY DEF Inv, TypeOK, CopiesServed, BlockHost, history, HostRow
<1>. QED
  BY <1>2, <1>3, WorldStep, Zenon DEF BlockHost, history

LEMMA SiteChangesInv == ASSUME Inv, NEW h \in Hosts, SiteChanges(h) PROVE Inv'
<1>1. PICK t \in Texts : /\ site' = [site EXCEPT ![h] = t]
                         /\ served' = [served EXCEPT ![h] = served[h] \cup {t}]
  BY DEF SiteChanges
<1>2. TypeOK'
  <2>1. changes' \in 0..MaxChanges
    BY FetchBoundAssumption DEF Inv, TypeOK, SiteChanges
  <2>2. site' \in [Hosts -> Texts] /\ served' \in [Hosts -> SUBSET Texts]
    BY <1>1 DEF Inv, TypeOK
  <2>. QED
    BY <2>1, <2>2 DEF Inv, TypeOK, SiteChanges
<1>3. CopiesServed'
  BY <1>1 DEF Inv, TypeOK, CopiesServed, SiteChanges
<1>4. \A g \in Hosts : served[g] \subseteq served'[g]
  BY <1>1 DEF Inv, TypeOK
<1>. QED
  BY <1>2, <1>3, <1>4, WorldStep DEF SiteChanges

(* No fetch is under way when a copy expires.                                *)
LEMMA CopyExpiresInv == ASSUME Inv, NEW h \in Hosts, CopyExpires(h) PROVE Inv'
<1>1. TypeOK'
  <2>1. hosts' \in [Hosts -> HostRow]
    BY DEF Inv, TypeOK, CopyExpires, HostRow
  <2>2. changes' \in 0..MaxChanges
    BY FetchBoundAssumption DEF Inv, TypeOK, CopyExpires
  <2>3. served' \in [Hosts -> SUBSET Texts]
    BY DEF Inv, TypeOK, CopyExpires
  <2>. QED
    BY <2>1, <2>2, <2>3 DEF Inv, TypeOK, CopyExpires
<1>2. ASSUME NEW s \in Scouts PROVE ScoutOK(scout[s])'
  BY DEF CopyExpires, ScoutOK, StageOK, MayAsk, Climbed, OnRung, Undisturbed, At
<1>3. Alone' /\ OneHeadedRow' /\ LadderOnlyWhenThin' /\ RobotsObeyed' /\ StateMatchesRows'
  BY DEF Inv, Alone, OneHeadedRow, LadderOnlyWhenThin, RowsOf, RobotsObeyed,
         StateMatchesRows, CopyExpires
<1>4. HeadedCounted'
  BY DEF Inv, HeadedCounted, HeadedRows, CopyExpires
<1>5. CopiesServed'
  BY DEF Inv, TypeOK, CopiesServed, CopyExpires, HostRow
<1>. QED
  BY <1>1, <1>2, <1>3, <1>4, <1>5 DEF Inv, ScoutsOK

LEMMA BeginInv == ASSUME Inv, NEW s \in Scouts, NEW u \in Urls, Begin(s, u) PROVE Inv'
<1>1. /\ scout \in [Scouts -> Scout] /\ AnyUrl \in Urls /\ runs + 1 \in 1..MaxRuns
      /\ runs' = runs + 1
  BY UrlAssumption, FetchBoundAssumption DEF Inv, TypeOK, AnyUrl, Begin
<1>2. scout'[s] = [stage |-> "vet", run |-> runs + 1, url |-> u, hop |-> u, seen |-> {u},
                   text |-> NoText, method |-> "http", outcome |-> "error",
                   page |-> "none", spent |-> FALSE]
  BY <1>1 DEF Begin, Idle
<1>3. /\ scout'[s] \in Scout /\ \A q \in Scouts \ {s} : scout'[q] = scout[q]
  <2>1. /\ runs + 1 \in 0..MaxRuns /\ {u} \in SUBSET Urls
        /\ "vet" \in Stages /\ "http" \in Methods /\ "error" \in Outcomes
        /\ "none" \in Pages
    BY <1>1, FetchBoundAssumption DEF Stages, Methods, Outcomes, Pages
  <2>2. scout'[s] \in Scout
    BY <1>2, <2>1 DEF Scout
  <2>. QED
    BY <1>1, <2>2 DEF Begin
<1>4. TypeOK'
  <2>1. scout' \in [Scouts -> Scout]
    BY <1>1, <1>3 DEF Begin
  <2>2. disturbed' \subseteq Urls
    BY DEF Inv, TypeOK, Begin
  <2>3. runs' \in 0..MaxRuns
    BY <1>1, FetchBoundAssumption
  <2>. QED
    BY <2>1, <2>2, <2>3 DEF Inv, TypeOK, Begin
<1>5. ScoutOK(scout[s])'
  <2>1. StageOK(scout[s])' /\ MayAsk(scout[s])' /\ Climbed(scout[s])'
    BY <1>1, <1>2 DEF StageOK, MayAsk, Climbed, OnRung
  <2>2. Undisturbed(scout[s])'
    BY <1>2 DEF Undisturbed, OnRung, Begin, Settled
  <2>. QED
    BY <2>1, <2>2 DEF ScoutOK
<1>6. disturbed \subseteq disturbed'
  BY DEF Begin
<1>7. ScoutsOK'
  BY <1>3, <1>4, <1>5, <1>6, OthersOK DEF Begin, HeadedRows
<1>8. Alone'
  <2>1. ASSUME NEW q \in Scouts, q # s, scout[q].stage # "idle", scout[q].url = u
        PROVE  u \in disturbed'
    BY <2>1 DEF Begin, At
  <2>. QED
    BY <1>2, <1>3, <1>6, <2>1 DEF Inv, Alone
<1>9. OneHeadedRow' /\ LadderOnlyWhenThin' /\ RobotsObeyed' /\ StateMatchesRows' /\ CopiesServed'
  BY DEF Inv, OneHeadedRow, LadderOnlyWhenThin, RowsOf, RobotsObeyed,
         StateMatchesRows, Begin, CopiesServed
<1>10. HeadedCounted'
  <2>1. ASSUME NEW q \in Scouts, scout[q].stage = "record_browser" PROVE scout'[q] = scout[q]
    BY <1>3, <2>1 DEF Begin, At
  <2>2. /\ headedRuns' = headedRuns /\ \A v : HeadedRows(v)' = HeadedRows(v)
    BY DEF Begin, HeadedRows
  <2>3. ASSUME NEW v \in Urls, v \notin disturbed
        PROVE  /\ headedRuns[v] <= 1
               /\ headedRuns[v] = 0 \/ HeadedRows(v) # {}
                    \/ \E q \in Scouts : /\ scout'[q].stage = "record_browser"
                                          /\ scout'[q].method = "headed"
                                          /\ scout'[q].url = v
    BY <2>1, <2>3 DEF Inv, HeadedCounted
  <2>. QED
    BY <1>6, <2>2, <2>3 DEF HeadedCounted
<1>. QED
  BY <1>4, <1>7, <1>8, <1>9, <1>10 DEF Inv

LEMMA VetHostInv == ASSUME Inv, NEW s \in Scouts, VetHost(s) PROVE Inv'
<1>. DEFINE h == HostOf[scout[s].hop]
<1>1. /\ scout[s] \in Scout /\ ScoutOK(scout[s]) /\ h \in Hosts /\ scout[s].stage = "vet"
      /\ scout[s].url \in Urls
  BY Facts DEF VetHost, At
<1>2. /\ scout \in [Scouts -> Scout] /\ UNCHANGED <<urls, served, disturbed, fetches>>
      /\ \A q \in Scouts \ {s} : scout'[q] = scout[q]
  BY DEF Inv, TypeOK, VetHost, history
<1>3. /\ ScoutOK(scout[s])' /\ scout'[s] \in Scout /\ scout'[s].url = scout[s].url
  <2>1. CASE hosts[h].blocked
    <3>1. scout'[s] = Refused(s, "blocked")
      BY <1>2, <2>1 DEF VetHost
    <3>. QED
      BY <1>1, <1>2, <3>1, RefusedOK DEF Outcomes
  <2>2. CASE ~hosts[h].blocked /\ hosts[h].text # NoText /\ hosts[h].fresh
    <3>1. scout'[s] = Judged(s, hosts[h].text)
      BY <1>2, <2>2 DEF VetHost
    <3>2. PICK t \in served[h] : t = hosts[h].text
      BY <1>1, <2>2 DEF Inv, CopiesServed
    <3>. QED
      BY <1>1, <1>2, <3>1, <3>2, JudgedOK
  <2>3. CASE ~hosts[h].blocked /\ ~(hosts[h].text # NoText /\ hosts[h].fresh)
    <3>1. scout'[s] = [stage |-> "robots", run |-> scout[s].run, url |-> scout[s].url,
                       hop |-> scout[s].hop, seen |-> scout[s].seen,
                       text |-> scout[s].text, method |-> scout[s].method,
                       outcome |-> scout[s].outcome, page |-> scout[s].page,
                       spent |-> scout[s].spent]
      BY <1>1, <1>2, <2>3 DEF VetHost, Scout
    <3>2. scout'[s] \in Scout
      BY <1>1, <3>1 DEF Scout, Stages
    <3>3. StageOK(scout[s])' /\ MayAsk(scout[s])' /\ Climbed(scout[s])'
      BY <1>1, <3>1 DEF ScoutOK, StageOK, MayAsk, Climbed, OnRung
    <3>4. Undisturbed(scout[s])'
      BY <1>1, <1>2, <3>1 DEF ScoutOK, Undisturbed, OnRung
    <3>. QED
      BY <3>1, <3>2, <3>3, <3>4 DEF ScoutOK
  <2>. QED
    BY <2>1, <2>2, <2>3
<1>4. TypeOK'
  <2>1. scout' \in [Scouts -> Scout]
    BY <1>2, <1>3 DEF VetHost
  <2>2. hosts' \in [Hosts -> HostRow]
    BY <1>1 DEF Inv, TypeOK, VetHost, HostRow
  <2>. QED
    BY <2>1, <2>2 DEF Inv, TypeOK, VetHost, history
<1>5. CopiesServed' /\ RobotsObeyed'
  BY <1>1 DEF Inv, TypeOK, CopiesServed, RobotsObeyed, VetHost, history, HostRow
<1>. QED
  BY <1>1, <1>2, <1>3, <1>4, <1>5, QuietStep DEF VetHost, history

LEMMA ReadRobotsInv == ASSUME Inv, NEW s \in Scouts, ReadRobots(s) PROVE Inv'
<1>. DEFINE h == HostOf[scout[s].hop]
<1>1. /\ scout[s] \in Scout /\ ScoutOK(scout[s]) /\ h \in Hosts /\ scout[s].stage = "robots"
  BY Facts DEF ReadRobots, At
<1>2. /\ scout \in [Scouts -> Scout] /\ UNCHANGED <<urls, served, disturbed, fetches, site>>
      /\ \A q \in Scouts \ {s} : scout'[q] = scout[q]
      /\ scout' = [scout EXCEPT ![s] = scout'[s]]
  BY DEF Inv, TypeOK, ReadRobots, history
<1>3. /\ ScoutOK(scout[s])' /\ scout'[s] \in Scout /\ scout'[s].url = scout[s].url
  <2>1. CASE scout'[s] = Refused(s, "error") \/ scout'[s] = Refused(s, "blocked")
    BY <1>1, <1>2, <2>1, RefusedOK DEF Outcomes
  <2>2. CASE scout'[s] = [scout[s] EXCEPT !.stage = "store", !.text = site[h]]
    <3>1. scout'[s] = [stage |-> "store", run |-> scout[s].run, url |-> scout[s].url,
                       hop |-> scout[s].hop, seen |-> scout[s].seen,
                       text |-> site[h], method |-> scout[s].method,
                       outcome |-> scout[s].outcome, page |-> scout[s].page,
                       spent |-> scout[s].spent]
      BY <1>1, <2>2 DEF Scout
    <3>2. site[h] \in Texts /\ site[h] \in served[h]
      BY <1>1 DEF Inv, TypeOK, CopiesServed
    <3>3. scout'[s] \in Scout
      BY <1>1, <3>1, <3>2 DEF Scout, Stages
    <3>4. StageOK(scout[s])' /\ MayAsk(scout[s])' /\ Climbed(scout[s])'
      BY <1>1, <1>2, <3>1, <3>2 DEF ScoutOK, StageOK, MayAsk, Climbed, OnRung
    <3>5. Undisturbed(scout[s])'
      BY <1>1, <1>2, <3>1 DEF ScoutOK, Undisturbed, OnRung
    <3>. QED
      BY <3>1, <3>3, <3>4, <3>5 DEF ScoutOK
  <2>. QED
    BY <1>2, <2>1, <2>2 DEF ReadRobots
<1>4. TypeOK'
  BY <1>2, <1>3 DEF Inv, TypeOK, ReadRobots, history
<1>5. CopiesServed' /\ RobotsObeyed'
  BY DEF Inv, CopiesServed, RobotsObeyed, ReadRobots, history
<1>. QED
  BY <1>1, <1>2, <1>3, <1>4, <1>5, QuietStep DEF ReadRobots, history

LEMMA StoreRobotsInv == ASSUME Inv, NEW s \in Scouts, StoreRobots(s) PROVE Inv'
<1>. DEFINE h == HostOf[scout[s].hop]
<1>1. /\ scout[s] \in Scout /\ ScoutOK(scout[s]) /\ h \in Hosts /\ scout[s].stage = "store"
      /\ scout[s].text \in served[h]
  BY Facts DEF StoreRobots, At, ScoutOK, MayAsk
<1>2. /\ scout \in [Scouts -> Scout] /\ UNCHANGED <<urls, served, disturbed, fetches>>
      /\ \A q \in Scouts \ {s} : scout'[q] = scout[q]
      /\ scout'[s] = Judged(s, scout[s].text)
  BY DEF Inv, TypeOK, StoreRobots, history
<1>3. PICK t \in served[h] : t = scout[s].text
  BY <1>1
<1>4. /\ ScoutOK(scout[s])' /\ scout'[s] \in Scout /\ scout'[s].url = scout[s].url
  BY <1>1, <1>2, <1>3, JudgedOK
<1>5. TypeOK'
  <2>1. scout' \in [Scouts -> Scout]
    BY <1>2, <1>4 DEF StoreRobots
  <2>2. t \in Texts
    BY <1>1, <1>3 DEF Inv, TypeOK
  <2>3. hosts' \in [Hosts -> HostRow]
    BY <1>1, <1>3, <2>2 DEF Inv, TypeOK, StoreRobots, HostRow
  <2>. QED
    BY <2>1, <2>3 DEF Inv, TypeOK, StoreRobots, history
<1>6. CopiesServed' /\ RobotsObeyed'
  BY <1>1 DEF Inv, TypeOK, CopiesServed, RobotsObeyed, StoreRobots, history, HostRow
<1>. QED
  BY <1>1, <1>2, <1>4, <1>5, <1>6, QuietStep DEF StoreRobots, history

LEMMA http_fetchInv == ASSUME Inv, NEW s \in Scouts, http_fetch(s) PROVE Inv'
<1>1. /\ scout[s] \in Scout /\ ScoutOK(scout[s]) /\ scout[s].stage = "request"
      /\ scout[s].hop \in Urls /\ Permitted(scout[s].hop)
  BY Facts DEF http_fetch, At, ScoutOK, MayAsk
<1>2. /\ scout \in [Scouts -> Scout] /\ UNCHANGED <<urls, served, disturbed, fetches>>
      /\ \A q \in Scouts \ {s} : scout'[q] = scout[q]
      /\ scout' = [scout EXCEPT ![s] = scout'[s]]
  BY DEF Inv, TypeOK, http_fetch
<1>3. /\ ScoutOK(scout[s])' /\ scout'[s] \in Scout /\ scout'[s].url = scout[s].url
  <2>1. ASSUME NEW outcome \in Outcomes, NEW page \in Pages,
               outcome = "ok" <=> page \in {"readable", "thin"},
               scout'[s] = Answered(s, outcome, page)
        PROVE  <1>3
    <3>1. scout'[s] = [stage |-> "record", run |-> scout[s].run, url |-> scout[s].url,
                       hop |-> scout[s].hop, seen |-> scout[s].seen,
                       text |-> scout[s].text, method |-> scout[s].method,
                       outcome |-> outcome, page |-> page,
                       spent |-> scout[s].spent]
      BY <1>1, <2>1 DEF Answered, Scout
    <3>2. scout'[s] \in Scout
      BY <1>1, <3>1 DEF Scout, Stages
    <3>3. Permitted(scout[s].hop)'
      BY <1>1, <1>2, <3>1 DEF Permitted
    <3>4. StageOK(scout[s])' /\ MayAsk(scout[s])' /\ Climbed(scout[s])'
      BY <1>1, <2>1, <3>1, <3>3 DEF ScoutOK, StageOK, MayAsk, Climbed, OnRung
    <3>5. Undisturbed(scout[s])'
      BY <1>1, <1>2, <3>1 DEF ScoutOK, Undisturbed, OnRung
    <3>. QED
      BY <3>1, <3>2, <3>4, <3>5 DEF ScoutOK
  <2>2. ASSUME NEW u \in Urls, scout'[s] = [scout[s] EXCEPT !.stage = "vet", !.hop = u]
        PROVE  <1>3
    <3>1. scout'[s] = [stage |-> "vet", run |-> scout[s].run, url |-> scout[s].url,
                       hop |-> u, seen |-> scout[s].seen,
                       text |-> scout[s].text, method |-> scout[s].method,
                       outcome |-> scout[s].outcome, page |-> scout[s].page,
                       spent |-> scout[s].spent]
      BY <1>1, <2>2 DEF Scout
    <3>2. scout'[s] \in Scout
      BY <1>1, <3>1 DEF Scout, Stages
    <3>3. StageOK(scout[s])' /\ MayAsk(scout[s])' /\ Climbed(scout[s])'
      BY <1>1, <3>1 DEF ScoutOK, StageOK, MayAsk, Climbed, OnRung
    <3>4. Undisturbed(scout[s])'
      BY <1>1, <1>2, <3>1 DEF ScoutOK, Undisturbed, OnRung
    <3>. QED
      BY <3>1, <3>2, <3>3, <3>4 DEF ScoutOK
  <2>3. ASSUME scout'[s] = Refused(s, "error") PROVE <1>3
    BY <1>1, <1>2, <2>3, RefusedOK DEF Outcomes
  <2>4. PICK next \in HttpAnswers(s) \cup {Redirected(s, u) : u \in Urls} :
               scout' = [scout EXCEPT ![s] = next]
    BY DEF http_fetch
  <2>5. scout'[s] = next
    BY <1>2, <2>4
  <2>6. CASE next \in HttpAnswers(s)
    BY <2>1, <2>5, <2>6 DEF HttpAnswers, Outcomes, Pages
  <2>7. CASE next \in {Redirected(s, u) : u \in Urls}
    BY <2>2, <2>3, <2>5, <2>7 DEF Redirected
  <2>. QED
    BY <2>4, <2>6, <2>7
<1>4. requests' \subseteq Requests /\ RobotsObeyed'
  BY <1>1, RequestAllowed DEF http_fetch, Inv, TypeOK, RobotsObeyed, Requests
<1>5. TypeOK'
  BY <1>2, <1>3, <1>4 DEF Inv, TypeOK, http_fetch, Requests
<1>6. CopiesServed'
  BY DEF Inv, CopiesServed, http_fetch
<1>. QED
  BY <1>1, <1>2, <1>3, <1>4, <1>5, <1>6, QuietStep DEF http_fetch

(* What the browser brings back, at the headless or at the headed rung.      *)
LEMMA RenderedOK ==
  ASSUME Inv, NEW s \in Scouts, scout[s].stage \in {"headless", "headed"},
         NEW spent \in BOOLEAN,
         scout[s].method = "headless" => (HeadedRows(scout[s].url) # {} => spent),
         scout'[s] \in Rendered(s, spent),
         UNCHANGED <<urls, served, disturbed, fetches>>
  PROVE  /\ ScoutOK(scout[s])' /\ scout'[s] \in Scout /\ scout'[s].url = scout[s].url
         /\ scout'[s].stage = "record_browser" /\ scout'[s].method = scout[s].method
<1>1. /\ scout[s] \in Scout /\ ScoutOK(scout[s])
  BY Facts
<1>2. PICK outcome \in {"ok", "error", "blocked"}, page \in Pages :
        /\ outcome = "ok" <=> page \in {"readable", "thin"}
        /\ scout'[s] = [scout[s] EXCEPT !.stage = "record_browser", !.outcome = outcome,
                                        !.page = page, !.spent = spent]
  <2>1. PICK a \in {<<"ok", "readable">>, <<"ok", "thin">>, <<"error", "none">>,
                    <<"blocked", "none">>} :
          scout'[s] = [scout[s] EXCEPT !.stage = "record_browser", !.outcome = a[1],
                                       !.page = a[2], !.spent = spent]
    BY Zenon DEF Rendered
  <2>2. /\ a[1] \in {"ok", "error", "blocked"} /\ a[2] \in Pages
        /\ a[1] = "ok" <=> a[2] \in {"readable", "thin"}
    BY DEF Pages
  <2>. QED
    BY <2>1, <2>2
<1>3. scout'[s] = [stage |-> "record_browser", run |-> scout[s].run, url |-> scout[s].url,
                   hop |-> scout[s].hop, seen |-> scout[s].seen,
                   text |-> scout[s].text, method |-> scout[s].method,
                   outcome |-> outcome, page |-> page, spent |-> spent]
  BY <1>1, <1>2 DEF Scout
<1>4. scout'[s] \in Scout
  BY <1>1, <1>3 DEF Scout, Stages, Outcomes
<1>5. Permitted(scout[s].hop)'
  BY <1>1, <1>3 DEF Permitted, ScoutOK, MayAsk
<1>6. StageOK(scout[s])' /\ MayAsk(scout[s])'
  BY <1>1, <1>2, <1>3, <1>5 DEF ScoutOK, StageOK, MayAsk
<1>7. Climbed(scout[s])'
  BY <1>1, <1>3 DEF ScoutOK, StageOK, Climbed, OnRung, WasThin
<1>8. Undisturbed(scout[s])'
  BY <1>1, <1>3 DEF ScoutOK, StageOK, Undisturbed, OnRung, HeadedRows
<1>. QED
  BY <1>3, <1>4, <1>6, <1>7, <1>8 DEF ScoutOK

LEMMA HeadlessInv == ASSUME Inv, NEW s \in Scouts, Headless(s) PROVE Inv'
<1>1. /\ scout[s] \in Scout /\ ScoutOK(scout[s]) /\ scout[s].stage = "headless"
      /\ scout[s].hop \in Urls /\ Permitted(scout[s].hop)
  BY Facts DEF Headless, At, ScoutOK, MayAsk
<1>2. /\ scout \in [Scouts -> Scout] /\ UNCHANGED <<urls, served, disturbed, fetches>>
      /\ \A q \in Scouts \ {s} : scout'[q] = scout[q]
      /\ scout' = [scout EXCEPT ![s] = scout'[s]]
  BY DEF Inv, TypeOK, Headless
<1>3. /\ ScoutOK(scout[s])' /\ scout'[s] \in Scout /\ scout'[s].url = scout[s].url
  <2>1. PICK spent \in BOOLEAN : spent = (HeadedRows(scout[s].url) # {})
    OBVIOUS
  <2>2. scout'[s] \in Rendered(s, spent)
    BY <1>2, <2>1 DEF Headless
  <2>. QED
    BY <1>1, <1>2, <2>1, <2>2, RenderedOK
<1>4. requests' \subseteq Requests /\ RobotsObeyed'
  BY <1>1, BrowsedObeys DEF Headless
<1>5. TypeOK'
  BY <1>2, <1>3, <1>4 DEF Inv, TypeOK, Headless, Requests
<1>6. CopiesServed'
  BY DEF Inv, CopiesServed, Headless
<1>. QED
  BY <1>1, <1>2, <1>3, <1>4, <1>5, <1>6, QuietStep DEF Headless

LEMMA HeadedInv == ASSUME Inv, NEW s \in Scouts, Headed(s) PROVE Inv'
<1>1. /\ scout[s] \in Scout /\ ScoutOK(scout[s]) /\ scout[s].stage = "headed"
      /\ scout[s].method = "headed" /\ scout[s].url \in Urls
      /\ scout[s].hop \in Urls /\ Permitted(scout[s].hop)
      /\ scout[s].url \notin disturbed => HeadedRows(scout[s].url) = {}
  BY Facts DEF Headed, At, ScoutOK, MayAsk, StageOK, Undisturbed, OnRung
<1>2. /\ scout \in [Scouts -> Scout] /\ UNCHANGED <<urls, served, disturbed, fetches>>
      /\ \A q \in Scouts \ {s} : scout'[q] = scout[q]
      /\ scout' = [scout EXCEPT ![s] = scout'[s]]
  BY DEF Inv, TypeOK, Headed
<1>3. /\ ScoutOK(scout[s])' /\ scout'[s] \in Scout /\ scout'[s].url = scout[s].url
      /\ scout'[s].stage = "record_browser" /\ scout'[s].method = "headed"
  <2>1. PICK spent \in BOOLEAN : spent = scout[s].spent
    BY <1>1 DEF Scout
  <2>2. scout'[s] \in Rendered(s, spent)
    BY <1>2, <2>1 DEF Headed
  <2>. QED
    BY <1>1, <1>2, <2>2, RenderedOK
<1>4. requests' \subseteq Requests /\ RobotsObeyed'
  BY <1>1, BrowsedObeys DEF Headed
<1>5. TypeOK'
  <2>1. headedRuns' \in [Urls -> Nat]
    BY <1>1 DEF Inv, TypeOK, Headed
  <2>. QED
    BY <1>2, <1>3, <1>4, <2>1 DEF Inv, TypeOK, Headed, Requests
<1>6. CopiesServed'
  BY DEF Inv, CopiesServed, Headed
<1>7. \A u : HeadedRows(u)' = HeadedRows(u)
  BY <1>2 DEF HeadedRows
<1>8. ScoutsOK'
  BY <1>2, <1>3, <1>5, <1>7, OthersOK
<1>9. Alone'
  BY <1>1, <1>2, <1>3 DEF Alone, Inv
<1>10. OneHeadedRow' /\ StateMatchesRows' /\ LadderOnlyWhenThin'
  BY DEF Inv, OneHeadedRow, StateMatchesRows, LadderOnlyWhenThin, RowsOf, Headed
<1>11. HeadedCounted'
  <2>1. ASSUME NEW v \in Urls, v \notin disturbed
        PROVE  /\ headedRuns'[v] <= 1
               /\ headedRuns'[v] = 0 \/ HeadedRows(v) # {}
                    \/ \E q \in Scouts : /\ scout'[q].stage = "record_browser"
                                          /\ scout'[q].method = "headed"
                                          /\ scout'[q].url = v
    <3>1. CASE v = scout[s].url
      <4>1. HeadedRows(v) = {}
        BY <1>1, <2>1, <3>1
      <4>2. ASSUME NEW q \in Scouts, scout[q].stage = "record_browser", scout[q].url = v
            PROVE  FALSE
        BY <1>1, <2>1, <3>1, <4>2 DEF Inv, Alone
      <4>3. headedRuns[v] = 0
        BY <2>1, <4>1, <4>2 DEF Inv, HeadedCounted
      <4>4. headedRuns'[v] = 1
        BY <3>1, <4>3 DEF Headed, Inv, TypeOK
      <4>. QED
        BY <1>3, <3>1, <4>4
    <3>2. CASE v # scout[s].url
      <4>1. headedRuns'[v] = headedRuns[v]
        BY <3>2 DEF Headed, Inv, TypeOK
      <4>2. \A q \in Scouts : scout[q].stage = "record_browser" => scout'[q] = scout[q]
        BY <1>1, <1>2
      <4>. QED
        BY <2>1, <4>1, <4>2 DEF Inv, HeadedCounted
    <3>. QED
      BY <3>1, <3>2
  <2>. QED
    BY <1>2, <1>7, <2>1 DEF HeadedCounted
<1>. QED
  BY <1>4, <1>5, <1>6, <1>8, <1>9, <1>10, <1>11 DEF Inv

(* A row is recorded: the other scouts are elsewhere, or their URL is        *)
(* disturbed.                                                                *)
LEMMA RowStep ==
  ASSUME Inv, TypeOK', NEW s \in Scouts, scout[s].stage \in {"record", "record_browser"},
         \A q \in Scouts \ {s} : scout'[q] = scout[q], ScoutOK(scout[s])',
         scout'[s].stage # "idle" => scout'[s].url = scout[s].url,
         fetches' = fetches \cup {Row(s)},
         \A u \in Urls \ {scout[s].url} : urls'[u] = urls[u],
         UNCHANGED <<hosts, site, served, requests, headedRuns, disturbed>>,
         OneHeadedIndex(s), StateMatchesRows'
  PROVE  Inv'
<1>1. /\ scout[s] \in Scout /\ ScoutOK(scout[s]) /\ scout[s].url \in Urls
      /\ scout \in [Scouts -> Scout]
  BY Facts DEF Inv, TypeOK
<1>2. Row(s).url = scout[s].url /\ Row(s).method = scout[s].method /\ Row(s).run = scout[s].run
  BY DEF Row
<1>3. \A u : u # scout[s].url => HeadedRows(u)' = HeadedRows(u)
  BY <1>2 DEF HeadedRows
<1>4. \A u : HeadedRows(u) \subseteq HeadedRows(u)'
  BY DEF HeadedRows
<1>5. ScoutsOK'
  <2>1. ASSUME NEW q \in Scouts \ {s}, scout[q].stage # "idle",
               scout[q].url \notin disturbed'
        PROVE  /\ urls'[scout[q].url] = urls[scout[q].url]
               /\ HeadedRows(scout[q].url)' = HeadedRows(scout[q].url)
    <3>1. scout[q].url # scout[s].url /\ scout[q].url \in Urls
      BY <2>1, Facts DEF Inv, Alone
    <3>. QED
      BY <2>1, <3>1, <1>3
  <2>. QED
    BY <2>1, OthersOK
<1>6. Alone'
  BY <1>1 DEF Alone, Inv
<1>7. OneHeadedRow'
  BY <1>2 DEF Inv, OneHeadedRow, OneHeadedIndex, HeadedRows
<1>8. LadderOnlyWhenThin'
  <2>. DEFINE Below(row, below) ==
         /\ below.url = row.url /\ below.run = row.run
         /\ below.method = (IF row.method = "headed" THEN "headless" ELSE "http")
         /\ below.outcome = "ok" /\ below.page = "thin"
  <2>1. ASSUME NEW row \in fetches, row.method # "http"
        PROVE  \E below \in fetches : Below(row, below)
    BY <2>1 DEF Inv, LadderOnlyWhenThin, RowsOf
  <2>2. ASSUME Row(s).method # "http"
        PROVE  \E below \in fetches : Below(Row(s), below)
    <3>1. scout[s].stage = "record_browser" /\ scout[s].method \in {"headless", "headed"}
      BY <1>1, <1>2, <2>2 DEF ScoutOK, StageOK, Scout, Methods
    <3>2. scout[s].method = "headless" => WasThin(scout[s], "http")
      BY <1>1, <3>1 DEF ScoutOK, Climbed, OnRung
    <3>3. scout[s].method = "headed" => WasThin(scout[s], "headless")
      BY <1>1, <3>1 DEF ScoutOK, Climbed, OnRung
    <3>. QED
      BY <1>2, <3>1, <3>2, <3>3 DEF WasThin
  <2>3. \A row \in fetches' : row.method # "http" => \E below \in fetches' : Below(row, below)
    BY <2>1, <2>2
  <2>. QED
    BY <2>3 DEF LadderOnlyWhenThin, RowsOf
<1>9. HeadedCounted'
  <2>1. ASSUME NEW v \in Urls, v \notin disturbed
        PROVE  /\ headedRuns'[v] <= 1
               /\ headedRuns'[v] = 0 \/ HeadedRows(v)' # {}
                    \/ \E q \in Scouts : /\ scout'[q].stage = "record_browser"
                                          /\ scout'[q].method = "headed"
                                          /\ scout'[q].url = v
    <3>1. CASE v = scout[s].url /\ scout[s].method = "headed"
      <4>1. Row(s) \in HeadedRows(v)'
        BY <1>2, <3>1 DEF HeadedRows
      <4>. QED
        BY <2>1, <4>1 DEF Inv, HeadedCounted
    <3>2. CASE ~(v = scout[s].url /\ scout[s].method = "headed")
      BY <1>4, <2>1, <3>2 DEF Inv, HeadedCounted
    <3>. QED
      BY <3>1, <3>2
  <2>. QED
    BY <2>1 DEF HeadedCounted
<1>10. CopiesServed' /\ RobotsObeyed'
  BY DEF Inv, CopiesServed, RobotsObeyed
<1>. QED
  BY <1>5, <1>6, <1>7, <1>8, <1>9, <1>10 DEF Inv

LEMMA RowTyped ==
  ASSUME Inv, NEW s \in Scouts, scout[s].stage # "idle"
  PROVE  Row(s) \in FetchRow
BY Facts DEF Row, FetchRow, Scout

(* The state a fetch leaves rests on its own row.                            *)
LEMMA StatesRest ==
  ASSUME Inv, NEW s \in Scouts, NEW state \in {"fetched", "blocked", "failed"},
         fetches' = fetches \cup {Row(s)}, scout[s].url \in Urls,
         urls' = [urls EXCEPT ![scout[s].url] = state],
         ended' = ended \cup {scout[s].url},
         state = "fetched" => Readable(Row(s)),
         state = "blocked" => Row(s).outcome = "blocked",
         state = "failed" => ~Readable(Row(s))
  PROVE  StateMatchesRows'
<1>1. urls \in [Urls -> UrlStates] /\ Row(s).url = scout[s].url
  BY DEF Inv, TypeOK, Row
<1>2. \A u : RowsOf(u) \subseteq RowsOf(u)'
  BY DEF RowsOf
<1>3. ASSUME NEW u \in Urls
      PROVE  /\ urls'[u] = "fetched" => \E row \in RowsOf(u)' : Readable(row)
             /\ urls'[u] = "blocked" => \E row \in RowsOf(u)' : row.outcome = "blocked"
             /\ urls'[u] = "failed" => \E row \in RowsOf(u)' : ~Readable(row)
             /\ u \in ended' => urls'[u] \notin {"none", "new"}
  <2>1. CASE u = scout[s].url
    <3>1. PICK r : r = Row(s)
      OBVIOUS
    <3>2. r \in RowsOf(u)' /\ urls'[u] = state
      BY <1>1, <2>1, <3>1 DEF RowsOf
    <3>. QED
      BY <3>1, <3>2
  <2>2. CASE u # scout[s].url
    <3>1. urls'[u] = urls[u] /\ (u \in ended' => u \in ended)
      BY <1>1, <2>2
    <3>. QED
      BY <1>2, <3>1 DEF Inv, StateMatchesRows
  <2>. QED
    BY <2>1, <2>2
<1>. QED
  BY <1>3 DEF StateMatchesRows, Readable

(* The scout stands on the row it has just recorded.                         *)
LEMMA ClimbOK ==
  ASSUME Inv, NEW s \in Scouts, NEW method \in {"headless", "headed"},
         scout' = Climb(s, method), scout[s].stage \in {"record", "record_browser"},
         fetches' = fetches \cup {Row(s)}, UNCHANGED <<urls, served, disturbed>>,
         scout[s].outcome = "ok", scout[s].page = "thin",
         scout[s].method = (IF method = "headed" THEN "headless" ELSE "http"),
         method = "headed" => ~scout[s].spent
  PROVE  /\ ScoutOK(scout[s])' /\ scout'[s] \in Scout /\ scout'[s].url = scout[s].url
<1>1. /\ scout[s] \in Scout /\ ScoutOK(scout[s]) /\ scout \in [Scouts -> Scout]
  BY Facts DEF Inv, TypeOK
<1>2. scout'[s] = [stage |-> method, run |-> scout[s].run, url |-> scout[s].url,
                   hop |-> scout[s].hop, seen |-> scout[s].seen,
                   text |-> scout[s].text, method |-> method,
                   outcome |-> scout[s].outcome, page |-> scout[s].page,
                   spent |-> scout[s].spent]
  BY <1>1 DEF Climb, Scout
<1>3. scout'[s] \in Scout
  BY <1>1, <1>2 DEF Scout, Stages, Methods
<1>4. Permitted(scout[s].hop)'
  BY <1>1, <1>2 DEF Permitted, ScoutOK, MayAsk
<1>5. StageOK(scout[s])' /\ MayAsk(scout[s])'
  BY <1>1, <1>2, <1>4 DEF ScoutOK, StageOK, MayAsk
<1>6. /\ Row(s) \in fetches' /\ Row(s).url = scout[s].url /\ Row(s).run = scout[s].run
      /\ Row(s).method = scout[s].method /\ Row(s).outcome = "ok" /\ Row(s).page = "thin"
  BY DEF Row
<1>7. Climbed(scout[s])'
  BY <1>2, <1>6 DEF Climbed, OnRung, WasThin
<1>8. Undisturbed(scout[s])'
  <2>1. HeadedRows(scout[s].url)' = HeadedRows(scout[s].url)
    BY <1>2, <1>6 DEF HeadedRows
  <2>2. method = "headed" =>
           scout[s].stage = "record_browser" /\ scout[s].method = "headless"
    BY <1>1 DEF ScoutOK, StageOK
  <2>. QED
    BY <1>1, <1>2, <2>1, <2>2 DEF ScoutOK, Undisturbed, OnRung
<1>. QED
  BY <1>2, <1>3, <1>5, <1>7, <1>8 DEF ScoutOK

LEMMA RecordHttpInv == ASSUME Inv, NEW s \in Scouts, RecordHttp(s) PROVE Inv'
<1>. DEFINE thin == scout[s].outcome = "ok" /\ scout[s].page = "thin"
<1>1. /\ scout[s] \in Scout /\ ScoutOK(scout[s]) /\ scout[s].stage = "record"
      /\ scout[s].method = "http" /\ scout[s].url \in Urls
      /\ scout[s].outcome \in Outcomes /\ scout[s].page \in Pages
  BY Facts DEF RecordHttp, At, ScoutOK, StageOK, Scout
<1>2. /\ scout \in [Scouts -> Scout] /\ urls \in [Urls -> UrlStates]
      /\ fetches' = fetches \cup {Row(s)}
      /\ UNCHANGED <<hosts, site, served, requests, headedRuns, disturbed>>
  BY DEF Inv, TypeOK, RecordHttp, record_fetch
<1>3. /\ ScoutOK(scout[s])' /\ scout'[s] \in Scout
      /\ scout'[s].stage # "idle" => scout'[s].url = scout[s].url
      /\ \A q \in Scouts \ {s} : scout'[q] = scout[q]
      /\ scout' \in [Scouts -> Scout]
  <2>1. CASE thin
    <3>1. scout' = Climb(s, "headless") /\ urls' = urls
      BY <2>1 DEF RecordHttp, record_fetch
    <3>2. /\ ScoutOK(scout[s])' /\ scout'[s] \in Scout /\ scout'[s].url = scout[s].url
      BY <1>1, <1>2, <2>1, <3>1, ClimbOK
    <3>. QED
      BY <1>2, <3>1, <3>2 DEF Climb
  <2>2. CASE ~thin
    <3>1. scout' = Leave(s)
      BY <2>2 DEF RecordHttp
    <3>2. scout'[s] = Idle
      BY <1>2, <3>1 DEF Leave
    <3>3. ScoutOK(scout[s])'
      BY <3>2 DEF Idle, ScoutOK, StageOK, MayAsk, Climbed, OnRung, Undisturbed
    <3>. QED
      BY <1>2, <3>1, <3>2, <3>3, IdleOK DEF Leave, Idle
  <2>. QED
    BY <2>1, <2>2
<1>4. StateMatchesRows' /\ urls' \in [Urls -> UrlStates]
      /\ \A u \in Urls \ {scout[s].url} : urls'[u] = urls[u]
  <2>1. CASE thin
    <3>1. urls' = urls /\ ended' = ended
      BY <2>1 DEF RecordHttp, record_fetch
    <3>. QED
      BY <1>2, <3>1 DEF Inv, StateMatchesRows, RowsOf
  <2>2. CASE ~thin
    <3>1. PICK state \in {"fetched", "blocked", "failed"} :
            /\ state = "fetched" <=> scout[s].outcome = "ok"
            /\ state = "blocked" <=> scout[s].outcome = "blocked"
            /\ urls' = [urls EXCEPT ![scout[s].url] = state]
      BY <1>1, <2>2 DEF RecordHttp, record_fetch, Outcomes
    <3>2. ended' = ended \cup {scout[s].url}
      BY <2>2 DEF RecordHttp
    <3>3. Row(s).outcome = scout[s].outcome /\ Row(s).page = scout[s].page
      BY DEF Row
    <3>4. scout[s].outcome = "ok" => scout[s].page = "readable"
      BY <1>1, <2>2 DEF ScoutOK, StageOK, Pages
    <3>5. StateMatchesRows'
      BY <1>1, <1>2, <3>1, <3>2, <3>3, <3>4, StatesRest DEF Readable
    <3>. QED
      BY <1>1, <1>2, <3>1, <3>5 DEF UrlStates
  <2>. QED
    BY <2>1, <2>2
<1>5. TypeOK'
  <2>1. fetches' \subseteq FetchRow
    BY <1>1, <1>2, RowTyped DEF Inv, TypeOK
  <2>2. ended' \subseteq Urls
    BY <1>1 DEF RecordHttp, Inv, TypeOK
  <2>. QED
    BY <1>3, <1>4, <2>1, <2>2 DEF RecordHttp, Inv, TypeOK
<1>. QED
  BY <1>1, <1>2, <1>3, <1>4, <1>5, RowStep DEF OneHeadedIndex

LEMMA RecordBrowserInv == ASSUME Inv, NEW s \in Scouts, RecordBrowser(s) PROVE Inv'
<1>1. /\ scout[s] \in Scout /\ ScoutOK(scout[s]) /\ scout[s].stage = "record_browser"
      /\ scout[s].method \in {"headless", "headed"} /\ scout[s].url \in Urls
      /\ scout[s].outcome \in Outcomes /\ scout[s].page \in Pages
  BY Facts DEF RecordBrowser, At, ScoutOK, StageOK, Scout, Methods
<1>2. /\ scout \in [Scouts -> Scout] /\ urls \in [Urls -> UrlStates]
      /\ fetches' = fetches \cup {Row(s)} /\ OneHeadedIndex(s)
      /\ UNCHANGED <<hosts, site, served, requests, headedRuns, disturbed>>
  BY DEF Inv, TypeOK, RecordBrowser, record_fetch
<1>3. /\ ScoutOK(scout[s])' /\ scout'[s] \in Scout
      /\ scout'[s].stage # "idle" => scout'[s].url = scout[s].url
      /\ \A q \in Scouts \ {s} : scout'[q] = scout[q]
      /\ scout' \in [Scouts -> Scout]
  <2>1. CASE ~IsLast(s)
    <3>1. scout' = Climb(s, "headed") /\ urls' = urls
      BY <2>1 DEF RecordBrowser, record_fetch
    <3>2. /\ scout[s].outcome = "ok" /\ scout[s].page = "thin"
          /\ scout[s].method = "headless" /\ ~scout[s].spent
      BY <1>1, <2>1 DEF IsLast, ScoutOK, StageOK
    <3>3. /\ ScoutOK(scout[s])' /\ scout'[s] \in Scout /\ scout'[s].url = scout[s].url
      BY <1>1, <1>2, <3>1, <3>2, ClimbOK
    <3>. QED
      BY <1>2, <3>1, <3>3 DEF Climb
  <2>2. CASE IsLast(s)
    <3>1. scout' = Leave(s)
      BY <2>2 DEF RecordBrowser
    <3>2. scout'[s] = Idle
      BY <1>2, <3>1 DEF Leave
    <3>3. ScoutOK(scout[s])'
      BY <3>2 DEF Idle, ScoutOK, StageOK, MayAsk, Climbed, OnRung, Undisturbed
    <3>. QED
      BY <1>2, <3>1, <3>2, <3>3, IdleOK DEF Leave, Idle
  <2>. QED
    BY <2>1, <2>2
<1>4. StateMatchesRows' /\ urls' \in [Urls -> UrlStates]
      /\ \A u \in Urls \ {scout[s].url} : urls'[u] = urls[u]
  <2>1. CASE ~IsLast(s)
    <3>1. urls' = urls /\ ended' = ended
      BY <2>1 DEF RecordBrowser, record_fetch
    <3>. QED
      BY <1>2, <3>1 DEF Inv, StateMatchesRows, RowsOf
  <2>2. CASE IsLast(s)
    <3>1. PICK state \in {"fetched", "blocked", "failed"} :
            /\ state = "fetched" <=> scout[s].outcome = "ok" /\ scout[s].page = "readable"
            /\ state = "blocked" <=> scout[s].outcome = "blocked"
            /\ urls' = [urls EXCEPT ![scout[s].url] = state]
      <4>1. /\ BrowserState(s) \in {"fetched", "blocked", "failed"}
            /\ BrowserState(s) = "fetched" <=>
                  scout[s].outcome = "ok" /\ scout[s].page = "readable"
            /\ BrowserState(s) = "blocked" <=> scout[s].outcome = "blocked"
        BY DEF BrowserState
      <4>2. urls' = [urls EXCEPT ![scout[s].url] = BrowserState(s)]
        BY <2>2, <4>1 DEF RecordBrowser, record_fetch
      <4>. QED
        BY <4>1, <4>2
    <3>2. ended' = ended \cup {scout[s].url}
      BY <2>2 DEF RecordBrowser
    <3>3. Row(s).outcome = scout[s].outcome /\ Row(s).page = scout[s].page
      BY DEF Row
    <3>4. StateMatchesRows'
      BY <1>1, <1>2, <3>1, <3>2, <3>3, StatesRest DEF Readable
    <3>. QED
      BY <1>1, <1>2, <3>1, <3>4 DEF UrlStates
  <2>. QED
    BY <2>1, <2>2
<1>5. TypeOK'
  <2>1. fetches' \subseteq FetchRow
    BY <1>1, <1>2, RowTyped DEF Inv, TypeOK
  <2>2. ended' \subseteq Urls
    BY <1>1 DEF RecordBrowser, Inv, TypeOK
  <2>. QED
    BY <1>3, <1>4, <2>1, <2>2 DEF RecordBrowser, Inv, TypeOK
<1>. QED
  BY <1>1, <1>2, <1>3, <1>4, <1>5, RowStep

(* A scout is gone without a row: its headed attempt is on record, or its    *)
(* URL is disturbed.                                                         *)
LEMMA GoneStep ==
  ASSUME Inv, TypeOK', NEW s \in Scouts, scout' = Leave(s),
         UNCHANGED <<urls, hosts, fetches, site, served, requests, headedRuns, ended>>,
         disturbed \subseteq disturbed',
         scout[s].stage = "record_browser" /\ scout[s].method = "headed" =>
           scout[s].url \in disturbed' \/ HeadedRows(scout[s].url) # {}
  PROVE  Inv'
<1>1. /\ scout \in [Scouts -> Scout]
  BY DEF Inv, TypeOK
<1>2. scout'[s] = Idle /\ \A q \in Scouts \ {s} : scout'[q] = scout[q]
  BY <1>1 DEF Leave
<1>3. ScoutOK(scout[s])'
  BY <1>2 DEF Idle, ScoutOK, StageOK, MayAsk, Climbed, OnRung, Undisturbed
<1>4. \A u : HeadedRows(u)' = HeadedRows(u)
  BY DEF HeadedRows
<1>5. ScoutsOK'
  <2>1. \A q \in Scouts \ {s} :
          scout[q].stage # "idle" /\ scout[q].url \notin disturbed' =>
             /\ urls'[scout[q].url] = urls[scout[q].url]
             /\ HeadedRows(scout[q].url)' = HeadedRows(scout[q].url)
    BY <1>2 DEF HeadedRows
  <2>. QED
    BY <1>2, <1>3, <2>1, OthersOK
<1>6. Alone'
  BY <1>1, <1>2 DEF Inv, Alone, Idle
<1>7. /\ CopiesServed' /\ OneHeadedRow' /\ StateMatchesRows' /\ LadderOnlyWhenThin'
      /\ RobotsObeyed'
  BY DEF Inv, CopiesServed, OneHeadedRow, StateMatchesRows, LadderOnlyWhenThin, RowsOf,
         RobotsObeyed
<1>8. HeadedCounted'
  <2>1. ASSUME NEW v \in Urls, v \notin disturbed'
        PROVE  /\ headedRuns[v] <= 1
               /\ headedRuns[v] = 0 \/ HeadedRows(v) # {}
                    \/ \E q \in Scouts : /\ scout'[q].stage = "record_browser"
                                          /\ scout'[q].method = "headed"
                                          /\ scout'[q].url = v
    BY <1>2, <2>1 DEF Inv, HeadedCounted
  <2>. QED
    BY <1>4, <2>1 DEF HeadedCounted
<1>. QED
  BY <1>5, <1>6, <1>7, <1>8 DEF Inv

LEMMA RecordRefusedInv == ASSUME Inv, NEW s \in Scouts, RecordRefused(s) PROVE Inv'
<1>1. TypeOK'
  BY IdleOK DEF Inv, TypeOK, RecordRefused, Leave, history
<1>. QED
  BY <1>1, GoneStep DEF RecordRefused, OneHeadedIndex, history

LEMMA KillInv == ASSUME Inv, NEW s \in Scouts, Kill(s) PROVE Inv'
<1>1. scout[s].url \in Urls
  BY Facts
<1>2. kills' \in 0..MaxKills
  BY FetchBoundAssumption DEF Inv, TypeOK, Kill
<1>3. TypeOK'
  BY <1>1, <1>2, IdleOK DEF Inv, TypeOK, Kill, Leave
<1>. QED
  BY <1>3, GoneStep DEF Kill

LEMMA NextInv == Inv /\ [Next]_vars => Inv'
<1>. SUFFICES ASSUME Inv, [Next]_vars PROVE Inv'
  OBVIOUS
<1>1. CASE UNCHANGED vars
  BY <1>1 DEF vars, history, Inv, TypeOK, ScoutsOK, ScoutOK, StageOK, MayAsk, Permitted,
       Climbed, WasThin, OnRung, Undisturbed, HeadedRows, Alone, CopiesServed, OneHeadedRow,
       HeadedCounted, StateMatchesRows, RowsOf, LadderOnlyWhenThin, RobotsObeyed
<1>2. CASE \E u \in Urls : add_url(u)
  BY <1>2, add_urlInv
<1>3. CASE \E h \in Hosts : BlockHost(h) \/ SiteChanges(h) \/ CopyExpires(h)
  BY <1>3, BlockHostInv, SiteChangesInv, CopyExpiresInv
<1>4. CASE \E s \in Scouts : \E u \in Urls : Begin(s, u)
  BY <1>4, BeginInv
<1>5. CASE \E s \in Scouts : VetHost(s) \/ ReadRobots(s) \/ StoreRobots(s) \/ http_fetch(s)
  BY <1>5, VetHostInv, ReadRobotsInv, StoreRobotsInv, http_fetchInv
<1>6. CASE \E s \in Scouts : \/ RecordHttp(s) \/ Headless(s) \/ Headed(s)
                             \/ RecordBrowser(s) \/ RecordRefused(s) \/ Kill(s)
  BY <1>6, RecordHttpInv, HeadlessInv, HeadedInv, RecordBrowserInv, RecordRefusedInv, KillInv
<1>. QED
  BY <1>1, <1>2, <1>3, <1>4, <1>5, <1>6 DEF Next

THEOREM FetchInvariantHolds == Spec => []Inv
BY InitInv, NextInv, PTL DEF Spec
-------------------------------------------------------------------------------
(* The state stays of its types.                                             *)
THEOREM FetchTypeCorrect == Spec => []TypeOK
BY FetchInvariantHolds, PTL DEF Inv

(* The state of a URL rests on its rows, whatever the scouts' order.         *)
THEOREM StateAlwaysMatchesRows == Spec => []StateMatchesRows
BY FetchInvariantHolds, PTL DEF Inv

(* No rung of the browser without a thin page on the rung below.             *)
THEOREM LadderAlwaysEarned == Spec => []LadderOnlyWhenThin
BY FetchInvariantHolds, PTL DEF Inv

(* Every address the tool asks for, by http or through a browser, rests on a *)
(* robots.txt that allowed it within the day, whatever redirects, expiries,  *)
(* edits of robots.txt, other scouts and kills come between.                 *)
THEOREM RobotsAlwaysObeyed == Spec => []RobotsObeyed
BY FetchInvariantHolds, PTL DEF Inv

LEMMA HeadedOnceFollows == Inv => HeadedOnce
<1>. SUFFICES ASSUME Inv, NEW u \in Urls
              PROVE  /\ Cardinality(HeadedRows(u)) <= 1
                     /\ u \notin disturbed => headedRuns[u] <= 1
  BY DEF HeadedOnce
<1>1. CASE HeadedRows(u) = {}
  BY <1>1, FS_EmptySet DEF Inv, HeadedCounted
<1>2. CASE HeadedRows(u) # {}
  <2>1. PICK row : HeadedRows(u) = {row}
    BY <1>2 DEF HeadedRows, Inv, OneHeadedRow
  <2>. QED
    BY <2>1, FS_Singleton DEF Inv, HeadedCounted
<1>. QED
  BY <1>1, <1>2

(* One headed attempt per URL.                                               *)
THEOREM HeadedAlwaysOnce == Spec => []HeadedOnce
BY FetchInvariantHolds, HeadedOnceFollows, PTL

(* A captured or denied URL keeps its state as long as its fetches do not    *)
(* overlap.                                                                  *)
THEOREM SettledAlwaysStays == Spec => SettledStays
<1>1. Inv /\ [Next]_vars =>
        [\A u \in Urls \ disturbed :
           urls[u] \in {"fetched", "blocked"} => urls'[u] = urls[u]]_vars
  <2>. SUFFICES ASSUME Inv, Next, NEW u \in Urls \ disturbed,
                       urls[u] \in {"fetched", "blocked"}
                PROVE  urls'[u] = urls[u]
    OBVIOUS
  <2>1. urls \in [Urls -> UrlStates]
    BY DEF Inv, TypeOK
  <2>2. ASSUME NEW s \in Scouts, scout[s].stage # "idle" PROVE scout[s].url # u
    BY <2>2 DEF Inv, ScoutsOK, ScoutOK, Undisturbed, Settled
  <2>3. CASE \E v \in Urls : add_url(v)
    BY <2>1, <2>3 DEF add_url
  <2>4. CASE \E h \in Hosts : BlockHost(h) \/ SiteChanges(h) \/ CopyExpires(h)
    BY <2>4 DEF BlockHost, SiteChanges, CopyExpires
  <2>5. ASSUME NEW s \in Scouts, RecordHttp(s) PROVE urls'[u] = urls[u]
    BY <2>1, <2>2, <2>5 DEF RecordHttp, record_fetch, At
  <2>6. ASSUME NEW s \in Scouts, RecordBrowser(s) PROVE urls'[u] = urls[u]
    BY <2>1, <2>2, <2>6 DEF RecordBrowser, record_fetch, At
  <2>7. CASE \E s \in Scouts : \/ \E v \in Urls : Begin(s, v)
                               \/ VetHost(s) \/ ReadRobots(s) \/ StoreRobots(s)
                               \/ http_fetch(s) \/ Headless(s) \/ Headed(s)
                               \/ RecordRefused(s) \/ Kill(s)
    BY <2>7 DEF Begin, VetHost, ReadRobots, StoreRobots, http_fetch, Headless, Headed,
         RecordRefused, Kill
  <2>. QED
    BY <2>3, <2>4, <2>5, <2>6, <2>7 DEF Next
<1>. QED
  BY <1>1, FetchInvariantHolds, PTL DEF Spec, SettledStays
===============================================================================
