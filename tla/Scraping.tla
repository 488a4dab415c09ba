------------------------------ MODULE Scraping ------------------------------
(***************************************************************************)
(* One call of ScraperService.scrape: a pool of workers over a shared      *)
(* cursor, each taking a URL through its redirects. Every hop is checked   *)
(* against robots.txt, whose rules are kept per origin for as long as the  *)
(* process lives. What the web answers is a choice of the environment.     *)
(***************************************************************************)
EXTENDS Naturals, FiniteSets

CONSTANTS
    Workers,        \* "concurrency"
    MaxUrls,        \* bound: URLs of the call
    Pages,          \* addresses on the web
    Origin,         \* the origin of each
    Disallowed,     \* the pages that the robots.txt of their origin disallows
    MaxRedirects

ASSUME ScrapingAssumption ==
    /\ MaxUrls \in Nat /\ MaxRedirects \in Nat
    /\ Disallowed \subseteq Pages /\ DOMAIN Origin = Pages

VARIABLES
    cursor,         \* URLs taken so far
    fetch,          \* each worker: the URL it took, the page it is at, the hop, the step
    outcome,        \* each URL: is it under pages, under skipped, or neither
    robotsCache,    \* each origin: "unknown", its "rules", or "none"
    textRead,           \* history: the pages whose text was returned
    ruleless        \* history: the origins a load of whose rules has failed

scrapeVars == <<cursor, fetch, outcome, robotsCache, textRead, ruleless>>

Origins == {Origin[p] : p \in Pages}
Idle == [at |-> "idle"]
Fetches == [at : {"check", "robots", "load", "request"}, url : 1..MaxUrls, page : Pages, hop : 0..MaxRedirects]

ScrapeTypeOK ==
    /\ cursor \in 0..MaxUrls
    /\ fetch \in [Workers -> {Idle} \cup Fetches]
    /\ outcome \in [1..MaxUrls -> {"none", "page", "skipped"}]
    /\ robotsCache \in [Origins -> {"unknown", "rules", "none"}]
    /\ textRead \subseteq Pages /\ ruleless \subseteq Origins

ScrapeInit ==
    /\ cursor = 0 /\ fetch = [w \in Workers |-> Idle]
    /\ outcome = [u \in 1..MaxUrls |-> "none"]
    /\ robotsCache = [o \in Origins |-> "unknown"]
    /\ textRead = {} /\ ruleless = {}

At_(w, step) == fetch[w].at = step
Goto(w, step) == fetch' = [fetch EXCEPT ![w].at = step]

\* Whatever is thrown on the way is recorded, and the worker is free.
Record(w, result) ==
    /\ outcome' = [outcome EXCEPT ![fetch[w].url] = result]
    /\ fetch' = [fetch EXCEPT ![w] = Idle]

-----------------------------------------------------------------------------
Take(w) ==
    /\ At_(w, "idle") /\ cursor < MaxUrls
    /\ cursor' = cursor + 1
    /\ \E p \in Pages : fetch' = [fetch EXCEPT ![w] = [at |-> "check", url |-> cursor + 1, page |-> p, hop |-> 0]]
    /\ UNCHANGED <<outcome, robotsCache, textRead, ruleless>>

\* assertSafeUrl resolves the name and accepts or refuses the address.
CheckAddress(w) ==
    /\ At_(w, "check")
    /\ \/ Goto(w, "robots") /\ UNCHANGED outcome
       \/ Record(w, "skipped")
    /\ UNCHANGED <<cursor, robotsCache, textRead, ruleless>>

\* Mutant: only the first hop is checked.
Disallows_FirstHop(w) ==
    fetch[w].hop = 0 /\ robotsCache[Origin[fetch[w].page]] = "rules" /\ fetch[w].page \in Disallowed

Disallows(w) == robotsCache[Origin[fetch[w].page]] = "rules" /\ fetch[w].page \in Disallowed

RobotsAllows(w) ==
    /\ At_(w, "robots")
    /\ \/ robotsCache[Origin[fetch[w].page]] = "unknown" /\ Goto(w, "load") /\ UNCHANGED outcome
       \/ robotsCache[Origin[fetch[w].page]] # "unknown" /\ ~Disallows(w) /\ Goto(w, "request") /\ UNCHANGED outcome
       \/ Disallows(w) /\ Record(w, "skipped")
    /\ UNCHANGED <<cursor, robotsCache, textRead, ruleless>>

\* loadRobots answers: a failure means no rules, for good. Two workers that
\* found nothing both load, and the later one's answer stays.
LoadRobots(w) ==
    /\ At_(w, "load")
    /\ \E answer \in {"rules", "none"} :
        /\ robotsCache' = [robotsCache EXCEPT ![Origin[fetch[w].page]] = answer]
        /\ ruleless' = IF answer = "none" THEN ruleless \cup {Origin[fetch[w].page]} ELSE ruleless
    /\ Goto(w, "robots")
    /\ UNCHANGED <<cursor, outcome, textRead>>

\* A redirect is followed as a page of its own, up to the bound.
Redirect(w) ==
    /\ At_(w, "request")
    /\ \/ /\ fetch[w].hop < MaxRedirects
          /\ \E p \in Pages : fetch' = [fetch EXCEPT ![w].at = "check", ![w].page = p, ![w].hop = @ + 1]
          /\ UNCHANGED outcome
       \/ fetch[w].hop = MaxRedirects /\ Record(w, "skipped")
    /\ UNCHANGED <<cursor, robotsCache, textRead, ruleless>>

\* The page is read, or its status, type, size or a time-out rules it out.
Response(w) ==
    /\ At_(w, "request")
    /\ \/ Record(w, "page") /\ textRead' = textRead \cup {fetch[w].page}
       \/ Record(w, "skipped") /\ UNCHANGED textRead
    /\ UNCHANGED <<cursor, robotsCache, ruleless>>

ScrapeNext ==
    \E w \in Workers :
        \/ Take(w) \/ CheckAddress(w) \/ RobotsAllows(w) \/ LoadRobots(w) \/ Redirect(w) \/ Response(w)

ScrapeSpec == ScrapeInit /\ [][ScrapeNext]_scrapeVars

-----------------------------------------------------------------------------
(* Properties *)

\* No text of a page that its site's robots.txt disallows is ever returned,
\* however the request got there, unless a load of those rules has failed; and
\* a call that has run out of work accounts for every URL ("Never throws: a page
\* that fails is recorded in skipped and the rest continue").
RobotsRespected ==
    /\ \A p \in textRead : p \in Disallowed => Origin[p] \in ruleless
    /\ (cursor = MaxUrls /\ \A w \in Workers : At_(w, "idle")) => \A u \in 1..MaxUrls : outcome[u] # "none"
=============================================================================
