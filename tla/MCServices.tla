----------------------------- MODULE MCServices -----------------------------
(***************************************************************************)
(* Twenty modules that share no state, explored side by side: part says   *)
(* whose behaviours a state belongs to, and the variables of the others    *)
(* rest at one of their initial values.                                    *)
(***************************************************************************)
EXTENDS AgentSettings, MembershipCache, ContentGeneration, Documents, Billing, Gateway,
        Planning, Scraping, Channels, BrandImport, Assistant, Requests, AgentTools, Reports,
        Organizations, MediaJobs, Seed, LinkPages, Insights, Overlays, TLC

CONSTANTS x1, x2, y1, y2    \* calls in flight

Pair == {x1, x2}
OtherPair == {y1, y2}
Symmetry == Permutations(Pair) \cup Permutations(OtherPair)

\* Three addresses on two sites.
SiteOf == [p \in {1, 2, 3} |-> IF p = 3 THEN "blog" ELSE "shop"]

\* The last five months before a report, and the days it may be asked for.
MonthLengths == <<31, 28, 31, 30, 31>>
Day(m, d) == [m |-> m, d |-> d]
ReportDays == {Day(5, 15), Day(5, 31)}
BookedDays == {Day(3, 1), Day(4, 10)} \cup ReportDays

\* The browser cuts a search off at its "&".
HeardAs == [q \in Texts |-> IF q = "R&D" THEN "R" ELSE q]

VARIABLE part

Parts == {"budget", "guard", "membership", "generation", "documents", "numbers", "payments", "gateway",
          "prompts", "daily", "scraping", "channels", "brand", "assistant", "requests", "tools", "reports",
          "organizations", "media", "seed", "links", "insights", "palette", "toasts"}

servicesVars == <<vars, memberVars, genVars, docVars, billVars>>
adviceVars == <<linkPageVars, insightVars, overlayVars>>
officeVars == <<requestVars, toolVars, reportVars, orgVars, mediaVars, seedVars, adviceVars>>
moreVars == <<planVars, scrapeVars, channelVars, brandVars, assistantVars, officeVars>>

\* The choice of the initial values of a part at rest is narrowed to one.
ServicesInit ==
    /\ part \in Parts
    /\ MemberInit /\ (part # "membership" => \A u \in Users : row[u] = "none")
    /\ GenInit /\ (part # "generation" => usable = 0)
    /\ GateInit /\ insiders \in {{}} \cup (IF part = "gateway" THEN {Clients} ELSE {})
    /\ PlanInit /\ (part # "daily" => planHour = FALSE)
    /\ RequestInit
    /\ IF part = "requests" THEN belongs["acme"] = "OWNER" /\ belongs["bolt"] # "OWNER"
       ELSE belongs = [t \in Tenants |-> "none"]
    /\ ReportInit /\ (part # "reports" => today = Day(5, 15))
    /\ MediaInit /\ (part # "media" => medium = "video")
    /\ LinkPagesInit /\ (part # "links" => purpose = "reset")
    /\ InsightInit /\ (part # "insights" => ~connected)
    /\ Init /\ DocInit /\ BillInit /\ ScrapeInit /\ ChannelInit /\ BrandInit /\ AssistantInit
    /\ ToolInit /\ OrgInit /\ SeedInit /\ OverlaysInit

ServicesNext ==
    /\ UNCHANGED part
    /\ \/ /\ part = "budget" /\ UNCHANGED guardVars /\ Next
          /\ UNCHANGED <<memberVars, genVars, docVars, billVars, gateVars, moreVars>>
       \/ /\ part = "guard" /\ UNCHANGED budgetVars /\ Next
          /\ UNCHANGED <<memberVars, genVars, docVars, billVars, gateVars, moreVars>>
       \/ /\ part = "membership" /\ MemberNext
          /\ UNCHANGED <<vars, genVars, docVars, billVars, gateVars, moreVars>>
       \/ /\ part = "generation" /\ GenNext
          /\ UNCHANGED <<vars, memberVars, docVars, billVars, gateVars, moreVars>>
       \/ /\ part = "documents" /\ DocNext
          /\ UNCHANGED <<vars, memberVars, genVars, billVars, gateVars, moreVars>>
       \/ /\ part = "numbers" /\ Numbering
          /\ UNCHANGED <<vars, memberVars, genVars, docVars, gateVars, moreVars>>
       \/ /\ part = "payments" /\ Paying
          /\ UNCHANGED <<vars, memberVars, genVars, docVars, gateVars, moreVars>>
       \/ /\ part = "gateway" /\ GateNext
          /\ UNCHANGED <<servicesVars, moreVars>>
       \/ /\ \/ part = "prompts" /\ Prompting
             \/ part = "daily" /\ PlanningTheDay
          /\ UNCHANGED <<servicesVars, gateVars, scrapeVars, channelVars, brandVars, assistantVars, officeVars>>
       \/ /\ part = "scraping" /\ ScrapeNext
          /\ UNCHANGED <<servicesVars, gateVars, planVars, channelVars, brandVars, assistantVars, officeVars>>
       \/ /\ part = "channels" /\ ChannelNext
          /\ UNCHANGED <<servicesVars, gateVars, planVars, scrapeVars, brandVars, assistantVars, officeVars>>
       \/ /\ part = "brand" /\ BrandNext
          /\ UNCHANGED <<servicesVars, gateVars, planVars, scrapeVars, channelVars, assistantVars, officeVars>>
       \/ /\ part = "assistant" /\ AssistantNext
          /\ UNCHANGED <<servicesVars, gateVars, planVars, scrapeVars, channelVars, brandVars, officeVars>>
       \/ /\ UNCHANGED <<servicesVars, gateVars, planVars, scrapeVars, channelVars, brandVars, assistantVars>>
          /\ \/ /\ part = "requests" /\ RequestNext
                /\ UNCHANGED <<toolVars, reportVars, orgVars, mediaVars, seedVars, adviceVars>>
             \/ /\ part = "tools" /\ ToolNext
                /\ UNCHANGED <<requestVars, reportVars, orgVars, mediaVars, seedVars, adviceVars>>
             \/ /\ part = "reports" /\ ReportNext
                /\ UNCHANGED <<requestVars, toolVars, orgVars, mediaVars, seedVars, adviceVars>>
             \/ /\ part = "organizations" /\ OrgNext
                /\ UNCHANGED <<requestVars, toolVars, reportVars, mediaVars, seedVars, adviceVars>>
             \/ /\ part = "media" /\ MediaNext
                /\ UNCHANGED <<requestVars, toolVars, reportVars, orgVars, seedVars, adviceVars>>
             \/ /\ part = "seed" /\ SeedNext
                /\ UNCHANGED <<requestVars, toolVars, reportVars, orgVars, mediaVars, adviceVars>>
             \/ /\ part = "links" /\ LinkPagesNext
                /\ UNCHANGED <<requestVars, toolVars, reportVars, orgVars, mediaVars, seedVars, insightVars, overlayVars>>
             \/ /\ part = "insights" /\ InsightNext
                /\ UNCHANGED <<requestVars, toolVars, reportVars, orgVars, mediaVars, seedVars, linkPageVars, overlayVars>>
             \/ /\ \/ part = "palette" /\ PaletteNext
                   \/ part = "toasts" /\ ToastNext
                /\ UNCHANGED <<requestVars, toolVars, reportVars, orgVars, mediaVars, seedVars, linkPageVars, insightVars>>

ServicesSpec == ServicesInit /\ [][ServicesNext]_<<part, servicesVars, gateVars, moreVars>>

\* What tells two states apart: the variables of the part, as the others never change.
ServicesView ==
    <<part,
      CASE part \in {"budget", "guard"} -> vars
        [] part = "membership" -> memberVars
        [] part = "generation" -> genVars
        [] part = "documents" -> docVars
        [] part \in {"numbers", "payments"} -> billVars
        [] part = "gateway" -> gateVars
        [] part \in {"prompts", "daily"} -> planVars
        [] part = "scraping" -> scrapeVars
        [] part = "channels" -> channelVars
        [] part = "brand" -> brandVars
        [] part = "assistant" -> assistantVars
        [] OTHER -> officeVars>>

\* Every service keeps its variables in their types: the types of a row, of what
\* a call has read of it and of the step the call is at. What rests stays as it was.
ServicesTypeOK ==
    CASE part \in {"budget", "guard"} -> TypeOK
      [] part = "membership" -> MemberTypeOK
      [] part = "generation" -> GenTypeOK
      [] part = "documents" -> DocTypeOK
      [] part \in {"numbers", "payments"} -> BillTypeOK
      [] part = "gateway" -> GateTypeOK
      [] part \in {"prompts", "daily"} -> PlanTypeOK
      [] part = "scraping" -> ScrapeTypeOK
      [] part = "channels" -> ChannelTypeOK
      [] part = "brand" -> BrandTypeOK
      [] part = "assistant" -> AssistantTypeOK
      [] part = "requests" -> RequestTypeOK
      [] part = "tools" -> ToolTypeOK
      [] part = "reports" -> ReportTypeOK
      [] part = "organizations" -> OrgTypeOK
      [] part = "media" -> MediaTypeOK
      [] part = "seed" -> SeedTypeOK
      [] part = "links" -> LinkPagesTypeOK
      [] part = "insights" -> InsightTypeOK
      [] part \in {"palette", "toasts"} -> OverlaysTypeOK

\* What a person has written or connected is not undone by what runs by itself,
\* each with the exceptions of its own module: the prompts of the agents
\* (ensureDefaultAgents), the brand profile (imports of the website), the
\* channel accounts (health checks).
EditsStay == PromptStays /\ HumanEditsWin /\ ExpiredIsTrue

\* The screen shows what there is: the team's chat page the messages that are
\* stored, the assistant its questions and answers in order, also when a
\* conversation is cleared while an answer is awaited, the palette what was
\* searched for, and the toasts what is to be told.
ScreensAreTrue == ViewIsHistory /\ AnswersInPlace /\ PaletteShowsQuery /\ ToastsLastTheirTime

\* What is on record is so: the record of a generation, the rows of an agent's
\* run and of the tools it called, the figures of the reports and the advice drawn
\* from them, and what the pages of the mailed links report.
RecordsAreTrue ==
    /\ RecordIsTrue /\ CallsAreOnRecord /\ RunIsClosed
    /\ FiguresAgree /\ ChartIsWhole /\ TrendPointsRight
    /\ AdviceIsOfItsTime /\ PagesTellTheTruth

\* Whoever is let in is known: a socket, by the token it verified; a request, by
\* the user, the role and the organization the guards have read for it.
CallersAreKnown == KnownIsOpen /\ ActsForItsOrg /\ GateIsRight /\ AccessFollows

\* What several writes leave behind when one of them fails or comes too late is
\* there for the reason its module names: files without a document, organizations
\* without an owner, accounts nobody registered, media that is paid for and not
\* used, numbers of invoices that are taken, rows that are seeded twice, links
\* that are used up though nobody was told.
LeftoversExplained ==
    /\ LeakHasCause /\ FounderStays /\ PlaceholderHasCause
    /\ PaidMediaIsUsed /\ NextNumberIsFree /\ SeedIsOnce
    /\ LinksAreSpentOpenly
=============================================================================
