------------------------- MODULE ContentGeneration -------------------------
(***************************************************************************)
(* One request to generate a post (content.service.ts, generate). Research,*)
(* media prompt, video, image, a look at the picture and, last, the copy   *)
(* each ask the usable AI vendors in turn (failover.provider.ts). A stage  *)
(* that gets nothing degrades, and the pipeline record says so. The request*)
(* runs inline, or as a Bull job (content.queue.ts) that runs again when   *)
(* it throws and when its worker dies.                                     *)
(***************************************************************************)
EXTENDS Naturals

CONSTANTS
    MaxVendors,     \* AI providers with a key, at most
    MaxRuns,        \* "attempts: 2"
    MaxStalls,      \* Bull's maxStalledCount
    TextTries       \* tries of one text call by one vendor

ASSUME GenerationAssumption ==
    /\ MaxVendors \in Nat
    /\ MaxRuns \in Nat \ {0} /\ MaxStalls \in Nat /\ TextTries \in Nat \ {0}

VARIABLES
    usable,         \* number of vendors with a key: 1..usable, in failover order
    genHalted,      \* the kill-switch of the organization
    queued, media,  \* is it a job; the media its draft needs
    genPc,          \* what it is doing: a stage, or a step of Steps
    throws, stalls, \* runs that threw; runs whose worker died
    vendor, tries,  \* the vendor being asked, its failed tries at this text
    pipeline,       \* the pipeline record of this run
    drafts,         \* content items created for the request
    silent,         \* history: the vendors that failed this run, by graded stage
    lateDeaths      \* history: workers that died after the insert

runVars == <<vendor, tries, pipeline, silent>>
jobVars == <<usable, queued, media, throws, stalls>>
genVars == <<genHalted, genPc, runVars, jobVars, drafts, lateDeaths>>

\* In the order of generate. "parse" structures the findings of "research".
StageOrder == <<"research", "parse", "mediaPrompt", "video", "image", "vision", "copy">>
Stages == {StageOrder[i] : i \in DOMAIN StageOrder}
TextStages == {"parse", "mediaPrompt", "copy"}
Graded == {"research", "video", "image"}    \* degraded if, and only if, no vendor answers
GenSteps == {"new", "waiting", "check", "charge", "save", "saved", "backoff", "done", "failed"}
Running == Stages \cup {"check", "charge", "save", "saved"}

Results == {"none", "ok", "unverified", "skipped", "placeholder", "fallback"}
NoRecord == [s \in Stages |-> "none"]

GenTypeOK ==
    /\ usable \in 0..MaxVendors
    /\ genHalted \in BOOLEAN /\ queued \in BOOLEAN
    /\ media \subseteq {"image", "video"}
    /\ genPc \in Stages \cup GenSteps
    /\ throws \in 0..MaxRuns /\ stalls \in 0..MaxStalls
    /\ vendor \in 1..(usable + 1) /\ tries \in 0..(TextTries - 1)
    /\ pipeline \in [Stages -> Results]
    /\ silent \in [Stages -> SUBSET (1..usable)]
    /\ drafts \in Nat /\ lateDeaths \in Nat

GenInit ==
    /\ usable \in 0..MaxVendors
    /\ genHalted = FALSE /\ queued = FALSE /\ media = {}
    /\ genPc = "new" /\ throws = 0 /\ stalls = 0
    /\ vendor = 1 /\ tries = 0
    /\ pipeline = NoRecord
    /\ silent = [s \in Stages |-> {}]
    /\ drafts = 0 /\ lateDeaths = 0

-----------------------------------------------------------------------------
(* The request and its runs *)

\* Queued, or inline with ?sync=true and for an agent's tool.
Submit(asJob, wanted) ==
    /\ genPc = "new"
    /\ queued' = asJob /\ media' = wanted
    /\ genPc' = "waiting"
    /\ UNCHANGED <<usable, genHalted, throws, stalls, runVars, drafts, lateDeaths>>

\* A run starts from nothing: what an earlier one found is lost.
BeginRun ==
    /\ genPc = "waiting"
    /\ genPc' = "check"
    /\ vendor' = 1 /\ tries' = 0
    /\ pipeline' = NoRecord
    /\ silent' = [s \in Stages |-> {}]
    /\ UNCHANGED <<genHalted, jobVars, drafts, lateDeaths>>

\* Whatever a run throws, the kill-switch's refusal included, ends an inline
\* request and costs a job one of its attempts.
Throw ==
    /\ throws' = throws + 1
    /\ genPc' = IF queued /\ throws + 1 < MaxRuns THEN "backoff" ELSE "failed"
    /\ UNCHANGED <<genHalted, usable, queued, media, stalls, runVars, drafts, lateDeaths>>

BackoffEnds ==
    /\ genPc = "backoff"
    /\ genPc' = "waiting"
    /\ UNCHANGED <<genHalted, runVars, jobVars, drafts, lateDeaths>>

Proceed(step) ==
    /\ genPc' = step
    /\ UNCHANGED <<genHalted, runVars, jobVars, drafts, lateDeaths>>

\* isHalted.
CheckSwitch ==
    /\ genPc = "check"
    /\ IF genHalted THEN Throw ELSE Proceed("charge")

\* consumeTokenBudget grants an estimate for the whole run, or refuses; then the
\* brand profile is read.
Charge ==
    /\ genPc = "charge"
    /\ Throw \/ Proceed("research")

\* The database and the disk, where the pipeline does not catch their errors:
\* a directory is made before a video is asked for, and a picture is stored
\* once a vendor has drawn it.
IoFails ==
    /\ genPc \in {"check", "charge", "video", "image", "save"}
    /\ genPc = "video" => vendor = 1 /\ usable > 0
    /\ genPc = "image" => vendor <= usable
    /\ Throw

-----------------------------------------------------------------------------
(* Asking the vendors *)

Position(s) == CHOOSE i \in DOMAIN StageOrder : StageOrder[i] = s

Needed == {"research", "copy"} \cup media
            \cup (IF usable > 0 THEN {"parse"} ELSE {})
            \cup (IF media # {} THEN {"mediaPrompt", "vision"} ELSE {})

StageAfter(s) ==
    LET later == {i \in DOMAIN StageOrder : i > Position(s) /\ StageOrder[i] \in Needed}
    IN IF later = {} THEN "save" ELSE StageOrder[CHOOSE i \in later : \A j \in later : i <= j]

\* What stage s takes from a vendor as an answer: any text, an empty one too,
\* where only an error counts as a failure, and only a usable result elsewhere.
\* "null" is the JSON value; "garbled" has no description in it.
Replies(s) ==
    CASE s = "parse" -> {"good", "empty", "null"}
      [] s \in {"mediaPrompt", "copy"} -> {"good", "empty"}
      [] s = "vision" -> {"good", "garbled", "null"}
      [] OTHER -> {"good"}

\* Without a key there is no research; with one, a brief that no vendor could
\* ground in the web is written from model knowledge and labelled as such.
Ungrounded == IF usable = 0 THEN "skipped" ELSE "unverified"

\* What the record says of stage s: "nothing" is what it gets of no vendor. The
\* media prompt has a stock text to fall back to, and is "ok" in any case.
ResultOf(s, got) ==
    IF got = "good" \/ s = "mediaPrompt" THEN "ok"
    ELSE CASE s = "research" -> Ungrounded
           [] s = "image" -> "placeholder"
           [] s = "copy" -> "fallback"
           [] OTHER -> "skipped"

\* Stage s settles and the run moves on; "parse" has no entry in the record.
Settle(s, got) ==
    /\ pipeline' = IF s = "parse" THEN pipeline ELSE [pipeline EXCEPT ![s] = ResultOf(s, got)]
    /\ vendor' = 1 /\ tries' = 0
    /\ genPc' = StageAfter(s)
    /\ UNCHANGED <<genHalted, jobVars, silent, drafts, lateDeaths>>

\* A draft without a picture has nothing to look at.
CanAsk(s) == vendor <= usable /\ (s = "vision" => pipeline["image"] = "ok")

\* Mutant: a stage gives up with the first vendor.
NothingToAsk_NoFailover(s) ==
    /\ genPc = s /\ (~CanAsk(s) \/ vendor > 1)
    /\ Settle(s, "nothing")

NothingToAsk(s) ==
    /\ genPc = s /\ ~CanAsk(s)
    /\ Settle(s, "nothing")

\* A field of the JSON value null is read, in the parser and after the picture
\* was looked at: that throws.
VendorAnswers(s, got) ==
    /\ genPc = s /\ CanAsk(s)
    /\ IF got = "null" THEN Throw ELSE Settle(s, got)

\* A transient error of a text call: the same vendor is asked again.
VendorHiccups(s) ==
    /\ genPc = s /\ s \in TextStages /\ CanAsk(s)
    /\ tries + 1 < TextTries
    /\ tries' = tries + 1
    /\ UNCHANGED <<genHalted, genPc, jobVars, vendor, pipeline, silent, drafts, lateDeaths>>

\* Any other error, or the last try: on to the next vendor.
VendorFails(s) ==
    /\ genPc = s /\ CanAsk(s)
    /\ silent' = IF s \in Graded THEN [silent EXCEPT ![s] = @ \cup {vendor}] ELSE silent
    /\ vendor' = vendor + 1 /\ tries' = 0
    /\ UNCHANGED <<genHalted, genPc, jobVars, pipeline, drafts, lateDeaths>>

-----------------------------------------------------------------------------
(* The draft *)

\* The content item is created, with the record in it.
Save ==
    /\ genPc = "save"
    /\ drafts' = drafts + 1
    /\ genPc' = "saved"
    /\ UNCHANGED <<genHalted, runVars, jobVars, lateDeaths>>

\* Mutant: an error of the gateway is not caught.
Finish_Throws ==
    /\ genPc = "saved"
    /\ Throw \/ Proceed("done")

\* The dashboard is told, and the job completed.
Finish ==
    /\ genPc = "saved"
    /\ Proceed("done")

\* The worker's process dies. Bull takes the stalled job up again, MaxStalls times.
WorkerDies ==
    /\ genPc \in Running
    /\ lateDeaths' = IF genPc = "saved" THEN lateDeaths + 1 ELSE lateDeaths
    /\ IF queued /\ stalls < MaxStalls
       THEN genPc' = "waiting" /\ stalls' = stalls + 1
       ELSE genPc' = "failed" /\ UNCHANGED stalls
    /\ UNCHANGED <<genHalted, usable, queued, media, throws, runVars, drafts>>

SetGenHalted ==
    /\ genHalted' = ~genHalted
    /\ UNCHANGED <<genPc, runVars, jobVars, drafts, lateDeaths>>

GenStep ==
    \/ \E asJob \in BOOLEAN, wanted \in SUBSET {"image", "video"} : Submit(asJob, wanted)
    \/ BeginRun \/ BackoffEnds \/ CheckSwitch \/ Charge \/ IoFails \/ Save \/ Finish \/ WorkerDies
    \/ \E s \in Stages :
        \/ NothingToAsk(s) \/ VendorHiccups(s) \/ VendorFails(s)
        \/ \E got \in Replies(s) : VendorAnswers(s, got)

GenNext == GenStep \/ SetGenHalted

GenSpec == GenInit /\ [][GenNext]_genVars

-----------------------------------------------------------------------------
(* Properties *)

\* The record of a run never claims what no vendor gave, and never gives up a
\* stage some vendor was not asked for: research, video and image are degraded
\* exactly if every usable vendor failed this very run, and the picture was
\* looked at only if there is one. "never silently claims the output was
\* researched when it wasn't".
RecordIsTrue ==
    /\ \A s \in Graded :
        pipeline[s] # "none" => (pipeline[s] = "ok" <=> silent[s] # 1..usable)
    /\ pipeline["vision"] = "ok" => pipeline["image"] = "ok"

\* A finished request has made one draft and a failed one none, but for one more
\* for every worker that died between the insert and the end of the job: a run
\* that is retried never leaves a draft behind.
DraftsExplained == drafts = lateDeaths + (IF genPc \in {"saved", "done"} THEN 1 ELSE 0)

=============================================================================
