--------------------------- MODULE RecordsProofs ---------------------------
(***************************************************************************)
(* What the services have on record is so, for every value of their        *)
(* constants: a generation, a run and its tools, the reports and the       *)
(* advice drawn from them, the pages of the mailed links, the invoices.    *)
(***************************************************************************)
EXTENDS ServicesProofs, WellFoundedInduction

-----------------------------------------------------------------------------
(* The record of a generation *)

\* The stages are numbered in their order, and a run goes from one to a later one.
LEMMA StagesInOrder ==
    /\ Stages = {"research", "parse", "mediaPrompt", "video", "image", "vision", "copy"}
    /\ DOMAIN StageOrder = 1..7
    /\ \A i \in 1..7 : StageOrder[i] \in Stages /\ Position(StageOrder[i]) = i
    /\ \A s \in Stages : Position(s) \in 1..7 /\ StageOrder[Position(s)] = s
    /\ \A s, r \in Stages : Position(s) = Position(r) => s = r
<1>1. DOMAIN StageOrder = 1..7 /\ Stages = {StageOrder[i] : i \in 1..7}
  BY DEF StageOrder, Stages
<1>2. Stages = {"research", "parse", "mediaPrompt", "video", "image", "vision", "copy"}
  BY DEF StageOrder, Stages
<1>3. \A i, j \in 1..7 : StageOrder[i] = StageOrder[j] => i = j
  BY DEF StageOrder
<1>4. ASSUME NEW i \in 1..7 PROVE Position(StageOrder[i]) = i
  BY <1>1, <1>3 DEF Position
<1> QED BY <1>1, <1>2, <1>4

LEMMA StageAfterIsLater ==
    ASSUME NEW s \in Stages
    PROVE  StageAfter(s) = "save" \/ (StageAfter(s) \in Stages /\ Position(StageAfter(s)) > Position(s))
<1> DEFINE later == {i \in DOMAIN StageOrder : i > Position(s) /\ StageOrder[i] \in Needed}
           Least(i) == i \in later /\ \A j \in later : i <= j
<1>1. CASE later = {}
  BY <1>1 DEF StageAfter
<1>2. CASE later # {}
  <2>1. later \subseteq 1..7
    BY StagesInOrder
  <2>2. \E i \in later : \A j \in later : i <= j
    <3> HIDE DEF later
    <3>1. CASE 1 \in later
      <4>1. \A j \in later : 1 <= j
        BY <3>1, <2>1
      <4> QED BY <4>1, <3>1
    <3>2. CASE 2 \in later /\ 1 \notin later
      <4>1. \A j \in later : 2 <= j
        BY <3>2, <2>1
      <4> QED BY <4>1, <3>2
    <3>3. CASE 3 \in later /\ 1 \notin later /\ 2 \notin later
      <4>1. \A j \in later : 3 <= j
        BY <3>3, <2>1
      <4> QED BY <4>1, <3>3
    <3>4. CASE 4 \in later /\ 1 \notin later /\ 2 \notin later /\ 3 \notin later
      <4>1. \A j \in later : 4 <= j
        BY <3>4, <2>1
      <4> QED BY <4>1, <3>4
    <3>5. CASE 5 \in later /\ 1 \notin later /\ 2 \notin later /\ 3 \notin later /\ 4 \notin later
      <4>1. \A j \in later : 5 <= j
        BY <3>5, <2>1
      <4> QED BY <4>1, <3>5
    <3>6. CASE 6 \in later /\ 1 \notin later /\ 2 \notin later /\ 3 \notin later /\ 4 \notin later /\ 5 \notin later
      <4>1. \A j \in later : 6 <= j
        BY <3>6, <2>1
      <4> QED BY <4>1, <3>6
    <3>7. CASE 7 \in later /\ 1 \notin later /\ 2 \notin later /\ 3 \notin later /\ 4 \notin later /\ 5 \notin later /\ 6 \notin later
      <4>1. \A j \in later : 7 <= j
        BY <3>7, <2>1
      <4> QED BY <4>1, <3>7
    <3>8. \E k \in 1..7 : k \in later
      BY <1>2, <2>1
    <3> QED BY <3>1, <3>2, <3>3, <3>4, <3>5, <3>6, <3>7, <3>8
  <2>3. PICK i \in later : StageAfter(s) = StageOrder[i]
    BY <1>2, <2>2 DEF StageAfter
  <2> QED BY <2>1, <2>3, StagesInOrder
<1> QED BY <1>1, <1>2

\* What has run so far of a run: the stage it is at has been refused by the vendors
\* before the one that is asked, what is to come has no entry and nobody has been
\* asked, and what is settled has the entry that its vendors earned.
Untouched(s) == pipeline[s] = "none" /\ silent[s] = {}
RunSoFar ==
    /\ genPc \in {"check", "charge"} => vendor = 1 /\ \A s \in Stages : Untouched(s)
    /\ genPc \in Stages =>
        /\ genPc \in Graded => silent[genPc] = 1..(vendor - 1)
        /\ pipeline[genPc] = "none"
        /\ \A s \in Stages : Position(s) > Position(genPc) => Untouched(s)

RecordInv ==
    /\ GenTypeOK
    /\ genPc \notin {"done", "failed"} => throws < MaxRuns
    /\ (~queued \/ genPc = "new") /\ genPc # "failed" => throws = 0
    /\ RunSoFar /\ RecordIsTrue

\* A step that leaves the record alone and does not enter a stage.
LEMMA RecordRests ==
    ASSUME RecordInv, GenTypeOK', UNCHANGED <<usable, pipeline, silent, vendor>>,
           genPc' \notin Stages, genPc' \in {"check", "charge"} => genPc \in {"check", "charge"},
           genPc' \notin {"done", "failed"} => throws' < MaxRuns,
           genPc' # "new", ~queued' /\ genPc' # "failed" => throws' = 0
    PROVE  RecordInv'
<1>1. RunSoFar'
  BY DEF RecordInv, RunSoFar, Untouched
<1> QED BY <1>1 DEF RecordInv, RecordIsTrue

LEMMA GenSteps_ == /\ Stages \cap GenSteps = {}
                   /\ {"new", "waiting", "check", "charge", "save", "saved", "backoff", "done", "failed"} = GenSteps
  BY StagesInOrder DEF GenSteps

LEMMA ThrowKeepsRecord ==
    ASSUME RecordInv, Throw, genPc \notin {"done", "failed"}
    PROVE  RecordInv'
<1> USE GenerationAssumption
<1>1. throws' \in 0..MaxRuns /\ throws' = throws + 1
  BY DEF Throw, RecordInv, GenTypeOK
<1>2. GenTypeOK'
  BY <1>1, GenSteps_ DEF Throw, RecordInv, GenTypeOK, runVars
<1>3. genPc' \in {"backoff", "failed"}
  BY DEF Throw
<1>4. genPc' = "backoff" => queued' /\ throws' < MaxRuns
  BY <1>1 DEF Throw
<1> QED BY <1>2, <1>3, <1>4, GenSteps_, RecordRests DEF Throw, runVars

\* A stage is settled: by an answer, or because there is nobody left to ask.
LEMMA SettleKeepsRecord ==
    ASSUME RecordInv, NEW s \in Stages, genPc = s, NEW g, Settle(s, g),
           g = "good" => CanAsk(s),
           s \in Graded /\ g # "good" => vendor = usable + 1
    PROVE  RecordInv'
<1> USE GenerationAssumption DEF Graded
<1>t. /\ usable \in Nat /\ vendor \in 1..(usable + 1) /\ pipeline \in [Stages -> Results]
      /\ silent \in [Stages -> SUBSET (1..usable)]
  BY DEF RecordInv, GenTypeOK
<1>1. ResultOf(s, g) \in Results
  BY DEF ResultOf, Ungrounded, Results
<1>2. pipeline' \in [Stages -> Results]
  BY <1>1, <1>t DEF Settle
<1>3. genPc' = StageAfter(s) /\ (genPc' = "save" \/ (genPc' \in Stages /\ Position(genPc') > Position(s)))
  BY StageAfterIsLater DEF Settle
<1>u. UNCHANGED <<usable, genHalted, queued, media, throws, stalls, silent, drafts, lateDeaths>> /\ vendor' = 1 /\ tries' = 0
  BY DEF Settle, jobVars
<1>4. GenTypeOK'
  <2>1. genPc' \in Stages \cup GenSteps
    BY <1>3, GenSteps_
  <2> QED BY <1>u, <1>2, <2>1 DEF RecordInv, GenTypeOK
<1>5. \A r \in Stages \ {s} : pipeline'[r] = pipeline[r]
  BY <1>t DEF Settle
<1>6. s # "parse" => pipeline'[s] = ResultOf(s, g)
  BY <1>t DEF Settle
<1>7. RunSoFar'
  <2>1. genPc' \notin {"check", "charge"}
    BY <1>3, GenSteps_
  <2>2. ASSUME genPc' \in Stages PROVE \A r \in Stages : Position(r) >= Position(genPc') => (Untouched(r))'
    <3> SUFFICES ASSUME NEW r \in Stages, Position(r) >= Position(genPc') PROVE (Untouched(r))'
      OBVIOUS
    <3>1. Position(r) > Position(s)
      BY <2>2, <1>3, StagesInOrder
    <3>2. Untouched(r) /\ r # s
      BY <3>1, StagesInOrder DEF RecordInv, RunSoFar
    <3> QED BY <3>2, <1>5, <1>u DEF Untouched
  <2>3. ASSUME genPc' \in Stages PROVE silent'[genPc'] = 1..(vendor' - 1)
    BY <2>2, <2>3, <1>u, StagesInOrder DEF Untouched
  <2>4. ASSUME genPc' \in Stages
        PROVE  pipeline'[genPc'] = "none" /\ \A r \in Stages : Position(r) > Position(genPc') => (Untouched(r))'
    BY <2>2, <2>4, StagesInOrder DEF Untouched
  <2> QED BY <2>1, <2>3, <2>4 DEF RunSoFar
<1>8. RecordIsTrue'
  <2>1. ASSUME NEW r \in Graded
        PROVE  pipeline'[r] # "none" => (pipeline'[r] = "ok" <=> silent'[r] # 1..usable')
    <3>1. CASE r # s
      BY <3>1, <1>5, <1>u, StagesInOrder DEF RecordInv, RecordIsTrue
    <3>2. CASE r = s
      <4>1. silent[s] = 1..(vendor - 1) /\ pipeline'[s] = ResultOf(s, g)
        BY <3>2, <1>6 DEF RecordInv, RunSoFar
      <4>2. CASE g = "good"
        <5>0. CanAsk(s)
          BY <4>2
        <5>1. vendor <= usable /\ ResultOf(s, g) = "ok"
          BY <4>2, <5>0 DEF CanAsk, ResultOf
        <5>2. usable \in 1..usable /\ usable \notin 1..(vendor - 1)
          BY <1>t, <5>1
        <5> QED BY <4>1, <5>1, <5>2, <3>2, <1>u
      <4>3. CASE g # "good"
        <5>1. ResultOf(s, g) # "ok"
          BY <4>3, <3>2 DEF ResultOf, Ungrounded
        <5> QED BY <4>1, <4>3, <5>1, <3>2, <1>u, <1>t
      <4> QED BY <4>2, <4>3
    <3> QED BY <3>1, <3>2
  <2>2. pipeline'["vision"] = "ok" => pipeline'["image"] = "ok"
    <3>1. CASE s = "vision"
      <4>1. pipeline'["vision"] = "ok" => g = "good"
        BY <1>6, <3>1 DEF ResultOf
      <4> QED BY <4>1, <3>1, <1>5, StagesInOrder DEF CanAsk
    <3>2. CASE s = "image"
      <4>1. Position("vision") > Position("image")
        <5>1. StageOrder[5] = "image" /\ StageOrder[6] = "vision"
          BY DEF StageOrder
        <5> QED BY <5>1, StagesInOrder
      <4>2. pipeline["vision"] = "none"
        BY <3>2, <4>1, StagesInOrder DEF RecordInv, RunSoFar, Untouched
      <4> QED BY <4>2, <3>2, <1>5, StagesInOrder
    <3>3. CASE s \notin {"vision", "image"}
      BY <3>3, <1>5, StagesInOrder DEF RecordInv, RecordIsTrue
    <3> QED BY <3>1, <3>2, <3>3
  <2> QED BY <2>1, <2>2 DEF RecordIsTrue
<1> QED BY <1>3, <1>4, <1>7, <1>8, <1>u, GenSteps_ DEF RecordInv

LEMMA RecordStep == RecordInv /\ [GenNext]_genVars => RecordInv'
<1> USE GenerationAssumption DEF Graded
<1> SUFFICES ASSUME RecordInv, [GenNext]_genVars PROVE RecordInv'
  OBVIOUS
<1>t. GenTypeOK /\ Stages \cap GenSteps = {} /\ usable \in Nat
  BY GenSteps_ DEF RecordInv, GenTypeOK
<1>1. ASSUME NEW asJob \in BOOLEAN, NEW wanted \in SUBSET {"image", "video"}, Submit(asJob, wanted)
      PROVE RecordInv'
  <2>1. GenTypeOK' /\ throws < MaxRuns
    BY <1>1, <1>t, GenSteps_ DEF Submit, GenTypeOK, RecordInv, runVars
  <2>2. throws = 0
    BY <1>1, <1>t DEF Submit, RecordInv
  <2> QED BY <1>1, <2>1, <2>2, RecordRests, GenSteps_ DEF Submit, runVars
<1>2. CASE BeginRun
  <2>1. vendor' \in 1..(usable' + 1) /\ 1..(vendor' - 1) = {} /\ tries' \in 0..(TextTries - 1)
    BY <1>2, <1>t DEF BeginRun, jobVars
  <2>2. pipeline' \in [Stages -> Results] /\ silent' \in [Stages -> SUBSET (1..usable')]
    BY <1>2 DEF BeginRun, NoRecord, Results
  <2>3. GenTypeOK'
    BY <1>2, <2>1, <2>2, <1>t, GenSteps_ DEF BeginRun, GenTypeOK, jobVars
  <2>4. genPc' = "check" /\ \A s \in Stages : (Untouched(s))'
    BY <1>2 DEF BeginRun, NoRecord, Untouched
  <2>5. RunSoFar'
    BY <2>4, <1>t, <1>2, GenSteps_ DEF RunSoFar, BeginRun
  <2>6. RecordIsTrue'
    BY <2>4, StagesInOrder DEF RecordIsTrue, Untouched
  <2> QED BY <1>2, <2>3, <2>4, <2>5, <2>6 DEF BeginRun, RecordInv, jobVars
<1>p. ASSUME NEW step, Proceed(step), step \in GenSteps \ {"new", "check", "failed"}, step = "charge" => genPc = "check",
             genPc \notin {"done", "failed"}
      PROVE  RecordInv'
  <2>1. GenTypeOK'
    BY <1>p, <1>t DEF Proceed, GenTypeOK, runVars, jobVars
  <2> QED BY <2>1, <1>p, <1>t, RecordRests, GenSteps_ DEF Proceed, runVars, jobVars, RecordInv
<1>3. CASE BackoffEnds
  <2>1. Proceed("waiting")
    BY <1>3 DEF BackoffEnds, Proceed
  <2> QED BY <2>1, <1>p, <1>3, GenSteps_ DEF BackoffEnds
<1>4. CASE CheckSwitch
  BY <1>4, <1>p, ThrowKeepsRecord, GenSteps_ DEF CheckSwitch
<1>5. CASE Charge
  <2>1. CASE Proceed("research")
    <3>1. "research" \in Stages /\ GenTypeOK'
      BY <2>1, <1>t, StagesInOrder DEF Proceed, GenTypeOK, runVars, jobVars
    <3>2. vendor = 1 /\ \A s \in Stages : Untouched(s)
      BY <1>5 DEF Charge, RecordInv, RunSoFar
    <3>3. 1..(vendor - 1) = {}
      BY <3>2
    <3>4. RunSoFar'
      BY <2>1, <3>1, <3>2, <3>3, <1>t, GenSteps_ DEF RunSoFar, Proceed, runVars, Untouched
    <3> QED BY <1>5, <2>1, <3>1, <3>4 DEF Proceed, RecordInv, RecordIsTrue, runVars, jobVars, Charge
  <2> QED BY <2>1, <1>5, ThrowKeepsRecord, GenSteps_ DEF Charge
<1>6. CASE IoFails
  BY <1>6, ThrowKeepsRecord, GenSteps_, <1>t DEF IoFails
<1>7. CASE Save
  <2>1. GenTypeOK'
    BY <1>7, <1>t, GenSteps_ DEF Save, GenTypeOK, runVars, jobVars
  <2> QED BY <1>7, <2>1, RecordRests, GenSteps_ DEF Save, runVars, jobVars, RecordInv
<1>8. CASE Finish
  BY <1>8, <1>p, GenSteps_ DEF Finish
<1>9. CASE WorkerDies
  <2>1. GenTypeOK' /\ genPc' \in {"waiting", "failed"}
    BY <1>9, <1>t, GenSteps_ DEF WorkerDies, GenTypeOK, runVars
  <2>2. genPc \notin {"done", "failed"}
    BY <1>9, <1>t, GenSteps_ DEF WorkerDies, Running
  <2> QED BY <1>9, <2>1, <2>2, RecordRests, GenSteps_ DEF WorkerDies, runVars, RecordInv
<1>10. ASSUME NEW s \in Stages, NothingToAsk(s) PROVE RecordInv'
  <2>1. s \in Graded => vendor = usable + 1
    BY <1>10, <1>t DEF NothingToAsk, CanAsk, GenTypeOK
  <2> QED BY <1>10, <2>1, SettleKeepsRecord DEF NothingToAsk
<1>11. ASSUME NEW s \in Stages, NEW g \in Replies(s), VendorAnswers(s, g) PROVE RecordInv'
  <2>1. s \in Graded => g = "good"
    BY DEF Replies
  <2>2. genPc \notin {"done", "failed"}
    BY <1>11, <1>t, GenSteps_ DEF VendorAnswers
  <2> QED BY <1>11, <2>1, <2>2, SettleKeepsRecord, ThrowKeepsRecord DEF VendorAnswers
<1>12. ASSUME NEW s \in Stages, VendorHiccups(s) PROVE RecordInv'
  <2>1. GenTypeOK'
    BY <1>12, <1>t DEF VendorHiccups, GenTypeOK, jobVars
  <2>2. RunSoFar'
    BY <1>12, <1>t, GenSteps_ DEF VendorHiccups, RecordInv, RunSoFar, Untouched
  <2> QED BY <1>12, <2>1, <2>2 DEF VendorHiccups, RecordInv, RecordIsTrue, jobVars
<1>13. ASSUME NEW s \in Stages, VendorFails(s) PROVE RecordInv'
  <2>1. vendor \in 1..usable /\ vendor' = vendor + 1
    BY <1>13, <1>t DEF VendorFails, CanAsk, GenTypeOK
  <2>2. /\ s \in Graded => silent'[s] = silent[s] \cup {vendor}
        /\ \A r \in Stages \ {s} : silent'[r] = silent[r]
        /\ silent' \in [Stages -> SUBSET (1..usable)]
    BY <1>13, <1>t, <2>1 DEF VendorFails, GenTypeOK
  <2>3. GenTypeOK'
    BY <1>13, <1>t, <2>1, <2>2 DEF VendorFails, GenTypeOK, jobVars
  <2>4. s \in Graded => silent'[s] = 1..(vendor' - 1)
    BY <1>13, <2>1, <2>2 DEF VendorFails, RecordInv, RunSoFar
  <2>5. RunSoFar'
    BY <1>13, <1>t, GenSteps_, <2>2, <2>4, StagesInOrder DEF VendorFails, RecordInv, RunSoFar, Untouched
  <2>6. RecordIsTrue'
    BY <1>13, <2>2, StagesInOrder DEF VendorFails, RecordInv, RunSoFar, RecordIsTrue, jobVars
  <2> QED BY <1>13, <2>3, <2>5, <2>6 DEF VendorFails, RecordInv, jobVars
<1>14. CASE SetGenHalted
  <2>1. GenTypeOK'
    BY <1>14, <1>t DEF SetGenHalted, GenTypeOK, runVars, jobVars
  <2> QED BY <1>14, <2>1 DEF SetGenHalted, RecordInv, RunSoFar, RecordIsTrue, Untouched, runVars, jobVars
<1>15. CASE UNCHANGED genVars
  BY <1>15 DEF genVars, GenTypeOK, RecordInv, RunSoFar, RecordIsTrue, Untouched, runVars, jobVars
<1> QED BY <1>1, <1>2, <1>3, <1>4, <1>5, <1>6, <1>7, <1>8, <1>9, <1>10, <1>11, <1>12, <1>13, <1>14, <1>15
        DEF GenNext, GenStep

LEMMA RecordInitially == GenInit => RecordInv
<1> USE GenerationAssumption DEF Graded
<1> SUFFICES ASSUME GenInit PROVE RecordInv
  OBVIOUS
<1>1. GenTypeOK
  <2>1. /\ pipeline \in [Stages -> Results] /\ silent \in [Stages -> SUBSET (1..usable)] /\ media \subseteq {"image", "video"}
        /\ genPc \in Stages \cup GenSteps /\ genHalted \in BOOLEAN /\ queued \in BOOLEAN
    BY GenSteps_ DEF GenInit, NoRecord, Results
  <2>2. /\ usable \in 0..MaxVendors /\ throws \in 0..MaxRuns /\ stalls \in 0..MaxStalls
        /\ vendor \in 1..(usable + 1) /\ tries \in 0..(TextTries - 1) /\ drafts \in Nat /\ lateDeaths \in Nat
    BY DEF GenInit
  <2> QED BY <2>1, <2>2 DEF GenTypeOK
<1>2. RunSoFar
  BY GenSteps_ DEF GenInit, RunSoFar
<1>3. RecordIsTrue
  BY StagesInOrder DEF GenInit, RecordIsTrue, NoRecord
<1> QED BY <1>1, <1>2, <1>3 DEF GenInit, RecordInv

-----------------------------------------------------------------------------
(* The rows of an agent's run and of its tools *)

Deeds == [did : {"nothing", "part", "all"}, log : {"none", "ok", "error", "blocked"}, lost : 0..2, whole : BOOLEAN]
RunSteps == {"idle", "brand", "ask", "answer", "finish", "tool", "blocked", "ok", "error", "count", "complete", "fail", "over"}
RunRows == [status : {"none", "RUNNING", "COMPLETED", "FAILED"}, steps : 0..MaxCalls, cost : Nat]
Callings == [role : DOMAIN ToolsOf, tool : ToolNames \cup {"none"}]

\* What a deed's row says of what it did, whenever it was written.
DeedOK(d) ==
    /\ d.log = "error" /\ d.did = "all" => d.lost > 0
    /\ d.did = "part" => ~d.whole
    /\ d.log = "blocked" => d.did = "nothing"

\* The last call of a run that has a call to log, by the row that is to be written:
\* one that is to be logged as an error did not do its work, or the row that said so
\* was lost.
ToBeLogged(d) ==
    /\ d.log = "none"
    /\ runAt \in {"ok", "blocked"} => d.lost = 0
    /\ runAt = "blocked" => d.did = "nothing"
    /\ runAt = "error" => d.lost < 2 /\ (d.did = "all" => d.lost > 0)

ToolTypes ==
    /\ runAt \in RunSteps /\ calling \in Callings /\ (calling.tool # "none" <=> runAt = "tool")
    /\ deeds \in Seq(Deeds) /\ Len(deeds) <= MaxCalls /\ runRow \in RunRows
    /\ prompted \in Nat /\ losses \in 0..MaxLosses

\* The calls but the last are on record. The last one is too, unless its row is to be
\* written or was lost; the steps count it once its row is there.
ToolInv ==
    /\ ToolTypes
    /\ \A i \in 1..Len(deeds) : DeedOK(deeds[i]) /\ (i < Len(deeds) => deeds[i].log # "none")
    /\ runAt \in {"ok", "error", "blocked"} => Len(deeds) > 0 /\ ToBeLogged(deeds[Len(deeds)])
    /\ runAt \notin {"ok", "error", "blocked"} /\ Len(deeds) > 0 /\ deeds[Len(deeds)].log = "none" =>
        runAt \in {"fail", "over"} /\ deeds[Len(deeds)].lost > 0 /\ runRow.status # "COMPLETED"
    /\ runRow.steps \in {Len(deeds) - 1, Len(deeds)}
    /\ runAt \in {"idle", "brand", "ask", "answer", "finish", "tool", "complete"} => runRow.steps = Len(deeds)
    /\ runAt \in {"ok", "error", "blocked", "count"} => runRow.steps = Len(deeds) - 1
    /\ prompted <= Len(deeds) + 1
    /\ runAt \in {"idle", "brand", "ask"} => prompted <= Len(deeds)
    /\ runAt \in {"answer", "tool"} => Len(deeds) < MaxCalls
    /\ runAt \in {"ok", "error", "blocked", "count"} => prompted <= Len(deeds)
    /\ runAt = "fail" => losses > 0
    /\ runAt = "over" /\ losses = 0 => runRow.status = "COMPLETED"
    /\ runRow.status \in {"COMPLETED", "FAILED"} => runAt = "over" /\ runRow.cost = prompted
    /\ runRow.status = "COMPLETED" => runRow.steps = Len(deeds)

LEMMA ToolInvSays == ToolInv => ToolTypeOK /\ CallsAreOnRecord /\ RunIsClosed
<1> USE ToolsAssumption
<1> SUFFICES ASSUME ToolInv PROVE ToolTypeOK /\ CallsAreOnRecord /\ RunIsClosed
  OBVIOUS
<1>1. deeds \in Seq(Deeds) /\ Len(deeds) \in Nat /\ DOMAIN deeds = 1..Len(deeds) /\ \A i \in 1..Len(deeds) : deeds[i] \in Deeds
  BY DEF ToolInv, ToolTypes
<1>2. ToolTypeOK
  BY <1>1 DEF ToolInv, ToolTypes, ToolTypeOK, Callings, Deeds, RunSteps, RunRows
<1>3. CallsAreOnRecord
  BY <1>1 DEF ToolInv, CallsAreOnRecord, DeedOK
<1>4. RunIsClosed
  BY <1>1 DEF ToolInv, RunIsClosed
<1> QED BY <1>2, <1>3, <1>4

\* A step that makes no call and logs none. Where the run goes on, the last call is
\* on record.
LEMMA RunMoves ==
    ASSUME ToolInv, ToolTypes', UNCHANGED deeds,
           runAt' \notin {"ok", "error", "blocked", "count", "idle"},
           runAt' \notin {"fail", "over"} => runAt \notin {"fail", "over", "ok", "error", "blocked", "count"} \/ (runAt = "count" /\ runAt' = "ask"),
           runAt' \in {"fail", "over"} => runAt \notin {"ok", "error", "blocked"},
           runRow'.steps = IF runAt' = "ask" /\ runAt = "count" THEN Len(deeds) ELSE runRow.steps,
           prompted' \in {prompted, prompted + 1}, prompted' # prompted => runAt = "ask" /\ runAt' = "answer",
           runAt' \in {"brand", "ask"} => runAt \in {"idle", "brand", "ask", "count"},
           runAt' = "answer" => Len(deeds) < MaxCalls, runAt' = "tool" => runAt = "answer",
           losses' >= losses, runAt' = "fail" => losses' > 0,
           runAt' = "over" /\ losses' = 0 => runRow'.status = "COMPLETED",
           runRow'.status \in {"COMPLETED", "FAILED"} => runAt' = "over" /\ runRow'.cost = prompted',
           runRow'.status = "COMPLETED" => runAt = "complete" \/ runRow.status = "COMPLETED"
    PROVE  ToolInv'
<1> USE ToolsAssumption
<1>1. Len(deeds) \in Nat /\ prompted \in Nat
  BY DEF ToolInv, ToolTypes
<1>2. runAt \in RunSteps /\ runAt' \in RunSteps
  BY DEF ToolInv, ToolTypes
<1>3. runAt' \notin {"ok", "error", "blocked"} /\ Len(deeds') > 0 /\ deeds'[Len(deeds')].log = "none" =>
        runAt' \in {"fail", "over"} /\ deeds'[Len(deeds')].lost > 0 /\ runRow'.status # "COMPLETED"
  BY <1>1, <1>2 DEF ToolInv, RunSteps
<1>4. \A i \in 1..Len(deeds') : (DeedOK(deeds[i]))' /\ (i < Len(deeds') => deeds'[i].log # "none")
  BY DEF ToolInv, DeedOK
<1>5. /\ runRow'.steps \in {Len(deeds') - 1, Len(deeds')}
      /\ runAt' \in {"idle", "brand", "ask", "answer", "finish", "tool", "complete"} => runRow'.steps = Len(deeds')
      /\ runRow'.status = "COMPLETED" => runRow'.steps = Len(deeds')
  BY <1>1, <1>2 DEF ToolInv, RunSteps
<1>6. /\ prompted' <= Len(deeds') + 1
      /\ runAt' \in {"idle", "brand", "ask"} => prompted' <= Len(deeds')
      /\ runAt' \in {"answer", "tool"} => Len(deeds') < MaxCalls
  BY <1>1, <1>2 DEF ToolInv, RunSteps
<1> QED BY <1>3, <1>4, <1>5, <1>6 DEF ToolInv

LEMMA ToolStep == ToolInv /\ [ToolNext]_toolVars => ToolInv'
<1> USE ToolsAssumption
<1> SUFFICES ASSUME ToolInv, [ToolNext]_toolVars PROVE ToolInv'
  OBVIOUS
<1>t. /\ runAt \in RunSteps /\ calling \in Callings /\ (calling.tool # "none" <=> runAt = "tool")
      /\ deeds \in Seq(Deeds) /\ Len(deeds) \in Nat /\ Len(deeds) <= MaxCalls /\ runRow \in RunRows
      /\ prompted \in Nat /\ losses \in 0..MaxLosses
      /\ \A i \in 1..Len(deeds) : deeds[i] \in Deeds
  BY DEF ToolInv, ToolTypes
<1>n. "none" \notin ToolNames
  BY DEF ToolNames, ReadOnly, SeveralWrites, OneWrite
<1>l. ASSUME LoseWrite PROVE losses' \in 0..MaxLosses /\ losses' = losses + 1 /\ losses' # losses /\ losses' > 0
  BY <1>l, <1>t DEF LoseWrite
<1>r. /\ runRow.status \in {"none", "RUNNING", "COMPLETED", "FAILED"} /\ runRow.steps \in 0..MaxCalls /\ runRow.cost \in Nat
      /\ calling.role \in DOMAIN ToolsOf /\ calling.tool \in ToolNames \cup {"none"}
  BY <1>t DEF RunRows, Callings
<1>1. ASSUME NEW role \in DOMAIN ToolsOf, OpenRun(role) PROVE ToolInv'
  <2>1. calling' \in Callings /\ calling'.tool = "none"
    BY <1>1 DEF OpenRun, Silent, Callings
  <2>2. runRow' \in RunRows /\ runRow'.status = "RUNNING" /\ runRow'.steps = runRow.steps
    BY <1>1, <1>t, <1>r DEF OpenRun, RunRows
  <2>3. ToolTypes'
    BY <1>1, <1>t, <2>1, <2>2 DEF OpenRun, ToolTypes, RunSteps
  <2> QED BY <1>1, <2>2, <2>3, <1>t, RunMoves DEF OpenRun
<1>2. CASE BuildContext
  <2>1. losses' \in 0..MaxLosses /\ losses' >= losses
    BY <1>2, <1>t, <1>l DEF BuildContext, Step
  <2>2. ToolTypes'
    BY <1>2, <2>1, <1>t DEF BuildContext, Step, ToolTypes, RunSteps
  <2> QED BY <1>2, <2>1, <2>2, <1>t, <1>l, RunMoves DEF BuildContext, Step, ToolInv
<1>3. CASE Prompt
  <2>1. losses' \in 0..MaxLosses /\ losses' >= losses
    BY <1>3, <1>t, <1>l DEF Prompt
  <2>2. ToolTypes'
    BY <1>3, <2>1, <1>t DEF Prompt, ToolTypes, RunSteps
  <2> QED BY <1>3, <2>1, <2>2, <1>t, <1>l, RunMoves DEF Prompt, ToolInv
<1>4. CASE LogFinish
  <2>1. losses' \in 0..MaxLosses /\ losses' >= losses
    BY <1>4, <1>t, <1>l DEF LogFinish, Step
  <2>2. ToolTypes'
    BY <1>4, <2>1, <1>t DEF LogFinish, Step, ToolTypes, RunSteps
  <2> QED BY <1>4, <2>1, <2>2, <1>t, <1>l, RunMoves DEF LogFinish, Step, ToolInv
<1>5. CASE CountStep
  <2>1. losses' \in 0..MaxLosses /\ losses' >= losses
    BY <1>5, <1>t, <1>l DEF CountStep, Step
  <2>2. runRow' \in RunRows /\ runRow'.status = runRow.status /\ runRow'.cost = runRow.cost
    BY <1>5, <1>t, <1>r DEF CountStep, RunRows
  <2>3. runRow'.steps = IF runAt' = "ask" /\ runAt = "count" THEN Len(deeds) ELSE runRow.steps
    BY <1>5, <1>t, <1>r, <1>l DEF CountStep, Step, RunRows
  <2>4. ToolTypes'
    BY <1>5, <2>1, <2>2, <1>t DEF CountStep, Step, ToolTypes, RunSteps
  <2> QED BY <1>5, <2>1, <2>2, <2>3, <2>4, <1>t, <1>l, RunMoves DEF CountStep, Step, ToolInv
<1>6. ASSUME NEW tool \in ToolNames, Answer(tool) PROVE ToolInv'
  <2>1. losses' \in 0..MaxLosses /\ losses' >= losses
    BY <1>6, <1>t, <1>l DEF Answer
  <2>2. calling' \in Callings /\ (calling'.tool # "none" <=> runAt' = "tool")
    BY <1>6, <1>t, <1>n, <1>r DEF Answer, Callings
  <2>3. ToolTypes'
    BY <1>6, <2>1, <2>2, <1>t DEF Answer, ToolTypes, RunSteps
  <2> QED BY <1>6, <2>1, <2>3, <1>t, <1>l, RunMoves DEF Answer, ToolInv
<1>7. ASSUME NEW from \in {"complete", "fail"}, NEW closed \in {"COMPLETED", "FAILED"},
             closed = "COMPLETED" <=> from = "complete",
             CloseRun(from, closed, IF from = "complete" THEN "fail" ELSE "over")
      PROVE  ToolInv'
  <2>1. losses' \in 0..MaxLosses /\ losses' >= losses
    BY <1>7, <1>t, <1>l DEF CloseRun, Step
  <2>2. CASE losses' = losses
    <3>1. runAt = from /\ runAt' = "over"
      BY <1>7, <2>2, <1>l DEF CloseRun, Step
    <3>2. /\ runRow' \in RunRows /\ runRow'.status = closed /\ runRow'.cost = prompted
          /\ runRow'.steps = runRow.steps
      BY <1>7, <2>2, <1>t, <1>r DEF CloseRun, RunRows
    <3>4. from = "fail" => losses' > 0
      BY <3>1, <2>2 DEF ToolInv
    <3>3. ToolTypes'
      BY <1>7, <2>1, <3>1, <3>2, <1>t DEF CloseRun, ToolTypes, RunSteps
    <3>5. UNCHANGED <<calling, deeds, prompted>>
      BY <1>7 DEF CloseRun
    <3>6. /\ runAt' = "over" /\ losses' = 0 => runRow'.status = "COMPLETED"
          /\ runRow'.status \in {"COMPLETED", "FAILED"} => runAt' = "over" /\ runRow'.cost = prompted'
          /\ runRow'.status = "COMPLETED" => runAt = "complete" \/ runRow.status = "COMPLETED"
          /\ prompted' = prompted /\ runAt \in {"complete", "fail"}
      BY <1>7, <3>1, <3>2, <3>4, <3>5
    <3>7. /\ prompted' \in {prompted, prompted + 1} /\ (prompted' # prompted => runAt = "ask" /\ runAt' = "answer")
          /\ runRow'.steps = IF runAt' = "ask" /\ runAt = "count" THEN Len(deeds) ELSE runRow.steps
      BY <3>1, <3>2, <3>6
    <3>8. /\ runAt' \notin {"ok", "error", "blocked", "count", "idle"}
          /\ runAt' \notin {"fail", "over"} => runAt \notin {"fail", "over", "ok", "error", "blocked", "count"} \/ (runAt = "count" /\ runAt' = "ask")
          /\ runAt' \in {"fail", "over"} => runAt \notin {"ok", "error", "blocked"}
          /\ runAt' \in {"brand", "ask"} => runAt \in {"idle", "brand", "ask", "count"}
          /\ runAt' = "answer" => Len(deeds) < MaxCalls
          /\ runAt' = "tool" => runAt = "answer"
          /\ runAt' = "fail" => losses' > 0
      BY <3>1, <3>6
    <3>9. UNCHANGED deeds /\ losses' >= losses
      BY <2>1, <3>5
    <3>10. ToolInv
      OBVIOUS
    <3> QED BY <3>3, <3>6, <3>7, <3>8, <3>9, <3>10, RunMoves
  <2>3. CASE losses' # losses
    <3>1. runAt = from /\ runAt' \in {"fail", "over"} /\ losses' > 0 /\ runRow' = runRow
      BY <1>7, <2>3, <1>l DEF CloseRun, Step
    <3>2. ToolTypes'
      BY <1>7, <2>1, <3>1, <1>t DEF CloseRun, ToolTypes, RunSteps
    <3>3. UNCHANGED <<deeds, prompted>> /\ runRow.status \notin {"COMPLETED", "FAILED"} /\ (runAt' = "over" => from = "fail")
      BY <1>7, <2>3, <3>1 DEF CloseRun, Step, ToolInv
    <3> QED BY <1>7, <2>1, <3>1, <3>2, <3>3, RunMoves
  <2> QED BY <2>2, <2>3
<1>8. ASSUME NEW complete \in BOOLEAN, NEW found \in BOOLEAN, CallTool(complete, found) PROVE ToolInv'
  <2> DEFINE d(did) == [did |-> did, log |-> "none", lost |-> 0, whole |-> calling.tool \notin SeveralWrites]
  <2>0. runAt = "tool" /\ UNCHANGED <<runRow, prompted>>
    BY <1>8 DEF CallTool
  <2>1. PICK did \in {"nothing", "part", "all"} :
           /\ deeds' = Append(deeds, d(did)) /\ runAt' \in {"blocked", "ok", "error"}
           /\ runAt' = "blocked" => did = "nothing"
           /\ runAt' = "error" => did # "all"
           /\ did = "part" => calling.tool \in SeveralWrites
           /\ losses' \in 0..MaxLosses /\ losses' >= losses
    <3>1. CASE calling.tool \notin ToolsOf[calling.role]
      <4>1. deeds' = Append(deeds, d("nothing")) /\ runAt' = "blocked" /\ losses' = losses
        BY <1>8, <3>1 DEF CallTool, CallDone
      <4> QED BY <4>1, <1>t
    <3>2. CASE calling.tool \in ToolsOf[calling.role] /\ runAt' = "ok"
      <4>1. losses' = losses /\ \E did \in {"all", "nothing"} : deeds' = Append(deeds, d(did))
        BY <1>8, <3>2 DEF CallTool, CallDone
      <4> QED BY <4>1, <3>2, <1>t
    <3>3. CASE calling.tool \in ToolsOf[calling.role] /\ runAt' # "ok"
      <4>1. /\ runAt' = "error" /\ (losses' = losses \/ LoseWrite)
            /\ \/ deeds' = Append(deeds, d("nothing"))
               \/ deeds' = Append(deeds, d("part")) /\ calling.tool \in SeveralWrites
        BY <1>8, <3>3 DEF CallTool, CallDone
      <4> QED BY <4>1, <1>l, <1>t
    <3> QED BY <3>1, <3>2, <3>3
  <2>2. d(did) \in Deeds /\ DeedOK(d(did))
    <3>1. CASE calling.tool \in SeveralWrites
      <4>1. (calling.tool \notin SeveralWrites) = FALSE
        BY <3>1
      <4>2. [did |-> did, log |-> "none", lost |-> 0, whole |-> FALSE] \in Deeds
        BY DEF Deeds
      <4>3. d(did) = [did |-> did, log |-> "none", lost |-> 0, whole |-> FALSE]
        BY <4>1, Zenon
      <4> QED BY <4>2, <4>3 DEF DeedOK
    <3>2. CASE calling.tool \notin SeveralWrites
      <4>1. (calling.tool \notin SeveralWrites) = TRUE
        BY <3>2
      <4>2. [did |-> did, log |-> "none", lost |-> 0, whole |-> TRUE] \in Deeds
        BY DEF Deeds
      <4>3. d(did) = [did |-> did, log |-> "none", lost |-> 0, whole |-> TRUE]
        BY <4>1, Zenon
      <4> QED BY <2>1, <3>2, <4>2, <4>3 DEF DeedOK
    <3> QED BY <3>1, <3>2
  <2> HIDE DEF d
  <2>3. /\ deeds' \in Seq(Deeds) /\ Len(deeds') = Len(deeds) + 1 /\ deeds'[Len(deeds) + 1] = d(did)
        /\ \A i \in 1..Len(deeds) : deeds'[i] = deeds[i]
    BY <2>1, <2>2, <1>t
  <2>4. calling' \in Callings /\ calling'.tool = "none"
    BY <1>8, <1>t, <1>r DEF CallTool, Callings
  <2>5. Len(deeds) < MaxCalls /\ prompted <= Len(deeds) + 1 /\ runRow.steps = Len(deeds)
        /\ (Len(deeds) > 0 => deeds[Len(deeds)].log # "none")
        /\ runRow.status \notin {"COMPLETED", "FAILED"}
    BY <2>0 DEF ToolInv
  <2>6. ToolTypes'
    BY <2>0, <2>1, <2>3, <2>4, <2>5, <1>t DEF ToolTypes, RunSteps
  <2>7. \A i \in 1..Len(deeds') : (DeedOK(deeds[i]))' /\ (i < Len(deeds') => deeds'[i].log # "none")
    <3> SUFFICES ASSUME NEW i \in 1..Len(deeds') PROVE DeedOK(deeds'[i]) /\ (i < Len(deeds') => deeds'[i].log # "none")
      BY DEF DeedOK
    <3>1. CASE i = Len(deeds')
      BY <3>1, <2>2, <2>3
    <3>2. CASE i < Len(deeds')
      <4>1. i \in 1..Len(deeds) /\ deeds'[i] = deeds[i]
        BY <3>2, <2>3, <1>t
      <4>2. DeedOK(deeds[i]) /\ deeds[i].log # "none"
        BY <4>1, <2>5, <1>t DEF ToolInv
      <4> QED BY <4>1, <4>2
    <3> QED BY <3>1, <3>2, <2>3, <1>t
  <2>8. (ToBeLogged(deeds[Len(deeds)]))'
    BY <2>1, <2>3 DEF ToBeLogged, d
  <2> QED BY <2>0, <2>1, <2>3, <2>5, <2>6, <2>7, <2>8, <1>t DEF ToolInv
<1>9. ASSUME NEW logged \in {"ok", "error", "blocked"}, LogTool(logged) PROVE ToolInv'
  <2> DEFINE last == Len(deeds)
  <2>0. /\ runAt = logged /\ UNCHANGED <<calling, runRow, prompted>> /\ last > 0 /\ last \in 1..Len(deeds)
        /\ ToBeLogged(deeds[last]) /\ deeds[last] \in Deeds /\ DeedOK(deeds[last])
    BY <1>9, <1>t DEF LogTool, Step, LogAction, ToolInv
  <2>1. /\ runAt' \in RunSteps /\ losses' \in 0..MaxLosses /\ losses' >= losses
        /\ losses' = losses => runAt' = "count"
        /\ losses' # losses => runAt' = (IF logged = "ok" THEN "error" ELSE "fail") /\ losses' > 0
    BY <1>9, <1>t, <1>l DEF LogTool, Step, LogAction, RunSteps
  <2>e. DOMAIN deeds = 1..Len(deeds)
    BY <1>t
  <2>2. PICK e :
           /\ e = IF losses' = losses THEN [deeds[last] EXCEPT !.log = logged] ELSE [deeds[last] EXCEPT !.lost = deeds[last].lost + 1]
           /\ DOMAIN deeds' = DOMAIN deeds /\ deeds' = [i \in DOMAIN deeds |-> IF i = last THEN e ELSE deeds[i]]
    BY <1>9 DEF LogTool
  <2>3. /\ e \in Deeds /\ DeedOK(e) /\ e.did = deeds[last].did /\ e.whole = deeds[last].whole
        /\ losses' = losses => e.log = logged /\ e.lost = deeds[last].lost
        /\ losses' # losses => e.log = "none" /\ e.lost = deeds[last].lost + 1
    BY <2>0, <2>2 DEF Deeds, DeedOK, ToBeLogged
  <2>4. /\ deeds' \in Seq(Deeds) /\ Len(deeds') = Len(deeds) /\ deeds'[last] = e
        /\ \A i \in 1..Len(deeds) : i # last => deeds'[i] = deeds[i]
    <3>1. \A i \in 1..Len(deeds) : deeds'[i] = IF i = last THEN e ELSE deeds[i]
      BY <2>2, <2>e
    <3>2. deeds' \in [1..Len(deeds) -> Deeds]
      BY <2>2, <2>3, <2>e, <1>t
    <3>3. deeds' \in Seq(Deeds) /\ Len(deeds') = Len(deeds)
      BY <3>2, <1>t, SeqDef
    <3> QED BY <3>1, <3>3, <2>0
  <2>5. ToolTypes'
    BY <2>0, <2>1, <2>4, <1>t DEF ToolTypes, RunSteps
  <2>6. \A i \in 1..Len(deeds') : (DeedOK(deeds[i]))' /\ (i < Len(deeds') => deeds'[i].log # "none")
    <3> SUFFICES ASSUME NEW i \in 1..Len(deeds') PROVE DeedOK(deeds'[i]) /\ (i < Len(deeds') => deeds'[i].log # "none")
      BY DEF DeedOK
    <3>1. CASE i = last
      BY <3>1, <2>3, <2>4
    <3>2. CASE i # last
      BY <3>2, <2>4, <1>t DEF ToolInv
    <3> QED BY <3>1, <3>2
  <2>7. runAt' = "error" => (ToBeLogged(deeds[Len(deeds)]))'
    BY <2>0, <2>1, <2>3, <2>4 DEF ToBeLogged
  <2>8. runAt' = "fail" => e.lost > 0
    BY <2>0, <2>1, <2>3 DEF Deeds
  <2>9. /\ runRow.steps = Len(deeds) - 1 /\ prompted <= Len(deeds) /\ runRow.status \notin {"COMPLETED", "FAILED"}
        /\ runAt' \in {"count", "error", "fail"}
    BY <2>0, <2>1 DEF ToolInv
  <2> QED BY <2>0, <2>1, <2>3, <2>4, <2>5, <2>6, <2>7, <2>8, <2>9, <1>t DEF ToolInv
<1>10. CASE UNCHANGED toolVars
  BY <1>10 DEF toolVars, ToolInv, ToolTypes, DeedOK, ToBeLogged
<1>11. CASE CloseRun("complete", "COMPLETED", "fail")
  BY <1>11, <1>7
<1>12. CASE CloseRun("fail", "FAILED", "over")
  BY <1>12, <1>7
<1> QED BY <1>1, <1>2, <1>3, <1>4, <1>5, <1>6, <1>8, <1>9, <1>10, <1>11, <1>12 DEF ToolNext

LEMMA ToolInitially == ToolInit => ToolInv
<1> USE ToolsAssumption
<1> SUFFICES ASSUME ToolInit PROVE ToolInv
  OBVIOUS
<1>1. deeds \in Seq(Deeds) /\ Len(deeds) = 0
  BY DEF ToolInit
<1>2. Silent \in Callings /\ Silent.tool = "none" /\ runRow \in RunRows
  BY DEF ToolInit, Silent, Callings, ToolsOf, RunRows
<1> QED BY <1>1, <1>2 DEF ToolInit, ToolInv, ToolTypes, RunSteps

-----------------------------------------------------------------------------
(* Advice *)

LEMMA DivisionBounds ==
    ASSUME NEW x \in Nat, NEW y \in Nat \ {0}, NEW k \in Nat
    PROVE  x \div y \in Nat /\ (x < (k + 1) * y => x \div y <= k)
<1>1. x \div y \in Nat
  OBVIOUS
<1>2. x = y * (x \div y) + (x % y) /\ x % y \in 0..(y - 1)
  OBVIOUS
<1>3. ASSUME x \div y > k PROVE x >= (k + 1) * y
  <2> DEFINE q == x \div y
  <2>1. q \in Nat /\ q >= k + 1
    BY <1>1, <1>3
  <2>2. x >= y * q
    BY <1>2, <2>1
  <2>3. y * q >= y * (k + 1)
    <3> HIDE DEF q
    <3>1. PICK e \in Nat : q = (k + 1) + e
      BY <2>1
    <3>2. y * q = y * (k + 1) + y * e
      BY <3>1
    <3> QED BY <3>2
  <2> QED BY <2>2, <2>3
<1> QED BY <1>1, <1>3

LEMMA Odds ==
    ASSUME NEW o \in Nat, NEW n \in Nat, o <= n, n > 0
    PROVE  /\ (200 * o + n) \div (2 * n) \in 0..100
           /\ o = 0 => (200 * o + n) \div (2 * n) = 0
<1>1. 200 * o + n \in Nat /\ 2 * n \in Nat \ {0}
  OBVIOUS
<1>2. 200 * o + n < (100 + 1) * (2 * n)
  OBVIOUS
<1>3. o = 0 => 200 * o + n < (0 + 1) * (2 * n)
  OBVIOUS
<1> DEFINE x == 200 * o + n
           y == 2 * n
<1> HIDE DEF x, y
<1>4. x \div y \in Nat /\ (x < (100 + 1) * y => x \div y <= 100) /\ (x < (0 + 1) * y => x \div y <= 0)
  BY <1>1, DivisionBounds DEF x, y
<1>5. x \div y \in 0..100 /\ (o = 0 => x \div y = 0)
  BY <1>1, <1>2, <1>3, <1>4 DEF x, y
<1> QED BY <1>5 DEF x, y

\* A delay is as likely as the overdue tasks are many, and not at all if there are none.
LEMMA ChanceIs ==
    ASSUME NEW t \in Counts
    PROVE  Chance(t) \in 0..100 /\ (t.overdue = 0 => Chance(t) = 0)
<1> USE InsightAssumption
<1>1. t.done \in Nat /\ t.overdue \in Nat /\ t.open \in Nat
  BY DEF Counts
<1>2. TaskTotal(t) \in Nat /\ t.overdue <= TaskTotal(t)
  BY <1>1 DEF TaskTotal
<1> DEFINE n == TaskTotal(t)
           o == t.overdue
<1> HIDE DEF n, o
<1>a. n \in Nat /\ o \in Nat /\ o <= n
  BY <1>1, <1>2 DEF n, o
<1>3. n # 0 => (200 * o + n) \div (2 * n) \in 0..100 /\ (o = 0 => (200 * o + n) \div (2 * n) = 0)
  BY <1>a, Odds
<1> QED BY <1>3 DEF Chance, n, o

LEMMA RisksAre ==
    ASSUME NEW t \in Counts, NEW deadline \in BOOLEAN
    PROVE  /\ RisksOf(t, deadline) \subseteq Risks
           /\ Chance(t) > 0 => "overdue" \in RisksOf(t, deadline)
           /\ "low" \in RisksOf(t, deadline) => Chance(t) = 0 /\ deadline
<1> DEFINE named == {r \in {"overdue", "incomplete", "noDeadline"} :
                       CASE r = "overdue" -> t.overdue > 0
                         [] r = "incomplete" -> 2 * (t.overdue + t.open) > TaskTotal(t)
                         [] OTHER -> ~deadline}
<1> USE InsightAssumption
<1>1. RisksOf(t, deadline) = IF named = {} THEN {"low"} ELSE named
  BY DEF RisksOf
<1>2. t.overdue \in Nat
  BY DEF Counts
<1>3. ("overdue" \in named <=> t.overdue > 0) /\ ("noDeadline" \in named <=> ~deadline)
  OBVIOUS
<1>4. named \subseteq {"overdue", "incomplete", "noDeadline"} /\ "low" \notin named
  OBVIOUS
<1>5. Chance(t) > 0 => "overdue" \in named
  BY <1>2, <1>3, ChanceIs
<1>6. "low" \in RisksOf(t, deadline) => t.overdue = 0 /\ deadline
  BY <1>1, <1>2, <1>3, <1>4
<1> HIDE DEF named
<1> QED BY <1>1, <1>4, <1>5, <1>6, ChanceIs DEF Risks

Enquiries == [at : {"idle", "read", "tasks", "ask", "format", "done"}, feature : Features \cup {"none"}, sound : BOOLEAN,
         deadline : BOOLEAN, tasks : Counts, figures : [Figures -> 0..MaxChanges], missing : SUBSET Figures]
Advices == [from : {"none", "model", "mistyped", "listless", "heuristic", "unknown", "threw"}, chance : 0..100, risks : SUBSET Risks]
Reading == {"delay", "report", "document", "pricing"}

\* What is so of an answer g to the question q, whose call has seen the moments m.
AnswerOK(q, g, m) ==
    /\ q.feature = "delay" /\ g.from = "heuristic" =>
        /\ \E p \in m.projects : ~p.exists \/ g.chance = Chance(p.tasks)
        /\ g.chance > 0 => "overdue" \in g.risks
        /\ "low" \in g.risks => g.chance = 0 /\ \E p \in m.projects : p.deadline
    /\ q.feature = "report" /\ g.from # "threw" => \A f \in Figures : \E b \in m.businesses : q.figures[f] = b[f]
    /\ g.from = "threw" /\ q.feature \in Unchecked => ~q.sound
    /\ q.feature = "delay" => g.from # "mistyped"
    /\ g.from = "unknown" => \E p \in m.projects : ~p.exists

\* What a call has read is of a moment it has seen, and it sees the present one
\* until it is answered.
AskOK(q, g, m) ==
    /\ q.at \notin {"idle", "done"} => project \in m.projects /\ business \in m.businesses
    /\ q.at = "read" => q.feature \in Reading
    /\ q.at = "read" /\ q.missing # {} => q.feature = "report"
    /\ q.at = "tasks" => q.feature = "delay"
    /\ q.at \in {"tasks", "ask"} /\ q.feature = "delay" => \E p \in m.projects : p.deadline = q.deadline
    /\ q.at = "ask" /\ q.feature = "delay" => \E p \in m.projects : ~p.exists \/ p.tasks = q.tasks
    /\ q.feature = "report" /\ q.at \in {"read", "ask"} => \A f \in Figures \ q.missing : \E b \in m.businesses : q.figures[f] = b[f]
    /\ q.feature = "report" /\ q.at = "ask" => q.missing = {}
    /\ q.at = "done" => AnswerOK(q, g, m)

InsightTypes ==
    /\ connected \in BOOLEAN /\ project \in Projects
    /\ project.tasks.done + project.tasks.overdue + project.tasks.open = MaxTasks
    /\ business \in [Figures -> 0..MaxChanges] /\ changes \in 0..MaxChanges /\ \A f \in Figures : business[f] <= changes
    /\ question \in [Askers -> Enquiries] /\ answer \in [Askers -> Advices]
    /\ \A a \in Askers : moments[a].projects \subseteq Projects /\ moments[a].businesses \subseteq [Figures -> 0..MaxChanges]
    /\ \E S : moments \in [Askers -> S]

InsightInv == InsightTypes /\ \A a \in Askers : AskOK(question[a], answer[a], moments[a])

LEMMA InsightInvSays == InsightInv => InsightTypeOK /\ AdviceIsOfItsTime
<1>1. InsightInv => InsightTypeOK
  BY DEF InsightInv, InsightTypes, InsightTypeOK, Enquiries, Advices
<1>2. InsightInv => AdviceIsOfItsTime
  BY DEF InsightInv, AdviceIsOfItsTime, AskOK, AnswerOK
<1> QED BY <1>1, <1>2

\* A step of one call.
LEMMA OneAsks ==
    ASSUME InsightInv, NEW a \in Askers, NEW q \in Enquiries, NEW g \in Advices, NEW m,
           UNCHANGED <<connected, project, business, changes>>,
           question' = [question EXCEPT ![a] = q], answer' = [answer EXCEPT ![a] = g], moments' = [moments EXCEPT ![a] = m],
           m.projects \subseteq Projects, m.businesses \subseteq [Figures -> 0..MaxChanges],
           AskOK(q, g, m)
    PROVE  InsightInv'
<1>1. question \in [Askers -> Enquiries] /\ answer \in [Askers -> Advices] /\ \E S : moments \in [Askers -> S]
  BY DEF InsightInv, InsightTypes
<1>2. /\ question' \in [Askers -> Enquiries] /\ question'[a] = q /\ \A b \in Askers \ {a} : question'[b] = question[b]
      /\ answer' \in [Askers -> Advices] /\ answer'[a] = g /\ \A b \in Askers \ {a} : answer'[b] = answer[b]
      /\ moments'[a] = m /\ \A b \in Askers \ {a} : moments'[b] = moments[b]
  BY <1>1
<1>3. \E S : moments' \in [Askers -> S]
  <2>1. PICK S : moments \in [Askers -> S]
    BY <1>1
  <2>2. moments' \in [Askers -> S \cup {m}]
    BY <2>1
  <2> QED BY <2>2
<1>4. InsightTypes'
  BY <1>2, <1>3 DEF InsightInv, InsightTypes
<1>5. ASSUME NEW b \in Askers PROVE (AskOK(question[b], answer[b], moments[b]))'
  <2>1. CASE b = a
    BY <2>1, <1>2 DEF AskOK
  <2>2. CASE b # a
    BY <2>2, <1>2 DEF InsightInv, AskOK
  <2> QED BY <2>1, <2>2
<1> QED BY <1>4, <1>5 DEF InsightInv

\* The answer of call a, which keeps what it has read.
LEMMA OneIsAnswered ==
    ASSUME InsightInv, NEW a \in Askers, NEW from, NEW chance, NEW risks, End(a, from, chance, risks),
           [from |-> from, chance |-> chance, risks |-> risks] \in Advices,
           AnswerOK(question[a], [from |-> from, chance |-> chance, risks |-> risks], moments[a])
    PROVE  InsightInv'
<1> DEFINE g == [from |-> from, chance |-> chance, risks |-> risks]
           q == [question[a] EXCEPT !.at = "done"]
<1>1. question \in [Askers -> Enquiries] /\ question[a] \in Enquiries /\ answer \in [Askers -> Advices] /\ \E S : moments \in [Askers -> S]
  BY DEF InsightInv, InsightTypes
<1>2. q \in Enquiries /\ q.at = "done" /\ q.feature = question[a].feature /\ q.sound = question[a].sound /\ q.figures = question[a].figures
  BY <1>1 DEF Enquiries
<1>3. question' = [question EXCEPT ![a] = q] /\ answer' = [answer EXCEPT ![a] = g] /\ UNCHANGED <<connected, project, business, changes, moments>>
  BY <1>1 DEF End
<1>4. moments' = [moments EXCEPT ![a] = moments[a]]
  BY <1>1, <1>3
<1>5. AskOK(q, g, moments[a])
  <2>1. AnswerOK(q, g, moments[a])
    BY <1>2 DEF AnswerOK
  <2> HIDE DEF q, g
  <2> QED BY <2>1, <1>2 DEF AskOK
<1>6. moments[a].projects \subseteq Projects /\ moments[a].businesses \subseteq [Figures -> 0..MaxChanges]
  BY DEF InsightInv, InsightTypes
<1> HIDE DEF q, g
<1>7. g \in Advices
  BY DEF g
<1> QED BY <1>2, <1>3, <1>4, <1>5, <1>6, <1>7, OneAsks

\* What people write changes the project and the figures, and every call under way
\* sees it.
LEMMA WriteStep == InsightInv /\ Write => InsightInv'
<1> USE InsightAssumption
<1> SUFFICES ASSUME InsightInv, Write PROVE InsightInv'
  OBVIOUS
<1>t. /\ project \in Projects /\ business \in [Figures -> 0..MaxChanges] /\ changes \in 0..MaxChanges
      /\ \A f \in Figures : business[f] <= changes
      /\ project.tasks.done + project.tasks.overdue + project.tasks.open = MaxTasks
      /\ project.tasks \in Counts
  BY DEF InsightInv, InsightTypes, Projects
<1>1. changes' = changes + 1 /\ changes' \in 0..MaxChanges /\ UNCHANGED <<connected, question, answer>> /\ Witness(project', business')
  BY <1>t DEF Write
<1>m. ASSUME NEW from \in {"open", "overdue"}, NEW to \in {"done", "overdue"}, from # to, Move(from, to)
      PROVE  /\ project' \in Projects
             /\ project'.tasks.done + project'.tasks.overdue + project'.tasks.open = MaxTasks
  <2> DEFINE t == [project.tasks EXCEPT ![from] = @ - 1, ![to] = @ + 1]
  <2>1. project.tasks.done \in 0..MaxTasks /\ project.tasks.overdue \in 0..MaxTasks /\ project.tasks.open \in 0..MaxTasks
    BY <1>t DEF Counts
  <2>2. t \in Counts /\ t.done + t.overdue + t.open = MaxTasks
    BY <1>m, <1>t, <2>1 DEF Move, Counts
  <2>3. project' = [project EXCEPT !.tasks = t]
    BY <1>m, <1>t DEF Move, Projects, Counts
  <2> HIDE DEF t
  <2> QED BY <2>2, <2>3, <1>t DEF Projects
<1>2. /\ project' \in Projects
      /\ project'.tasks.done + project'.tasks.overdue + project'.tasks.open = MaxTasks
  <2>1. CASE project' = [project EXCEPT !.exists = FALSE] \/ project' = [project EXCEPT !.deadline = ~@] \/ project' = project
    BY <2>1, <1>t DEF Projects
  <2> QED BY <2>1, <1>m DEF Write
<1>3. business' \in [Figures -> 0..MaxChanges] /\ \A f \in Figures : business'[f] <= changes'
  BY <1>t, <1>1 DEF Write
<1>4. \A a \in Askers : moments'[a] = IF Underway(a)
                                     THEN [projects |-> moments[a].projects \cup {project'}, businesses |-> moments[a].businesses \cup {business'}]
                                     ELSE moments[a]
  BY <1>1 DEF Witness
<1>5. \A a \in Askers : moments[a].projects \subseteq Projects /\ moments[a].businesses \subseteq [Figures -> 0..MaxChanges]
  BY DEF InsightInv, InsightTypes
<1>6. \E S : moments' \in [Askers -> S]
  <2> DEFINE F(a) == IF Underway(a) THEN [projects |-> moments[a].projects \cup {project'}, businesses |-> moments[a].businesses \cup {business'}]
                     ELSE moments[a]
  <2>1. moments' = [a \in Askers |-> F(a)]
    BY <1>1 DEF Witness
  <2> HIDE DEF F
  <2>2. moments' \in [Askers -> {F(a) : a \in Askers}]
    BY <2>1
  <2> QED BY <2>2
<1>7. InsightTypes'
  <2>1. \A a \in Askers : moments'[a].projects \subseteq Projects /\ moments'[a].businesses \subseteq [Figures -> 0..MaxChanges]
    <3> SUFFICES ASSUME NEW a \in Askers
                 PROVE  moments'[a].projects \subseteq Projects /\ moments'[a].businesses \subseteq [Figures -> 0..MaxChanges]
      OBVIOUS
    <3>1. CASE Underway(a)
      <4>1. moments'[a] = [projects |-> moments[a].projects \cup {project'}, businesses |-> moments[a].businesses \cup {business'}]
        BY <3>1, <1>4
      <4> QED BY <4>1, <1>2, <1>3, <1>5
    <3>2. CASE ~Underway(a)
      BY <3>2, <1>4, <1>5
    <3> QED BY <3>1, <3>2
  <2> QED BY <1>1, <1>2, <1>3, <1>6, <2>1 DEF InsightInv, InsightTypes
<1>8. ASSUME NEW a \in Askers PROVE (AskOK(question[a], answer[a], moments[a]))'
  <2>0. AskOK(question[a], answer[a], moments[a]) /\ question'[a] = question[a] /\ answer'[a] = answer[a]
    BY <1>1 DEF InsightInv
  <2>1. CASE ~Underway(a)
    <3>1. moments'[a] = moments[a] /\ question[a].at \in {"idle", "done"}
      BY <2>1, <1>4 DEF Underway
    <3> QED BY <2>0, <3>1 DEF AskOK
  <2>2. CASE Underway(a)
    <3>0. moments'[a] = [projects |-> moments[a].projects \cup {project'}, businesses |-> moments[a].businesses \cup {business'}]
      BY <2>2, <1>4
    <3>1. /\ moments'[a].projects = moments[a].projects \cup {project'}
          /\ moments'[a].businesses = moments[a].businesses \cup {business'} /\ question[a].at \notin {"idle", "done"}
      BY <2>2, <3>0 DEF Underway
    <3> QED BY <2>0, <3>1 DEF AskOK
  <2> QED BY <2>1, <2>2
<1> QED BY <1>7, <1>8 DEF InsightInv

LEMMA InsightStep == InsightInv /\ [InsightNext]_insightVars => InsightInv'
<1> USE InsightAssumption
<1> SUFFICES ASSUME InsightInv, [InsightNext]_insightVars PROVE InsightInv'
  OBVIOUS
<1>t. /\ question \in [Askers -> Enquiries] /\ answer \in [Askers -> Advices] /\ \E S : moments \in [Askers -> S]
      /\ project \in Projects /\ business \in [Figures -> 0..MaxChanges]
      /\ project.deadline \in BOOLEAN /\ project.exists \in BOOLEAN /\ project.tasks \in Counts
  BY DEF InsightInv, InsightTypes, Projects
<1>m. \A a \in Askers : /\ moments[a].projects \subseteq Projects /\ moments[a].businesses \subseteq [Figures -> 0..MaxChanges]
                        /\ moments = [moments EXCEPT ![a] = moments[a]] /\ answer = [answer EXCEPT ![a] = answer[a]]
                        /\ AskOK(question[a], answer[a], moments[a]) /\ question[a] \in Enquiries /\ answer[a] \in Advices
  BY <1>t DEF InsightInv, InsightTypes
<1>f. ASSUME NEW a \in Askers
      PROVE  /\ question[a] \in Enquiries /\ question[a].at \in {"idle", "read", "tasks", "ask", "format", "done"}
             /\ question[a].feature \in Features \cup {"none"} /\ question[a].deadline \in BOOLEAN /\ question[a].tasks \in Counts
             /\ question[a].figures \in [Figures -> 0..MaxChanges] /\ question[a].missing \in SUBSET Figures
             /\ DOMAIN question = Askers
  <2>1. question[a] \in Enquiries /\ DOMAIN question = Askers
    BY <1>t
  <2> QED BY <2>1 DEF Enquiries
<1>n. NoQuestion.tasks \in Counts
  BY DEF NoQuestion, Counts
\* The next step of call a, which becomes q and is not answered.
<1>q. ASSUME NEW a \in Askers, NEW q \in Enquiries, question' = [question EXCEPT ![a] = q],
             UNCHANGED <<connected, project, business, changes, answer, moments>>, AskOK(q, answer[a], moments[a])
      PROVE  InsightInv'
  BY <1>q, <1>m, OneAsks
\* Ends that say nothing of the project.
<1>e. ASSUME NEW a \in Askers, NEW from \in {"model", "mistyped", "listless", "unknown", "threw"}, End(a, from, 0, {}),
             AnswerOK(question[a], [from |-> from, chance |-> 0, risks |-> {}], moments[a])
      PROVE  InsightInv'
  <2>1. [from |-> from, chance |-> 0, risks |-> {}] \in Advices
    BY DEF Advices
  <2> QED BY <1>e, <2>1, OneIsAnswered
<1>1. CASE Write
  BY <1>1, WriteStep
<1>2. ASSUME NEW a \in Askers, NEW feature \in Features, NEW sound \in BOOLEAN, Enquire(a, feature, sound) PROVE InsightInv'
  <2> DEFINE q == [question[a] EXCEPT !.feature = feature, !.sound = sound, !.at = IF feature \in Reading THEN "read" ELSE "ask",
                                      !.missing = IF feature = "report" THEN Figures ELSE {}]
             m == [projects |-> {project}, businesses |-> {business}]
  <2>1. q \in Enquiries /\ q.at = (IF feature \in Reading THEN "read" ELSE "ask") /\ q.feature = feature
        /\ q.missing = IF feature = "report" THEN Figures ELSE {}
    BY <1>m DEF Enquiries
  <2>2. question' = [question EXCEPT ![a] = q] /\ moments' = [moments EXCEPT ![a] = m]
        /\ UNCHANGED <<connected, project, business, changes, answer>>
    BY <1>2, <1>t DEF Enquire, Reading
  <2>3. m.projects = {project} /\ m.businesses = {business}
    OBVIOUS
  <2> HIDE DEF q, m
  <2>4. AskOK(q, answer[a], m)
    BY <2>1, <2>3 DEF AskOK, Reading
  <2>5. m.projects \subseteq Projects /\ m.businesses \subseteq [Figures -> 0..MaxChanges]
    BY <2>3, <1>t
  <2>6. answer' = [answer EXCEPT ![a] = answer[a]] /\ answer[a] \in Advices /\ q \in Enquiries
    BY <2>1, <2>2, <1>t
  <2> QED BY <2>2, <2>4, <2>5, <2>6, OneAsks
<1>3. ASSUME NEW a \in Askers, ReadProject(a) PROVE InsightInv'
  <2>0. question[a].at = "read" /\ question[a].feature = "delay" /\ project \in moments[a].projects
    BY <1>3, <1>m DEF ReadProject, AskOK
  <2>1. CASE project.exists
    <3> DEFINE q == [question[a] EXCEPT !.at = "tasks", !.deadline = project.deadline]
    <3>1. q \in Enquiries /\ q.at = "tasks" /\ q.feature = "delay" /\ q.deadline = project.deadline
      BY <2>0, <1>f, <1>t DEF Enquiries
    <3>2. question' = [question EXCEPT ![a] = q] /\ UNCHANGED <<connected, project, business, changes, answer, moments>>
      BY <1>3, <2>1, <1>t DEF ReadProject
    <3> HIDE DEF q
    <3>3. AskOK(q, answer[a], moments[a])
      BY <3>1, <2>0, <1>m DEF AskOK
    <3> QED BY <3>1, <3>2, <3>3, <1>q
  <2>2. CASE ~project.exists
    <3>1. End(a, "unknown", 0, {})
      BY <1>3, <2>2 DEF ReadProject
    <3>2. AnswerOK(question[a], [from |-> "unknown", chance |-> 0, risks |-> {}], moments[a])
      BY <2>0, <2>2 DEF AnswerOK
    <3> QED BY <3>1, <3>2, <1>e
  <2> QED BY <2>1, <2>2
<1>4. ASSUME NEW a \in Askers, ReadTasks(a) PROVE InsightInv'
  <2> DEFINE q == [question[a] EXCEPT !.at = "ask", !.tasks = IF project.exists THEN project.tasks ELSE NoQuestion.tasks]
  <2>0. question[a].at = "tasks" /\ question[a].feature = "delay" /\ project \in moments[a].projects
    BY <1>4, <1>m DEF ReadTasks, AskOK
  <2>1. q \in Enquiries /\ q.at = "ask" /\ q.feature = "delay" /\ q.deadline = question[a].deadline
        /\ (~project.exists \/ project.tasks = q.tasks)
    BY <2>0, <1>f, <1>t, <1>n DEF Enquiries
  <2>2. question' = [question EXCEPT ![a] = q] /\ UNCHANGED <<connected, project, business, changes, answer, moments>>
    BY <1>4, <1>t DEF ReadTasks
  <2> HIDE DEF q
  <2>3. AskOK(q, answer[a], moments[a])
    BY <2>0, <2>1, <1>m DEF AskOK
  <2> QED BY <2>1, <2>2, <2>3, <1>q
<1>5. ASSUME NEW a \in Askers, NEW f \in Figures, ReadFigure(a, f) PROVE InsightInv'
  <2> DEFINE q == [question[a] EXCEPT !.figures[f] = business[f], !.missing = @ \ {f},
                                      !.at = IF question[a].missing = {f} THEN "ask" ELSE "read"]
  <2>0. question[a].at = "read" /\ f \in question[a].missing /\ business \in moments[a].businesses /\ question[a].feature \in Reading
    BY <1>5, <1>m DEF ReadFigure, AskOK
  <2>1. /\ q \in Enquiries /\ q.at \in {"read", "ask"} /\ (q.at = "ask" => q.missing = {}) /\ q.feature = question[a].feature
        /\ q.missing = question[a].missing \ {f} /\ q.figures = [question[a].figures EXCEPT ![f] = business[f]]
        /\ q.at = "ask" <=> question[a].missing = {f}
        /\ q.deadline = question[a].deadline /\ q.tasks = question[a].tasks
    BY <2>0, <1>f, <1>t DEF Enquiries
  <2>2. question' = [question EXCEPT ![a] = q] /\ UNCHANGED <<connected, project, business, changes, answer, moments>>
    BY <1>5, <1>t DEF ReadFigure
  <2>3. question[a].feature = "report"
    BY <2>0, <1>m DEF AskOK
  <2> HIDE DEF q
  <2>4. AskOK(q, answer[a], moments[a])
    <3>1. \A g \in Figures \ q.missing : \E b \in moments[a].businesses : q.figures[g] = b[g]
      <4> SUFFICES ASSUME NEW g \in Figures \ q.missing PROVE \E b \in moments[a].businesses : q.figures[g] = b[g]
        OBVIOUS
      <4>1. question[a].figures \in [Figures -> 0..MaxChanges]
        BY <1>m DEF Enquiries
      <4>2. CASE g = f
        BY <4>1, <4>2, <2>0, <2>1
      <4>3. CASE g # f
        <5>1. g \in Figures \ question[a].missing /\ q.figures[g] = question[a].figures[g]
          BY <4>1, <4>3, <2>1
        <5> QED BY <5>1, <2>0, <2>3, <1>m DEF AskOK
      <4> QED BY <4>2, <4>3
    <3>2. project \in moments[a].projects /\ business \in moments[a].businesses
      BY <2>0, <1>m DEF AskOK
    <3> QED BY <3>1, <3>2, <2>1, <2>3 DEF AskOK, Reading
  <2> QED BY <2>1, <2>2, <2>4, <1>q
<1>6. ASSUME NEW a \in Askers, ReadRow(a) PROVE InsightInv'
  <2> DEFINE q == [question[a] EXCEPT !.at = "ask"]
  <2>0. question[a].at = "read" /\ question[a].feature \in {"document", "pricing"}
    BY <1>6 DEF ReadRow
  <2>1. CASE question' = [question EXCEPT ![a].at = "ask"] /\ UNCHANGED <<connected, project, business, changes, answer, moments>>
    <3>1. q \in Enquiries /\ q.at = "ask" /\ q.feature = question[a].feature /\ question' = [question EXCEPT ![a] = q]
      BY <2>1, <1>f DEF Enquiries
    <3> HIDE DEF q
    <3>2. AskOK(q, answer[a], moments[a])
      BY <3>1, <2>0, <1>m DEF AskOK
    <3> QED BY <2>1, <3>1, <3>2, <1>q
  <2>2. CASE question[a].feature = "document" /\ End(a, "threw", 0, {})
    <3>1. AnswerOK(question[a], [from |-> "threw", chance |-> 0, risks |-> {}], moments[a])
      BY <2>2 DEF AnswerOK, Unchecked
    <3> QED BY <2>2, <3>1, <1>e
  <2> QED BY <2>1, <2>2, <1>6 DEF ReadRow
<1>7. ASSUME NEW a \in Askers, QueryFails(a) PROVE InsightInv'
  <2>1. question[a].feature \in Reading /\ End(a, "threw", 0, {})
    BY <1>7, <1>m DEF QueryFails, AskOK, Reading
  <2>2. AnswerOK(question[a], [from |-> "threw", chance |-> 0, risks |-> {}], moments[a])
    BY <2>1 DEF AnswerOK, Reading, Unchecked
  <2> QED BY <2>1, <2>2, <1>e
<1>8. ASSUME NEW a \in Askers, Advise(a) PROVE InsightInv'
  <2>0. /\ question[a].at = "ask" /\ AskOK(question[a], answer[a], moments[a])
        /\ question[a].tasks \in Counts /\ question[a].deadline \in BOOLEAN
    BY <1>8, <1>m DEF Advise, Enquiries
  <2>1. ASSUME Fallback(a) PROVE InsightInv'
    <3>1. CASE question[a].feature = "delay"
      <4> DEFINE c == Chance(question[a].tasks)
                 r == RisksOf(question[a].tasks, question[a].deadline)
      <4>1. c \in 0..100 /\ r \subseteq Risks /\ (c > 0 => "overdue" \in r) /\ ("low" \in r => c = 0 /\ question[a].deadline)
        BY <2>0, ChanceIs, RisksAre
      <4>2. End(a, "heuristic", c, r)
        BY <2>1, <3>1 DEF Fallback
      <4>3. /\ \E p \in moments[a].projects : ~p.exists \/ c = Chance(p.tasks)
            /\ \E p \in moments[a].projects : p.deadline = question[a].deadline
        BY <2>0, <3>1 DEF AskOK
      <4> HIDE DEF c, r
      <4>4. [from |-> "heuristic", chance |-> c, risks |-> r] \in Advices
        BY <4>1 DEF Advices
      <4>5. AnswerOK(question[a], [from |-> "heuristic", chance |-> c, risks |-> r], moments[a])
        BY <4>1, <4>3, <3>1 DEF AnswerOK
      <4> QED BY <4>2, <4>4, <4>5, OneIsAnswered
    <3>2. CASE question[a].feature # "delay" /\ question[a].sound
      <4>1. End(a, "heuristic", 0, {})
        BY <2>1, <3>2 DEF Fallback
      <4>2. [from |-> "heuristic", chance |-> 0, risks |-> {}] \in Advices
        BY DEF Advices
      <4>3. AnswerOK(question[a], [from |-> "heuristic", chance |-> 0, risks |-> {}], moments[a])
        BY <2>0, <3>2 DEF AskOK, AnswerOK
      <4> QED BY <4>1, <4>2, <4>3, OneIsAnswered
    <3>3. CASE question[a].feature # "delay" /\ ~question[a].sound
      <4>1. End(a, "threw", 0, {})
        BY <2>1, <3>3 DEF Fallback
      <4>2. AnswerOK(question[a], [from |-> "threw", chance |-> 0, risks |-> {}], moments[a])
        BY <2>0, <3>3 DEF AskOK, AnswerOK
      <4> QED BY <4>1, <4>2, <1>e
    <3> QED BY <3>1, <3>2, <3>3
  <2>2. ASSUME NEW reply \in ModelSays, Takes(question[a].feature, reply), End(a, OutcomeOf(question[a].feature, reply), 0, {})
        PROVE  InsightInv'
    <3> DEFINE from == OutcomeOf(question[a].feature, reply)
    <3>1. from \in {"model", "mistyped", "listless", "threw"} /\ (from = "threw" => question[a].feature = "document")
          /\ (from = "mistyped" => reply = "oddValue")
      BY DEF OutcomeOf
    <3>2. question[a].feature = "delay" => reply # "oddValue"
      BY <2>2 DEF Takes, TakesChance
    <3> HIDE DEF from
    <3>3. AnswerOK(question[a], [from |-> from, chance |-> 0, risks |-> {}], moments[a])
      BY <2>0, <3>1, <3>2 DEF AskOK, AnswerOK, Unchecked
    <3>4. End(a, from, 0, {})
      BY <2>2 DEF from
    <3> QED BY <3>1, <3>3, <3>4, <1>e
  <2> QED BY <2>1, <2>2, <1>8 DEF Advise
<1>9. CASE UNCHANGED insightVars
  <2>1. UNCHANGED <<connected, project, business, changes, question, answer, moments>>
    BY <1>9 DEF insightVars
  <2>2. InsightTypes'
    BY <2>1 DEF InsightInv, InsightTypes
  <2>3. \A a \in Askers : (AskOK(question[a], answer[a], moments[a]))'
    BY <2>1 DEF InsightInv, AskOK
  <2> QED BY <2>2, <2>3 DEF InsightInv
<1> QED BY <1>1, <1>2, <1>3, <1>4, <1>5, <1>6, <1>7, <1>8, <1>9 DEF InsightNext

LEMMA InsightInitially == InsightInit => InsightInv
<1> USE InsightAssumption
<1> SUFFICES ASSUME InsightInit PROVE InsightInv
  OBVIOUS
<1>1. project \in Projects /\ project.tasks.done + project.tasks.overdue + project.tasks.open = MaxTasks
  BY DEF InsightInit, Projects, Counts
<1>2. NoQuestion \in Enquiries /\ NoQuestion.at = "idle" /\ NoQuestion.feature = "none"
  <2>1. [f \in Figures |-> 0] \in [Figures -> 0..MaxChanges] /\ [done |-> 0, overdue |-> 0, open |-> 0] \in Counts
    BY DEF Counts
  <2> QED BY <2>1 DEF NoQuestion, Enquiries
<1>3. Silence \in Advices
  BY DEF Silence, Advices
<1>4. \E S : moments \in [Askers -> S]
  <2>1. moments \in [Askers -> {NoMoments}]
    BY DEF InsightInit
  <2> QED BY <2>1
<1>5. \A a \in Askers : moments[a].projects \subseteq Projects /\ moments[a].businesses \subseteq [Figures -> 0..MaxChanges]
  BY DEF InsightInit, NoMoments
<1>6. InsightTypes
  BY <1>1, <1>2, <1>3, <1>4, <1>5 DEF InsightInit, InsightTypes
<1>7. \A a \in Askers : AskOK(question[a], answer[a], moments[a])
  BY <1>2 DEF InsightInit, AskOK
<1> QED BY <1>6, <1>7 DEF InsightInv

-----------------------------------------------------------------------------
(* The pages of the mailed links *)

\* What a tab's request and its page say is so. A tab past the write has a
\* link that is no longer good, and what the link is for has been done.
TabTrue(t) ==
    /\ tab[t].link = 0 \/ tab[t].link \in Made
    /\ tab[t].at \notin {"idle", "ask"} => tab[t].link # 0
    /\ tab[t].at \in {"ok", "open", "me"} \/ tab[t].shows = "success" => links[tab[t].link] # "good"
    /\ (tab[t].at \in {"open", "me"} => purpose = "magic") /\ (tab[t].at = "tidy" => purpose = "verify")
    /\ purpose = "reset" /\ (tab[t].at = "ok" \/ tab[t].shows = "success") => password # 0
    /\ purpose = "magic" /\ (tab[t].at = "me" \/ tab[t].shows = "success") => t \in cookies
    /\ purpose = "verify" /\ (tab[t].at \in {"ok", "tidy"} \/ tab[t].shows = "success") => confirmed
    /\ tab[t].shows = "sent" => tab[t].at = "idle"
    /\ tab[t].at = "asked" \/ tab[t].shows = "sent" => tab[t].link \in inbox \cup unsent

LinkTypes ==
    /\ links \in [1..MaxLinks -> {"none", "good", "used", "expired"}]
    /\ password \in Tabs \cup {0} /\ confirmed \in BOOLEAN /\ cookies \subseteq Tabs
    /\ inbox \subseteq Made /\ unsent \subseteq Made /\ broken \subseteq Made

TruthInv == LinkTypes /\ \A t \in Tabs : TabTrue(t)

LEMMA TruthInvSays == LinkPagesInv /\ TruthInv => LinkPagesTypeOK /\ PagesTellTheTruth
<1> SUFFICES ASSUME LinkPagesInv, TruthInv PROVE LinkPagesTypeOK /\ PagesTellTheTruth
  OBVIOUS
<1>1. tab \in [Tabs -> [at : TabSteps, link : 0..MaxLinks, shows : Looks]]
  <2>1. tab \in [Tabs -> TabForms] /\ \A t \in Tabs : tab[t].link \in 0..MaxLinks
    BY LinkAssumption DEF LinkPagesInv, TruthInv, TabTrue, Made
  <2>2. \A t \in Tabs : tab[t] \in [at : TabSteps, link : 0..MaxLinks, shows : Looks]
    BY <2>1 DEF TabForms
  <2> QED BY <2>1, <2>2
<1>2. LinkPagesTypeOK
  <2>1. TabSteps = {"idle", "ask", "mail", "asked", "form", "read", "act", "open", "tidy", "me", "done"} \cup Replied
    BY DEF TabSteps, Replied
  <2> QED BY <1>1, <2>1 DEF LinkPagesInv, TruthInv, LinkTypes, LinkPagesTypeOK, Looks
<1>3. PagesTellTheTruth
  BY DEF LinkPagesInv, TruthInv, TabTrue, PagesTellTheTruth
<1> QED BY <1>2, <1>3

\* A step of tab t that takes back nothing the other tabs rely on.
LEMMA TabTells ==
    ASSUME LinkPagesInv, TruthInv, LinkTypes', NEW t \in Tabs, TabTrue(t)', \A u \in Tabs \ {t} : tab'[u] = tab[u],
           UNCHANGED purpose, \A l \in Made : l \in Made' /\ (links[l] # "good" => links'[l] # "good"),
           password # 0 => password' # 0, confirmed => confirmed', cookies \subseteq cookies',
           inbox \cup unsent \subseteq inbox' \cup unsent'
    PROVE  TruthInv'
<1>1. ASSUME NEW u \in Tabs, u # t PROVE TabTrue(u)'
  <2>1. tab'[u] = tab[u] /\ TabTrue(u) /\ (tab[u].shows = "success" => tab[u].at = "done")
    BY <1>1 DEF TruthInv, LinkPagesInv
  <2>2. tab[u].at \in {"ok", "open", "me"} \/ tab[u].shows = "success" => tab[u].link \in Made
    BY <2>1 DEF TabTrue
  <2> QED BY <2>1, <2>2 DEF TabTrue
<1> QED BY <1>1 DEF TruthInv

LEMMA TruthStep == LinkPagesInv /\ TruthInv /\ [LinkPagesNext]_linkPageVars => TruthInv'
<1> SUFFICES ASSUME LinkPagesInv, TruthInv, [LinkPagesNext]_linkPageVars PROVE TruthInv'
  OBVIOUS
<1>t. /\ purpose \in {"reset", "magic", "verify"}
      /\ tab \in [Tabs -> TabForms] /\ DOMAIN links = 1..MaxLinks
      /\ \A t \in Tabs : tab[t].shows = "success" => tab[t].at = "done"
  BY DEF LinkPagesInv
<1>f. \A t \in Tabs : tab[t].at \in TabSteps /\ tab[t].link \in Nat /\ tab[t].shows \in Looks
  BY <1>t DEF TabForms
<1>n. 0 \notin 1..MaxLinks /\ 0 \notin Tabs /\ \A l \in 1..MaxLinks : l \in Nat
  BY LinkAssumption
<1>l. /\ links \in [1..MaxLinks -> {"none", "good", "used", "expired"}]
      /\ password \in Tabs \cup {0} /\ confirmed \in BOOLEAN /\ cookies \subseteq Tabs
      /\ inbox \subseteq Made /\ unsent \subseteq Made /\ broken \subseteq Made
      /\ \A t \in Tabs : TabTrue(t)
  BY DEF TruthInv, LinkTypes
\* A step of one tab that writes no link.
<1>p. ASSUME NEW t \in Tabs, NEW step, NEW l, NEW look, TabTurns(t, step, l, look), TabTrue(t)',
             UNCHANGED <<purpose, links, password, confirmed>>, cookies \subseteq cookies', cookies' \subseteq Tabs,
             inbox \cup unsent \subseteq inbox' \cup unsent',
             inbox' \subseteq Made, unsent' \subseteq Made, broken' \subseteq Made
      PROVE  TruthInv'
  <2>1. Made' = Made /\ \A u \in Tabs \ {t} : tab'[u] = tab[u]
    BY <1>p DEF Made, TabTurns
  <2>2. LinkTypes'
    BY <1>p, <1>l, <2>1 DEF LinkTypes
  <2> QED BY <1>p, <2>1, <2>2, TabTells
\* A step of one tab that writes one link, and no link is lost.
<1>w. ASSUME NEW t \in Tabs, NEW step, NEW k, NEW look, TabTurns(t, step, k, look), TabTrue(t)',
             NEW l \in 1..MaxLinks, NEW mark \in {"good", "used"}, links' = [links EXCEPT ![l] = mark],
             mark = "good" => l \notin Made, UNCHANGED <<purpose, cookies, inbox, unsent>>,
             password' \in Tabs \cup {0}, password # 0 => password' # 0, confirmed' \in BOOLEAN, confirmed => confirmed',
             broken' \subseteq Made
      PROVE  TruthInv'
  <2>1. /\ links' \in [1..MaxLinks -> {"none", "good", "used", "expired"}] /\ links'[l] = mark
        /\ \A m \in 1..MaxLinks \ {l} : links'[m] = links[m]
    BY <1>w, <1>l
  <2>2. \A m \in Made : m \in Made' /\ (links[m] # "good" => links'[m] # "good")
    BY <1>w, <2>1 DEF Made
  <2>3. LinkTypes'
    BY <1>w, <1>l, <2>1, <2>2 DEF LinkTypes
  <2> QED BY <1>w, <2>2, <2>3, TabTells DEF TabTurns
<1>1. ASSUME NEW t \in Tabs, AskLink(t) PROVE TruthInv'
  <2>1. TabTurns(t, "ask", tab[t].link, "nothing") /\ UNCHANGED <<purpose, links, inbox, password, confirmed, cookies, unsent, broken>>
    BY <1>1, <1>t, <1>f, TabWrites DEF AskLink, TabSteps, Looks
  <2>2. TabTrue(t)'
    BY <2>1, <1>l DEF TabTurns, TabTrue, Made
  <2> QED BY <2>1, <2>2, <1>l, <1>p
<1>2. ASSUME NEW t \in Tabs, NEW l \in 1..MaxLinks, CreateLink(t, l) PROVE TruthInv'
  <2>1. /\ TabTurns(t, "mail", l, tab[t].shows) /\ l \notin Made
        /\ links' = [links EXCEPT ![l] = "good"] /\ tab[t].at = "ask"
        /\ UNCHANGED <<purpose, inbox, password, confirmed, cookies, unsent, broken>>
    BY <1>2, <1>t, <1>f, <1>n, TabWrites DEF CreateLink, Is, TabSteps, Looks
  <2>2. links'[l] = "good" /\ l # 0 /\ tab[t].shows \notin {"success", "sent"}
    BY <2>1, <1>l, <1>t, <1>n DEF TabTrue
  <2>3. TabTrue(t)'
    BY <2>1, <2>2, <1>l DEF TabTurns, TabTrue, Made
  <2> QED BY <2>1, <2>3, <1>l, <1>w
<1>3. ASSUME NEW t \in Tabs, SendMail(t) PROVE TruthInv'
  <2>1. /\ TabTurns(t, "asked", tab[t].link, tab[t].shows) /\ tab[t].at = "mail"
        /\ UNCHANGED <<purpose, links, password, confirmed, cookies, broken>>
        /\ \/ inbox' = inbox \cup {tab[t].link} /\ unsent' = unsent
           \/ unsent' = unsent \cup {tab[t].link} /\ inbox' = inbox
    BY <1>3, <1>t, <1>f, TabWrites DEF SendMail, Is, Turns, TabSteps, Looks
  <2>2. tab[t].link \in Made /\ tab[t].shows \notin {"success", "sent"} /\ TabTrue(t)
    BY <2>1, <1>l, <1>t DEF TabTrue
  <2>3. tab[t].link \in inbox' \cup unsent' /\ inbox \cup unsent \subseteq inbox' \cup unsent'
    BY <2>1
  <2>4. TabTrue(t)'
    BY <2>1, <2>2, <2>3 DEF TabTurns, TabTrue, Made
  <2> QED BY <2>1, <2>2, <2>3, <2>4, <1>l, <1>p
<1>4. ASSUME NEW t \in Tabs, ShowAsked(t) PROVE TruthInv'
  <2>1. PICK look \in {"sent", "error"} : TabTurns(t, "idle", tab[t].link, look) /\ (tab[t].at = "ask" => look = "error")
    BY <1>4, <1>t, <1>f, TabWrites DEF ShowAsked, Is, TabSteps, Looks
  <2>2. tab[t].at \in {"ask", "asked"} /\ UNCHANGED <<purpose, links, inbox, password, confirmed, cookies, unsent, broken>>
    BY <1>4 DEF ShowAsked, Is
  <2>3. TabTrue(t)'
    BY <2>1, <2>2, <1>l DEF TabTurns, TabTrue, Made
  <2> QED BY <2>1, <2>2, <2>3, <1>l, <1>p
<1>5. ASSUME NEW t \in Tabs, NEW l \in 1..MaxLinks, OpenLink(t, l) PROVE TruthInv'
  <2> DEFINE step == IF purpose = "reset" THEN "form" ELSE "read"
  <2>1. /\ tab[t].shows = "nothing" /\ l \in Made
        /\ UNCHANGED <<purpose, links, inbox, password, confirmed, cookies, unsent, broken>>
        /\ tab' = [tab EXCEPT ![t].at = step, ![t].link = l]
    BY <1>5, <1>l DEF OpenLink, Blank
  <2>2. step \in TabSteps /\ step \in {"form", "read"}
    BY DEF TabSteps
  <2> HIDE DEF step
  <2>3. TabTurns(t, step, l, tab[t].shows)
    BY <2>1, <2>2, <1>t, <1>n, TabWrites DEF Looks
  <2>4. TabTrue(t)'
    BY <2>1, <2>2, <2>3, <1>n DEF TabTurns, TabTrue, Made
  <2> QED BY <2>1, <2>3, <2>4, <1>l, <1>p
<1>6. ASSUME NEW t \in Tabs, SubmitPassword(t) PROVE TruthInv'
  <2>1. PICK step \in {"form", "read"}, look \in {"nothing", "error"} : TabTurns(t, step, tab[t].link, look)
    BY <1>6, <1>t, <1>f, TabWrites DEF SubmitPassword, TabSteps, Looks
  <2>2. tab[t].at = "form" /\ UNCHANGED <<purpose, links, inbox, password, confirmed, cookies, unsent, broken>>
    BY <1>6 DEF SubmitPassword, Is
  <2>3. TabTrue(t)'
    BY <2>1, <2>2, <1>l DEF TabTurns, TabTrue, Made
  <2> QED BY <2>1, <2>2, <2>3, <1>l, <1>p
<1>7. ASSUME NEW t \in Tabs, ReadLink(t) PROVE TruthInv'
  <2>1. PICK step \in {"act", "failed"} : TabTurns(t, step, tab[t].link, tab[t].shows)
    BY <1>7, <1>t, <1>f, TabWrites DEF ReadLink, Turns, TabSteps, Looks
  <2>2. /\ tab[t].at = "read" /\ tab[t].shows \notin {"success", "sent"}
        /\ UNCHANGED <<purpose, links, inbox, password, confirmed, cookies, unsent, broken>>
    BY <1>7, <1>t, <1>l DEF ReadLink, Is, TabTrue
  <2>3. TabTrue(t)'
    BY <2>1, <2>2, <1>l DEF TabTurns, TabTrue, Made
  <2> QED BY <2>1, <2>2, <2>3, <1>l, <1>p
<1>8. ASSUME NEW t \in Tabs, Effect(t) PROVE TruthInv'
  <2> DEFINE after == AfterEffect[purpose]
  <2>2. /\ purpose = "reset" => after = "ok"
        /\ purpose = "magic" => after = "open"
        /\ purpose = "verify" => after = "tidy"
    BY DEF AfterEffect
  <2>3. after \in TabSteps
    BY <1>t, <2>2 DEF TabSteps
  <2>1. /\ TabTurns(t, after, tab[t].link, tab[t].shows) /\ tab[t].at = "act"
        /\ UNCHANGED <<purpose, inbox, cookies, unsent>>
        /\ links' = IF purpose = "verify" THEN links ELSE [links EXCEPT ![tab[t].link] = "used"]
        /\ password' = IF purpose = "reset" THEN t ELSE password
        /\ confirmed' = (confirmed \/ purpose # "reset")
        /\ broken' = IF tab[t].shows = "gone" THEN broken \cup {tab[t].link} ELSE broken
    BY <1>8, <1>t, <1>f, <2>3, TabWrites DEF Effect, Turns, Is, TabSteps, Looks
  <2> HIDE DEF after
  <2>4. tab[t].link \in Made /\ tab[t].link \in 1..MaxLinks /\ tab[t].shows \notin {"success", "sent"} /\ TabTrue(t)
    BY <2>1, <1>l, <1>t DEF TabTrue, Made
  <2>5. /\ broken' \subseteq Made /\ password' \in Tabs \cup {0} /\ (password # 0 => password' # 0)
        /\ confirmed' \in BOOLEAN /\ (confirmed => confirmed')
    BY <2>1, <2>4, <1>l, <1>n
  <2>6. CASE purpose = "verify"
    <3>1. /\ after = "tidy" /\ links' = links /\ password' = password /\ confirmed'
      BY <2>1, <2>2, <2>6
    <3>2. Made' = Made
      BY <3>1 DEF Made
    <3>3. TabTrue(t)'
      BY <3>1, <3>2, <2>1, <2>4, <2>6 DEF TabTurns, TabTrue
    <3>4. LinkTypes'
      BY <3>1, <3>2, <2>1, <2>5, <1>l DEF LinkTypes
    <3>5. \A l \in Made : l \in Made' /\ (links[l] # "good" => links'[l] # "good")
      BY <3>1, <3>2
    <3>6. /\ \A u \in Tabs \ {t} : tab'[u] = tab[u]
          /\ UNCHANGED purpose /\ cookies \subseteq cookies' /\ inbox \cup unsent \subseteq inbox' \cup unsent'
      BY <2>1 DEF TabTurns
    <3> QED BY <3>3, <3>4, <3>5, <3>6, <2>5, TabTells
  <2>7. CASE purpose # "verify"
    <3>1. after \in {"ok", "open"} /\ links' = [links EXCEPT ![tab[t].link] = "used"]
          /\ (purpose = "reset" => password' = t) /\ (after = "ok" => purpose = "reset") /\ (after = "open" => purpose = "magic")
      BY <2>1, <2>2, <2>7, <1>t
    <3>2. links'[tab[t].link] = "used" /\ tab[t].link \in Made'
      BY <3>1, <2>4, <1>l DEF Made
    <3>3. TabTrue(t)'
      BY <3>1, <3>2, <2>1, <2>4, <2>7, <1>n DEF TabTurns, TabTrue
    <3> QED BY <2>1, <2>4, <2>5, <3>1, <3>3, <1>w
  <2> QED BY <2>6, <2>7
<1>9. ASSUME NEW t \in Tabs, OpenSession(t) PROVE TruthInv'
  <2>1. /\ TabTurns(t, "ok", tab[t].link, tab[t].shows) /\ tab[t].at = "open"
        /\ UNCHANGED <<purpose, links, inbox, password, confirmed, cookies, unsent, broken>>
    BY <1>9, <1>t, <1>f, TabWrites DEF OpenSession, Turns, Is, TabSteps, Looks
  <2>2. tab[t].shows \notin {"success", "sent"} /\ purpose = "magic"
    BY <2>1, <1>l, <1>t DEF TabTrue
  <2>3. TabTrue(t)'
    BY <2>1, <2>2, <1>l DEF TabTurns, TabTrue, Made
  <2> QED BY <2>1, <2>3, <1>l, <1>p
<1>10. ASSUME NEW t \in Tabs, RemoveKey(t) PROVE TruthInv'
  <2>1. /\ TabTurns(t, "ok", tab[t].link, tab[t].shows) /\ tab[t].at = "tidy"
        /\ UNCHANGED <<purpose, inbox, password, confirmed, cookies, unsent>>
        /\ links' = [links EXCEPT ![tab[t].link] = "used"]
        /\ broken' = IF tab[t].shows = "gone" THEN broken \cup {tab[t].link} ELSE broken
    BY <1>10, <1>t, <1>f, TabWrites DEF RemoveKey, Turns, Is, TabSteps, Looks
  <2>2. /\ tab[t].link \in Made /\ tab[t].link \in 1..MaxLinks /\ tab[t].shows \notin {"success", "sent"}
        /\ purpose = "verify" /\ confirmed /\ TabTrue(t)
    BY <2>1, <1>l, <1>t DEF TabTrue, Made
  <2>3. links'[tab[t].link] = "used" /\ tab[t].link \in Made' /\ broken' \subseteq Made
    BY <2>1, <2>2, <1>l DEF Made
  <2>4. TabTrue(t)'
    BY <2>1, <2>2, <2>3 DEF TabTurns, TabTrue
  <2> QED BY <2>1, <2>2, <2>3, <2>4, <1>l, <1>w
<1>11. ASSUME NEW t \in Tabs, CallFails(t) PROVE TruthInv'
  <2>1. /\ TabTurns(t, "failed", tab[t].link, tab[t].shows) /\ tab[t].at \in {"read", "act", "open", "tidy"}
        /\ UNCHANGED <<purpose, links, inbox, password, confirmed, cookies, unsent>>
        /\ broken' = IF tab[t].at = "open" THEN broken \cup {tab[t].link} ELSE broken
    BY <1>11, <1>t, <1>f, TabWrites DEF CallFails, Turns, Is, TabSteps, Looks
  <2>2. tab[t].link \in Made /\ tab[t].shows \notin {"success", "sent"} /\ TabTrue(t)
    BY <2>1, <1>l, <1>t DEF TabTrue
  <2>3. TabTrue(t)' /\ broken' \subseteq Made
    BY <2>1, <2>2, <1>l DEF TabTurns, TabTrue, Made
  <2> QED BY <2>1, <2>3, <1>l, <1>p
<1>12. ASSUME NEW t \in Tabs, Accepted(t) PROVE TruthInv'
  <2>1. /\ tab[t].at = "ok" /\ UNCHANGED <<purpose, links, inbox, password, confirmed, unsent, broken>>
        /\ \/ /\ TabTurns(t, "me", tab[t].link, tab[t].shows) /\ purpose = "magic" /\ cookies' = cookies \cup {t}
           \/ /\ TabTurns(t, "done", tab[t].link, "success") /\ purpose # "magic" /\ cookies' = cookies
    BY <1>12, <1>t, <1>f, TabWrites DEF Accepted, Turns, Is, TabSteps, Looks
  <2>2. tab[t].shows \notin {"success", "sent"} /\ t \in Tabs
    BY <2>1, <1>l, <1>t DEF TabTrue
  <2>3. TabTrue(t)' /\ cookies' \subseteq Tabs /\ cookies \subseteq cookies'
    BY <2>1, <2>2, <1>l DEF TabTurns, TabTrue, Made
  <2> QED BY <2>1, <2>3, <1>l, <1>p
<1>13. ASSUME NEW t \in Tabs, GoHome(t) PROVE TruthInv'
  <2>1. /\ TabTurns(t, "done", tab[t].link, "success") /\ tab[t].at = "me"
        /\ UNCHANGED <<purpose, links, inbox, password, confirmed, cookies, unsent, broken>>
    BY <1>13, <1>t, <1>f, TabWrites DEF GoHome, Is, TabSteps, Looks
  <2>2. TabTrue(t)'
    BY <2>1, <1>l DEF TabTurns, TabTrue, Made
  <2> QED BY <2>1, <2>2, <1>l, <1>p
<1>14. ASSUME NEW t \in Tabs, ShowError(t) PROVE TruthInv'
  <2>1. PICK step \in {"form", "done"} : TabTurns(t, step, tab[t].link, "error")
    BY <1>14, <1>t, <1>f, TabWrites DEF ShowError, TabSteps, Looks
  <2>2. /\ tab[t].at \in {"ok", "failed"} /\ UNCHANGED <<purpose, links, inbox, password, confirmed, cookies, unsent>>
        /\ broken' = IF tab[t].at = "ok" THEN broken \cup {tab[t].link} ELSE broken
    BY <1>14 DEF ShowError, Is, Replied
  <2>3. TabTrue(t)' /\ broken' \subseteq Made
    BY <2>1, <2>2, <1>l DEF TabTurns, TabTrue, Made
  <2> QED BY <2>1, <2>2, <2>3, <1>l, <1>p
<1>15. ASSUME NEW t \in Tabs, CloseTab(t) PROVE TruthInv'
  <2>1. /\ TabTurns(t, tab[t].at, tab[t].link, "gone") /\ tab[t].link # 0
        /\ broken' = (IF links[tab[t].link] = "used" THEN broken \cup {tab[t].link} ELSE broken)
        /\ UNCHANGED <<purpose, links, inbox, password, confirmed, cookies, unsent>>
    BY <1>15, <1>t, <1>f, TabWrites DEF CloseTab, TabSteps, Looks
  <2>2. TabTrue(t)' /\ broken' \subseteq Made
    BY <2>1, <1>l DEF TabTurns, TabTrue, Made
  <2> QED BY <2>1, <2>2, <1>l, <1>p
<1>16. ASSUME NEW l \in 1..MaxLinks, LinkRunsOut(l) PROVE TruthInv'
  <2>1. /\ links' = [links EXCEPT ![l] = "expired"]
        /\ UNCHANGED <<purpose, inbox, tab, password, confirmed, cookies, unsent, broken>>
    BY <1>16 DEF LinkRunsOut
  <2>2. /\ links' \in [1..MaxLinks -> {"none", "good", "used", "expired"}] /\ links'[l] = "expired"
        /\ \A m \in 1..MaxLinks \ {l} : links'[m] = links[m]
    BY <2>1, <1>l
  <2>3. \A m \in Made : m \in Made' /\ (links[m] # "good" => links'[m] # "good")
    BY <2>2 DEF Made
  <2>4. LinkTypes'
    BY <2>1, <2>2, <2>3, <1>l DEF LinkTypes
  <2>5. ASSUME NEW t \in Tabs PROVE TabTrue(t)'
    <3>1. TabTrue(t) /\ tab'[t] = tab[t] /\ (tab[t].shows = "success" => tab[t].at = "done")
      BY <2>1, <1>l, <1>t
    <3>2. tab[t].at \in {"ok", "open", "me"} \/ tab[t].shows = "success" => tab[t].link \in Made
      BY <3>1 DEF TabTrue
    <3> QED BY <3>1, <3>2, <2>1, <2>3 DEF TabTrue
  <2> QED BY <2>4, <2>5 DEF TruthInv
<1>17. CASE UNCHANGED linkPageVars
  BY <1>17, <1>l DEF linkPageVars, TruthInv, LinkTypes, TabTrue, Made
<1> QED
  BY <1>1, <1>2, <1>3, <1>4, <1>5, <1>6, <1>7, <1>8, <1>9, <1>10, <1>11, <1>12, <1>13, <1>14, <1>15, <1>16, <1>17
  DEF LinkPagesNext

LEMMA TruthInitially == LinkPagesInit => TruthInv
<1> SUFFICES ASSUME LinkPagesInit PROVE TruthInv
  OBVIOUS
<1>1. \A t \in Tabs : tab[t].at = "idle" /\ tab[t].link = 0 /\ tab[t].shows = "nothing"
  BY DEF LinkPagesInit, Blank
<1>2. LinkTypes
  BY DEF LinkPagesInit, LinkTypes
<1> QED BY <1>1, <1>2 DEF TruthInv, TabTrue

-----------------------------------------------------------------------------
(* Sums over finite sets *)

\* What a fold adds for the set s: some element, and the rest.
Added(w, amounts, s) == IF s = {} THEN 0 ELSE amounts[CHOOSE x \in s : TRUE] + w[s \ {CHOOSE x \in s : TRUE}]
Sums(w, amounts, all) == w \in [SUBSET all -> Nat] /\ \A s \in SUBSET all : w[s] = Added(w, amounts, s)

\* The least of some numbers. It stands in for induction: no least number fails.
LEMMA Least ==
    ASSUME NEW some, some \subseteq Nat, some # {}
    PROVE  \E n \in some : \A m \in some : n <= m
<1> DEFINE below == OpToRel(<, Nat)
<1>2. \A m, n \in Nat : m < n => <<m, n>> \in below
  BY DEF OpToRel
<1>3. IsWellFoundedOn(below, Nat)
  BY NatLessThanWellFounded
<1> HIDE DEF below
<1>1. PICK n \in some : \A m \in some : <<m, n>> \notin below
  BY <1>3, WFMin
<1>4. \A m \in some : m \in Nat /\ n \in Nat /\ ~(m < n)
  BY <1>1, <1>2
<1> QED BY <1>4

\* A nonempty set of finite sets has a member with the fewest elements.
LEMMA Fewest ==
    ASSUME NEW all, IsFiniteSet(all), NEW bad, bad \subseteq SUBSET all, bad # {}
    PROVE  \E s \in bad : \A r \in SUBSET all : Cardinality(r) < Cardinality(s) => r \notin bad
<1>1. \A s \in bad : Cardinality(s) \in Nat
  BY FS_Subset, FS_CardinalityType
<1> DEFINE sizes == {Cardinality(s) : s \in bad}
<1>2. PICK n \in sizes : \A m \in sizes : n <= m
  <2>1. sizes \subseteq Nat /\ sizes # {}
    BY <1>1
  <2> HIDE DEF sizes
  <2> QED BY <2>1, Least
<1>3. PICK s \in bad : Cardinality(s) = n
  OBVIOUS
<1>4. \A r \in bad : Cardinality(r) \in Nat /\ ~(Cardinality(r) < n)
  BY <1>1, <1>2
<1> QED BY <1>3, <1>4

LEMMA OneLess ==
    ASSUME NEW all, IsFiniteSet(all), NEW s \in SUBSET all, NEW x \in s
    PROVE  /\ s \ {x} \in SUBSET all /\ Cardinality(s) \in Nat /\ Cardinality(s \ {x}) \in Nat
           /\ Cardinality(s \ {x}) = Cardinality(s) - 1
<1>1. IsFiniteSet(s)
  BY FS_Subset
<1> QED BY <1>1, FS_RemoveElement, FS_CardinalityType

\* So the smallest bad set is good again with an element less.
LEMMA Shrinks ==
    ASSUME NEW all, IsFiniteSet(all), NEW s \in SUBSET all, NEW x \in s, NEW bad,
           \A r \in SUBSET all : Cardinality(r) < Cardinality(s) => r \notin bad
    PROVE  s \ {x} \in SUBSET all /\ s \ {x} \notin bad
BY OneLess

LEMMA SumsExist ==
    ASSUME NEW all, IsFiniteSet(all), NEW amounts, \A x \in all : amounts[x] \in Nat
    PROVE  \E w : Sums(w, amounts, all)
<1> DEFINE Small(n) == {s \in SUBSET all : Cardinality(s) <= n}
           Partly(n, w) == w \in [Small(n) -> Nat] /\ \A s \in Small(n) : w[s] = Added(w, amounts, s)
           Bad == {n \in Nat : ~ \E w : Partly(n, w)}
<1>c. \A s \in SUBSET all : Cardinality(s) \in Nat /\ (Cardinality(s) = 0 => s = {})
  BY FS_Subset, FS_CardinalityType, FS_EmptySet
<1>1. ASSUME Bad # {} PROVE FALSE
  <2>1. PICK n \in Bad : \A m \in Bad : n <= m
    BY <1>1, Least
  <2>2. CASE n = 0
    <3> DEFINE w == [s \in Small(0) |-> 0]
    <3>1. \A s \in Small(0) : s = {}
      BY <1>c
    <3>2. w \in [Small(0) -> Nat]
      OBVIOUS
    <3>3. \A s \in Small(0) : w[s] = Added(w, amounts, s)
      BY <3>1 DEF Added
    <3> QED BY <3>2, <3>3, <2>1, <2>2
  <2>3. CASE n # 0
    <3>1. PICK w : Partly(n - 1, w)
      <4>1. n \in Nat /\ n - 1 \in Nat
        BY <2>3
      <4>2. n - 1 \notin Bad
        <5> HIDE DEF Bad
        <5> QED BY <2>1, <4>1
      <4> QED BY <4>1, <4>2
    <3> DEFINE pick(s) == CHOOSE x \in s : TRUE
               v == [s \in Small(n) |-> Added(w, amounts, s)]
    <3>2. \A s \in Small(n) : s # {} => pick(s) \in all /\ s \ {pick(s)} \in Small(n - 1) /\ s \ {pick(s)} \in Small(n)
      <4> SUFFICES ASSUME NEW s \in Small(n), s # {}
                   PROVE  pick(s) \in all /\ s \ {pick(s)} \in Small(n - 1) /\ s \ {pick(s)} \in Small(n)
        OBVIOUS
      <4>1. pick(s) \in s
        OBVIOUS
      <4> HIDE DEF pick
      <4>2. /\ s \ {pick(s)} \in SUBSET all /\ Cardinality(s) \in Nat /\ Cardinality(s \ {pick(s)}) \in Nat
            /\ Cardinality(s \ {pick(s)}) = Cardinality(s) - 1
        BY <4>1, OneLess
      <4> QED BY <4>1, <4>2, <2>1
    <3>3. ASSUME NEW s \in Small(n) PROVE v[s] \in Nat /\ v[s] = Added(v, amounts, s)
      <4>1. v[s] = Added(w, amounts, s)
        OBVIOUS
      <4>2. CASE s = {}
        BY <4>1, <4>2 DEF Added
      <4>3. CASE s # {}
        <5>1. pick(s) \in all /\ s \ {pick(s)} \in Small(n - 1) /\ s \ {pick(s)} \in Small(n)
          BY <3>2, <4>3
        <5>2. v[s] = amounts[pick(s)] + w[s \ {pick(s)}] /\ Added(v, amounts, s) = amounts[pick(s)] + v[s \ {pick(s)}]
          BY <4>1, <4>3 DEF Added
        <5> HIDE DEF pick
        <5>3. w[s \ {pick(s)}] \in Nat /\ v[s \ {pick(s)}] = w[s \ {pick(s)}]
          BY <5>1, <3>1
        <5> QED BY <5>1, <5>2, <5>3
      <4> QED BY <4>2, <4>3
    <3>4. v \in [Small(n) -> Nat]
      BY <3>3
    <3> QED BY <3>3, <3>4, <2>1
  <2> QED BY <2>2, <2>3
<1>2. Cardinality(all) \in Nat /\ Small(Cardinality(all)) = SUBSET all
  BY FS_CardinalityType, FS_Subset
<1>3. PICK w : Partly(Cardinality(all), w)
  BY <1>1, <1>2
<1> QED BY <1>2, <1>3 DEF Sums

\* What solves the equation of the sums is the sums.
LEMMA SumsAreNat ==
    ASSUME NEW all, IsFiniteSet(all), NEW amounts, \A x \in all : amounts[x] \in Nat,
           NEW w, w = [s \in SUBSET all |-> Added(w, amounts, s)]
    PROVE  Sums(w, amounts, all)
<1> DEFINE Bad == {s \in SUBSET all : w[s] \notin Nat}
<1>1. ASSUME Bad # {} PROVE FALSE
  <2>1. PICK s \in Bad : \A r \in SUBSET all : Cardinality(r) < Cardinality(s) => r \notin Bad
    <3>1. Bad \subseteq SUBSET all
      OBVIOUS
    <3> HIDE DEF Bad
    <3> QED BY <1>1, <3>1, Fewest
  <2> DEFINE x == CHOOSE x \in s : TRUE
  <2>2. s # {} /\ w[s] = amounts[x] + w[s \ {x}]
    BY <2>1 DEF Added
  <2>3. x \in s /\ x \in all
    BY <2>2
  <2> HIDE DEF x
  <2>4. s \ {x} \in SUBSET all /\ s \ {x} \notin Bad
    <3>1. s \in SUBSET all
      BY <2>1
    <3> HIDE DEF Bad
    <3> QED BY <3>1, <2>1, <2>3, Shrinks
  <2> QED BY <2>1, <2>2, <2>3, <2>4
<1>2. w \in [SUBSET all -> Nat]
  BY <1>1
<1> QED BY <1>2 DEF Sums

\* Any element may be the one that is added last.
LEMMA SumsTakeAny ==
    ASSUME NEW all, IsFiniteSet(all), NEW amounts, \A x \in all : amounts[x] \in Nat,
           NEW w, Sums(w, amounts, all), NEW t \in SUBSET all, NEW z \in t
    PROVE  w[t] = amounts[z] + w[t \ {z}]
<1> DEFINE Bad == {s \in SUBSET all : \E y \in s : w[s] # amounts[y] + w[s \ {y}]}
<1>1. ASSUME Bad # {} PROVE FALSE
  <2>1. PICK s \in Bad : \A r \in SUBSET all : Cardinality(r) < Cardinality(s) => r \notin Bad
    <3>1. Bad \subseteq SUBSET all
      OBVIOUS
    <3> HIDE DEF Bad
    <3> QED BY <1>1, <3>1, Fewest
  <2>2. PICK y \in s : w[s] # amounts[y] + w[s \ {y}]
    BY <2>1
  <2> DEFINE x == CHOOSE x \in s : TRUE
  <2>3. x \in s /\ w[s] = amounts[x] + w[s \ {x}]
    BY <2>2 DEF Sums, Added
  <2> HIDE DEF x
  <2>4. x # y
    BY <2>2, <2>3
  <2>5. s \ {x} \notin Bad /\ s \ {y} \notin Bad /\ s \ {x} \in SUBSET all /\ s \ {y} \in SUBSET all
    <3>1. s \in SUBSET all
      BY <2>1
    <3> HIDE DEF Bad
    <3> QED BY <3>1, <2>1, <2>2, <2>3, Shrinks
  <2>6. w[s \ {x}] = amounts[y] + w[(s \ {x}) \ {y}] /\ w[s \ {y}] = amounts[x] + w[(s \ {y}) \ {x}]
    BY <2>2, <2>3, <2>4, <2>5
  <2>7. (s \ {x}) \ {y} = (s \ {y}) \ {x} /\ (s \ {x}) \ {y} \in SUBSET all
    OBVIOUS
  <2>8. amounts[x] \in Nat /\ amounts[y] \in Nat /\ w[(s \ {x}) \ {y}] \in Nat
    BY <2>2, <2>3, <2>7 DEF Sums
  <2> DEFINE rest == w[(s \ {x}) \ {y}]
  <2>9. w[s \ {y}] = amounts[x] + rest
    BY <2>6, <2>7
  <2>10. w[s] = amounts[x] + (amounts[y] + rest)
    BY <2>3, <2>6
  <2>11. w[s] # amounts[y] + (amounts[x] + rest)
    BY <2>2, <2>9
  <2> HIDE DEF rest
  <2> QED BY <2>8, <2>10, <2>11 DEF rest
<1> QED BY <1>1

\* The sums over a piece are those of the whole.
LEMMA SumsAgree ==
    ASSUME NEW all, IsFiniteSet(all), NEW amounts, \A x \in all : amounts[x] \in Nat,
           NEW w, Sums(w, amounts, all), NEW piece \in SUBSET all, NEW v, Sums(v, amounts, piece), NEW t \in SUBSET piece
    PROVE  v[t] = w[t]
<1> DEFINE Bad == {s \in SUBSET piece : v[s] # w[s]}
<1>f. IsFiniteSet(piece)
  BY FS_Subset
<1>1. ASSUME Bad # {} PROVE FALSE
  <2>1. PICK s \in Bad : \A r \in SUBSET piece : Cardinality(r) < Cardinality(s) => r \notin Bad
    <3>1. Bad \subseteq SUBSET piece
      OBVIOUS
    <3> HIDE DEF Bad
    <3> QED BY <1>1, <1>f, <3>1, Fewest
  <2>2. s \in SUBSET all /\ v[s] = Added(v, amounts, s) /\ w[s] = Added(w, amounts, s)
    BY DEF Sums
  <2> DEFINE x == CHOOSE x \in s : TRUE
  <2>3. s # {} /\ x \in s
    BY <2>1, <2>2 DEF Added
  <2>4. v[s] = amounts[x] + v[s \ {x}] /\ w[s] = amounts[x] + w[s \ {x}]
    BY <2>2, <2>3 DEF Added
  <2> HIDE DEF x
  <2>5. s \ {x} \in SUBSET piece /\ s \ {x} \notin Bad
    <3>1. s \in SUBSET piece
      BY <2>1
    <3> HIDE DEF Bad
    <3> QED BY <3>1, <2>1, <2>3, <1>f, Shrinks
  <2> QED BY <2>1, <2>4, <2>5
<1> QED BY <1>1

\* Two sets that share nothing.
LEMMA SumsAdd ==
    ASSUME NEW all, IsFiniteSet(all), NEW amounts, \A x \in all : amounts[x] \in Nat,
           NEW w, Sums(w, amounts, all), NEW p \in SUBSET all, NEW q \in SUBSET all, p \cap q = {}
    PROVE  w[p \cup q] = w[p] + w[q]
<1> DEFINE Bad == {s \in SUBSET all : s \cap q = {} /\ w[s \cup q] # w[s] + w[q]}
<1>1. ASSUME Bad # {} PROVE FALSE
  <2>1. PICK s \in Bad : \A r \in SUBSET all : Cardinality(r) < Cardinality(s) => r \notin Bad
    <3>1. Bad \subseteq SUBSET all
      OBVIOUS
    <3> HIDE DEF Bad
    <3> QED BY <1>1, <3>1, Fewest
  <2>2. CASE s = {}
    <3>1. w[{}] = 0 /\ {} \cup q = q /\ w[q] \in Nat
      BY DEF Sums, Added
    <3> QED BY <2>1, <2>2, <3>1
  <2>3. CASE s # {}
    <3>1. PICK x \in s : TRUE
      BY <2>3
    <3>2. s \ {x} \in SUBSET all /\ s \ {x} \notin Bad
      <4>1. s \in SUBSET all
        BY <2>1
      <4> HIDE DEF Bad
      <4> QED BY <4>1, <2>1, <3>1, Shrinks
    <3>8. (s \ {x}) \cap q = {} /\ x \in all
      BY <2>1, <3>1
    <3>3. w[(s \ {x}) \cup q] = w[s \ {x}] + w[q]
      BY <3>2, <3>8
    <3>4. w[s] = amounts[x] + w[s \ {x}]
      BY <3>1, SumsTakeAny
    <3>5. s \cup q \in SUBSET all /\ (s \cup q) \ {x} = (s \ {x}) \cup q /\ x \in s \cup q
      BY <2>1, <3>1
    <3>6. w[s \cup q] = amounts[x] + w[(s \ {x}) \cup q]
      BY <3>5, SumsTakeAny
    <3>7. w[s \ {x}] \in Nat /\ w[q] \in Nat /\ amounts[x] \in Nat
      BY <3>2, <3>8 DEF Sums
    <3> QED BY <3>3, <3>4, <3>6, <3>7, <2>1
  <2> QED BY <2>2, <2>3
<1> QED BY <1>1

\* What the model's sums are.
LEMMA TotalSums ==
    ASSUME NEW all, IsFiniteSet(all), NEW amounts, \A x \in all : amounts[x] \in Nat
    PROVE  \E w : Sums(w, amounts, all) /\ Total(amounts, all) = w[all]
<1>1. PICK u : Sums(u, amounts, all)
  BY SumsExist
<1>2. u = [s \in SUBSET all |-> Added(u, amounts, s)]
  BY <1>1 DEF Sums
<1>3. PICK w : w = [s \in SUBSET all |-> Added(w, amounts, s)] /\ Total(amounts, all) = w[all]
  BY <1>2 DEF Total, MapThenSumSet, MapThenFoldSet, Added
<1> QED BY <1>3, SumsAreNat

\* A total over two sets that share nothing is theirs together.
LEMMA TotalsAdd ==
    ASSUME NEW all, IsFiniteSet(all), NEW amounts, \A x \in all : amounts[x] \in Nat,
           NEW p \in SUBSET all, NEW q \in SUBSET all, p \cap q = {}
    PROVE  /\ Total(amounts, p) \in Nat /\ Total(amounts, q) \in Nat
           /\ Total(amounts, p \cup q) = Total(amounts, p) + Total(amounts, q)
<1>1. PICK w : Sums(w, amounts, all)
  BY SumsExist
<1>2. \A piece \in SUBSET all : Total(amounts, piece) = w[piece] /\ w[piece] \in Nat
  <2> SUFFICES ASSUME NEW piece \in SUBSET all PROVE Total(amounts, piece) = w[piece] /\ w[piece] \in Nat
    OBVIOUS
  <2>1. IsFiniteSet(piece)
    BY FS_Subset
  <2>2. PICK v : Sums(v, amounts, piece) /\ Total(amounts, piece) = v[piece]
    BY <2>1, TotalSums
  <2>3. v[piece] = w[piece]
    BY <2>2, <1>1, SumsAgree
  <2> QED BY <2>2, <2>3, <1>1 DEF Sums
<1>3. w[p \cup q] = w[p] + w[q]
  BY <1>1, SumsAdd
<1> QED BY <1>2, <1>3

\* A piece is no more than the whole.
LEMMA TotalOfPart ==
    ASSUME NEW all, IsFiniteSet(all), NEW amounts, \A x \in all : amounts[x] \in Nat, NEW piece \in SUBSET all
    PROVE  Total(amounts, piece) \in Nat /\ Total(amounts, all) \in Nat /\ Total(amounts, piece) <= Total(amounts, all)
<1> DEFINE rest == all \ piece
<1>1. rest \in SUBSET all /\ piece \cap rest = {} /\ piece \cup rest = all
  OBVIOUS
<1> HIDE DEF rest
<1>2. /\ Total(amounts, piece) \in Nat /\ Total(amounts, rest) \in Nat
      /\ Total(amounts, piece \cup rest) = Total(amounts, piece) + Total(amounts, rest)
  BY <1>1, TotalsAdd
<1>3. Total(amounts, all) = Total(amounts, piece) + Total(amounts, rest)
  BY <1>1, <1>2
<1> QED BY <1>2, <1>3

-----------------------------------------------------------------------------
(* The figures of a report *)

ReportNames == Totals \cup Periods \cup RowStages

\* What was answered since the last write is what the rows say now.
ReportInv ==
    /\ ReportTypeOK
    /\ quiet => \A f \in figures : f.value = Figure(f.figure)
    /\ reporting = "grouped" => Answered = RowStages
    /\ quiet /\ reporting = "chart" => chart = RevenueChart

LEMMA CountIsNat == ASSUME NEW stages PROVE Count(stages) \in Nat
<1>1. {r \in Listed : stage[r] \in stages} \subseteq Listed /\ IsFiniteSet(Listed)
  BY ReportAssumption
<1>2. IsFiniteSet({r \in Listed : stage[r] \in stages})
  BY <1>1, FS_Subset
<1> QED BY <1>2, FS_CardinalityType DEF Count

LEMMA TotalIsNat ==
    ASSUME NEW amounts \in [Dates -> Nat], NEW dates \in SUBSET Dates
    PROVE  Total(amounts, dates) \in Nat
<1>1. IsFiniteSet(Dates) /\ \A x \in Dates : amounts[x] \in Nat
  BY ReportAssumption
<1> QED BY <1>1, TotalOfPart

LEMMA FigureIsNat == ASSUME ReportTypeOK, NEW name PROVE Figure(name) \in Nat
<1>1. /\ paid \in [Dates -> Nat] /\ outgoings \in [Dates -> Nat]
      /\ \A m : InMonth(m) \in SUBSET Dates /\ SinceMonth(m) \in SUBSET Dates
  BY DEF ReportTypeOK, InMonth, SinceMonth
<1>2. \A stages : Count(stages) \in Nat
  BY CountIsNat
<1>3. \A dates \in SUBSET Dates : Total(paid, dates) \in Nat /\ Total(outgoings, dates) \in Nat
  BY <1>1, TotalIsNat
<1>4. Figure(name) \in {Total(paid, Dates), Total(outgoings, Dates), Count(RowStages), Count({Done}), Total(paid, SinceMonth(today.m)),
          Total(paid, InMonth(today.m - 1)), Total(outgoings, SinceMonth(today.m)), Total(outgoings, InMonth(today.m - 1)), Count({name})}
  BY DEF Figure
<1> QED BY <1>1, <1>2, <1>3, <1>4

\* The bars are months, and what they show is a sum.
LEMMA ChartIsTyped ==
    ASSUME ReportTypeOK
    PROVE  \A b \in RevenueChart : b.month \in DOMAIN Lengths /\ b.amount \in Nat
<1>1. /\ today \in Todays /\ today.m \in 1..Len(Lengths) /\ Bars \in Nat /\ today.m > Bars /\ DOMAIN Lengths = 1..Len(Lengths)
      /\ Len(Lengths) \in Nat /\ today.d <= Lengths[today.m]
  BY ReportAssumption DEF ReportTypeOK
<1>2. ASSUME NEW i \in 0..(Bars - 1) PROVE SetMonth(today, today.m - i).m \in DOMAIN Lengths
  <2>1. today.m - i \in 1..Len(Lengths) /\ (i # 0 => today.m - i + 1 \in 1..Len(Lengths))
    BY <1>1
  <2>2. i = 0 => today.m - i = today.m
    BY <1>1
  <2>3. SetMonth(today, today.m - i).m = IF today.d <= Lengths[today.m - i] THEN today.m - i ELSE today.m - i + 1
    BY DEF SetMonth
  <2> QED BY <2>1, <2>2, <2>3, <1>1
<1>3. \A m \in Months : m \in DOMAIN Lengths
  BY <1>2 DEF Months
<1>4. \A m, s : {t \in InMonth(m) : ~Before(t, s)} \in SUBSET Dates
  BY DEF InMonth
<1>5. \A m, s : Total(paid, {t \in InMonth(m) : ~Before(t, s)}) \in Nat
  BY <1>4, TotalIsNat DEF ReportTypeOK
<1>6. ASSUME NEW b \in RevenueChart PROVE b.month \in DOMAIN Lengths /\ b.amount \in Nat
  <2>1. PICK m \in Months :
            b = [month |-> m, amount |-> Total(paid, {t \in InMonth(m) : ~Before(t, SetMonth(today, today.m - Bars))})]
    BY <1>6 DEF RevenueChart
  <2>2. b.month = m /\ b.amount = Total(paid, {t \in InMonth(m) : ~Before(t, SetMonth(today, today.m - Bars))})
    BY <2>1
  <2> QED BY <2>2, <1>3, <1>5
<1> QED BY <1>6

\* Figures and bars are of the rows and the day alone.
LEMMA FiguresRest ==
    ASSUME UNCHANGED <<today, paid, outgoings, stage>>
    PROVE  /\ \A name : Figure(name)' = Figure(name)
           /\ RevenueChart' = RevenueChart
<1>1. \A stages : Count(stages)' = Count(stages)
  BY DEF Count
<1>2. \A dates : Total(paid, dates)' = Total(paid, dates) /\ Total(outgoings, dates)' = Total(outgoings, dates)
  OBVIOUS
<1>3. \A name : Figure(name)' = Figure(name)
  BY <1>1, <1>2 DEF Figure
<1>4. RevenueChart' = RevenueChart
  BY DEF RevenueChart, Months
<1> QED BY <1>3, <1>4

LEMMA ReportStep == ReportInv /\ [ReportNext]_reportVars => ReportInv'
<1> SUFFICES ASSUME ReportInv, [ReportNext]_reportVars PROVE ReportInv'
  OBVIOUS
<1>t. /\ today \in Todays /\ paid \in [Dates -> Nat] /\ outgoings \in [Dates -> Nat]
      /\ stage \in [Listed -> RowStages \cup {"none"}]
      /\ reporting \in {"none", "dashboard", "stages", "grouped", "chart"}
      /\ \A f \in figures : f.figure \in ReportNames /\ f.value \in Nat
      /\ \A b \in chart : b.month \in DOMAIN Lengths /\ b.amount \in Nat
      /\ quiet \in BOOLEAN /\ writes \in 0..MaxWrites
  BY DEF ReportInv, ReportTypeOK, ReportNames
<1>i. /\ quiet => \A f \in figures : f.value = Figure(f.figure)
      /\ reporting = "grouped" => Answered = RowStages
      /\ quiet /\ reporting = "chart" => chart = RevenueChart
      /\ ReportTypeOK
  BY DEF ReportInv
<1>1. ASSUME NEW report \in {"dashboard", "stages", "grouped", "chart"}, AskFor(report) PROVE ReportInv'
  <2>1. /\ reporting' = report /\ quiet' = TRUE /\ UNCHANGED <<today, paid, outgoings, stage, writes>>
        /\ figures' = IF report = "grouped" THEN {[figure |-> s, value |-> Figure(s)] : s \in RowStages} ELSE {}
        /\ chart' = IF report = "chart" THEN RevenueChart ELSE {}
    BY <1>1 DEF AskFor
  <2>2. (\A name : Figure(name)' = Figure(name)) /\ RevenueChart' = RevenueChart
    BY <2>1, FiguresRest
  <2>3. \A f \in figures' : f.figure \in RowStages /\ f.value = Figure(f.figure) /\ f.value \in Nat
    BY <2>1, <1>i, FigureIsNat
  <2>4. \A b \in chart' : b.month \in DOMAIN Lengths /\ b.amount \in Nat
    BY <2>1, <1>i, ChartIsTyped
  <2>5. ReportTypeOK'
    BY <2>1, <2>3, <2>4, <1>t DEF ReportTypeOK
  <2>6. ASSUME report = "grouped" PROVE Answered' = RowStages
    <3>1. figures' = {[figure |-> s, value |-> Figure(s)] : s \in RowStages}
      BY <2>1, <2>6
    <3>2. ASSUME NEW s \in RowStages PROVE \E f \in figures' : f.figure = s
      <4>1. [figure |-> s, value |-> Figure(s)] \in figures'
        BY <3>1
      <4> QED BY <4>1
    <3> QED BY <2>3, <3>2 DEF Answered
  <2> QED BY <2>1, <2>2, <2>3, <2>5, <2>6 DEF ReportInv
<1>2. ASSUME NEW name \in ReportNames, QueryFigure(name) PROVE ReportInv'
  <2>1. /\ figures' = figures \cup {[figure |-> name, value |-> Figure(name)]} /\ name \in Awaited
        /\ UNCHANGED <<today, paid, outgoings, stage, reporting, chart, quiet, writes>>
    BY <1>2 DEF QueryFigure
  <2>2. (\A n : Figure(n)' = Figure(n)) /\ RevenueChart' = RevenueChart
    BY <2>1, FiguresRest
  <2>3. Figure(name) \in Nat
    BY <1>i, FigureIsNat
  <2>4. \A f \in figures' : f \in figures \/ (f.figure = name /\ f.value = Figure(name))
    BY <2>1
  <2>5. ReportTypeOK'
    BY <2>1, <2>3, <2>4, <1>t DEF ReportTypeOK, ReportNames
  <2>6. reporting # "grouped"
    BY <2>1 DEF Awaited
  <2> QED BY <2>1, <2>2, <2>4, <2>5, <2>6, <1>i DEF ReportInv
<1>3. CASE Reported
  <2>1. /\ reporting' = "none" /\ figures' = {} /\ chart' = {}
        /\ UNCHANGED <<today, paid, outgoings, stage, quiet, writes>>
    BY <1>3 DEF Reported
  <2>2. ReportTypeOK'
    BY <2>1, <1>t DEF ReportTypeOK
  <2> QED BY <2>1, <2>2 DEF ReportInv
<1>w. ASSUME SomebodyWrites, paid' \in [Dates -> Nat], outgoings' \in [Dates -> Nat], stage' \in [Listed -> RowStages \cup {"none"}]
      PROVE  ReportInv'
  <2>1. writes' \in 0..MaxWrites /\ quiet' = FALSE /\ UNCHANGED <<today, reporting, figures, chart>>
    BY <1>w, <1>t, ReportAssumption DEF SomebodyWrites
  <2>2. ReportTypeOK'
    BY <2>1, <1>w, <1>t DEF ReportTypeOK, ReportNames
  <2> QED BY <2>1, <2>2, <1>i DEF ReportInv, Answered
<1>4. CASE Pay
  <2>1. paid' = [paid EXCEPT ![today] = paid[today] + 1] /\ today \in Dates
    BY <1>4, <1>t, ReportAssumption DEF Pay
  <2>2. paid' \in [Dates -> Nat]
    BY <2>1, <1>t
  <2> QED BY <1>4, <2>2, <1>t, <1>w DEF Pay
<1>5. ASSUME NEW t \in Dates, Refund(t) PROVE ReportInv'
  <2>1. paid' = [paid EXCEPT ![t] = paid[t] - 1] /\ paid[t] > 0 /\ paid[t] \in Nat
    BY <1>5, <1>t DEF Refund
  <2>2. paid' \in [Dates -> Nat]
    BY <2>1, <1>t
  <2> QED BY <1>5, <2>2, <1>t, <1>w DEF Refund
<1>6. ASSUME NEW t \in Dates, Approve(t) PROVE ReportInv'
  <2>1. outgoings' \in [Dates -> Nat]
    BY <1>6, <1>t DEF Approve
  <2> QED BY <1>6, <2>1, <1>t, <1>w DEF Approve
<1>7. ASSUME NEW r \in Listed, NEW s \in RowStages \cup {"none"}, MoveRow(r, s) PROVE ReportInv'
  <2>1. stage' \in [Listed -> RowStages \cup {"none"}]
    BY <1>7, <1>t DEF MoveRow
  <2> QED BY <1>7, <2>1, <1>t, <1>w DEF MoveRow
<1>8. CASE UNCHANGED reportVars
  <2>1. UNCHANGED <<today, paid, outgoings, stage, reporting, figures, chart, quiet, writes>>
    BY <1>8 DEF reportVars
  <2>2. (\A name : Figure(name)' = Figure(name)) /\ RevenueChart' = RevenueChart
    BY <2>1, FiguresRest
  <2>3. ReportTypeOK' /\ Answered' = Answered
    BY <2>1, <1>t DEF ReportTypeOK, ReportNames, Answered
  <2> QED BY <2>1, <2>2, <2>3, <1>i DEF ReportInv
<1> QED BY <1>1, <1>2, <1>3, <1>4, <1>5, <1>6, <1>7, <1>8 DEF ReportNext, ReportNames

LEMMA ReportInitially == ReportInit => ReportInv
<1> SUFFICES ASSUME ReportInit PROVE ReportInv
  OBVIOUS
<1>1. ReportTypeOK
  BY ReportAssumption DEF ReportInit, ReportTypeOK
<1> QED BY <1>1 DEF ReportInit, ReportInv

\* An answer is found under its name.
LEMMA Answers ==
    ASSUME ReportInv, NEW name \in Answered
    PROVE  Value(name) \in Nat /\ (quiet => Value(name) = Figure(name))
<1>1. \E f \in figures : f.figure = name
  BY DEF Answered
<1> DEFINE f == CHOOSE f \in figures : f.figure = name
<1>2. f \in figures /\ f.figure = name
  BY <1>1
<1>3. Value(name) = f.value
  BY DEF Value
<1> HIDE DEF f
<1> QED BY <1>2, <1>3 DEF ReportInv, ReportTypeOK

\* No more is completed than there is.
LEMMA PartIsCounted ==
    ASSUME NEW some, NEW stages, some \subseteq stages
    PROVE  Count(some) <= Count(stages)
<1> DEFINE RowsIn(s) == {r \in Listed : stage[r] \in s}
<1>1. RowsIn(some) \subseteq RowsIn(stages) /\ RowsIn(stages) \subseteq Listed
  OBVIOUS
<1>2. IsFiniteSet(RowsIn(stages))
  BY <1>1, ReportAssumption, FS_Subset
<1>3. Count(some) = Cardinality(RowsIn(some)) /\ Count(stages) = Cardinality(RowsIn(stages))
  BY DEF Count
<1> HIDE DEF RowsIn
<1> QED BY <1>1, <1>2, <1>3, FS_Subset

\* A row is counted in one status: the counts of several add up.
LEMMA CountsAddUp ==
    ASSUME NEW w, Sums(w, [s \in RowStages |-> Count({s})], RowStages), NEW stages \in SUBSET RowStages
    PROVE  w[stages] = Count(stages)
<1> DEFINE counts == [s \in RowStages |-> Count({s})]
           Bad == {s \in SUBSET RowStages : w[s] # Count(s)}
<1>f. IsFiniteSet(RowStages) /\ IsFiniteSet(Listed)
  BY ReportAssumption
<1>n. \A s \in RowStages : counts[s] \in Nat
  BY CountIsNat
<1>1. ASSUME Bad # {} PROVE FALSE
  <2>1. PICK s \in Bad : \A r \in SUBSET RowStages : Cardinality(r) < Cardinality(s) => r \notin Bad
    <3>1. Bad \subseteq SUBSET RowStages
      OBVIOUS
    <3> HIDE DEF Bad
    <3> QED BY <1>1, <1>f, <3>1, Fewest
  <2>2. CASE s = {}
    <3>1. w[{}] = 0
      BY DEF Sums, Added
    <3>2. {r \in Listed : stage[r] \in {}} = {}
      OBVIOUS
    <3>3. Count({}) = 0
      BY <3>2, FS_EmptySet DEF Count
    <3> QED BY <2>1, <2>2, <3>1, <3>3
  <2>3. CASE s # {}
    <3>1. PICK x \in s : TRUE
      BY <2>3
    <3>2. s \ {x} \in SUBSET RowStages /\ s \ {x} \notin Bad
      <4>1. s \in SUBSET RowStages
        BY <2>1
      <4> HIDE DEF Bad
      <4> QED BY <4>1, <1>f, <2>1, <3>1, Shrinks
    <3>3. w[s] = counts[x] + w[s \ {x}]
      <4> HIDE DEF counts
      <4>1. Sums(w, counts, RowStages)
        BY DEF counts
      <4>2. s \in SUBSET RowStages
        BY <2>1
      <4> HIDE DEF Bad
      <4> QED BY <4>1, <4>2, <1>f, <1>n, <3>1, SumsTakeAny
    <3>4. counts[x] = Count({x}) /\ w[s \ {x}] = Count(s \ {x})
      BY <3>1, <3>2, <2>1
    <3>5. Count(s) = Count({x}) + Count(s \ {x})
      <4> DEFINE RowsIn(t) == {r \in Listed : stage[r] \in t}
      <4>1. /\ RowsIn(s) = RowsIn({x}) \cup RowsIn(s \ {x}) /\ RowsIn({x}) \cap RowsIn(s \ {x}) = {}
            /\ \A t : RowsIn(t) \subseteq Listed
        BY <3>1
      <4>2. \A t : Count(t) = Cardinality(RowsIn(t))
        BY DEF Count
      <4> HIDE DEF RowsIn
      <4>3. \A t : IsFiniteSet(RowsIn(t))
        BY <4>1, <1>f, FS_Subset
      <4>4. Cardinality(RowsIn(s)) = Cardinality(RowsIn({x})) + Cardinality(RowsIn(s \ {x}))
        <5>1. Cardinality(RowsIn({x}) \cup RowsIn(s \ {x})) =
                  Cardinality(RowsIn({x})) + Cardinality(RowsIn(s \ {x})) - Cardinality(RowsIn({x}) \cap RowsIn(s \ {x}))
          BY <4>3, FS_Union
        <5>2. Cardinality(RowsIn({x}) \cap RowsIn(s \ {x})) = 0
          BY <4>1, FS_EmptySet
        <5>3. Cardinality(RowsIn({x})) \in Nat /\ Cardinality(RowsIn(s \ {x})) \in Nat
          BY <4>3, FS_CardinalityType
        <5>4. Cardinality(RowsIn(s)) = Cardinality(RowsIn({x}) \cup RowsIn(s \ {x}))
          BY <4>1
        <5> QED BY <5>1, <5>2, <5>3, <5>4
      <4> QED BY <4>2, <4>4
    <3> QED BY <3>3, <3>4, <3>5, <2>1
  <2> QED BY <2>2, <2>3
<1> QED BY <1>1

\* The sum over the answers is the sum of the counts.
LEMMA AnswersSum ==
    ASSUME \A s \in RowStages : Value(s) = Count({s})
    PROVE  MapThenSumSet(Value, RowStages) = Count(RowStages)
<1> DEFINE counts == [s \in RowStages |-> Count({s})]
           first(s) == CHOOSE x \in s : TRUE
<1>f. IsFiniteSet(RowStages)
  BY ReportAssumption
<1>n. \A s \in RowStages : counts[s] \in Nat
  BY CountIsNat
<1>1. \A s \in SUBSET RowStages : s # {} => Value(first(s)) = counts[first(s)]
  OBVIOUS
<1>2. PICK u : Sums(u, counts, RowStages)
  <2> HIDE DEF counts
  <2> QED BY <1>f, <1>n, SumsExist
<1>3. u = [s \in SUBSET RowStages |-> IF s = {} THEN 0 ELSE Value(first(s)) + u[s \ {first(s)}]]
  BY <1>1, <1>2 DEF Sums, Added
<1>4. PICK w : /\ w = [s \in SUBSET RowStages |-> IF s = {} THEN 0 ELSE Value(first(s)) + w[s \ {first(s)}]]
               /\ MapThenSumSet(Value, RowStages) = w[RowStages]
  BY <1>3 DEF MapThenSumSet, MapThenFoldSet
<1>5. w = [s \in SUBSET RowStages |-> Added(w, counts, s)]
  BY <1>1, <1>4 DEF Added
<1>6. Sums(w, counts, RowStages)
  <2> HIDE DEF counts
  <2> QED BY <1>5, <1>f, <1>n, SumsAreNat
<1> QED BY <1>4, <1>6, CountsAddUp

LEMMA ReportsAgree == ReportInv => FiguresAgree
<1> SUFFICES ASSUME ReportInv, IsComplete, quiet
             PROVE  /\ reporting = "dashboard" =>
                        /\ Value("completed") <= Value("rows")
                        /\ Value("revenueNow") + Value("revenueBefore") <= Value("revenue")
                        /\ Value("expensesNow") + Value("expensesBefore") <= Value("expenses")
                    /\ reporting \in {"stages", "grouped"} => MapThenSumSet(Value, RowStages) = Count(RowStages)
  BY DEF FiguresAgree
<1>1. ASSUME reporting = "dashboard"
      PROVE  /\ Value("completed") <= Value("rows")
             /\ Value("revenueNow") + Value("revenueBefore") <= Value("revenue")
             /\ Value("expensesNow") + Value("expensesBefore") <= Value("expenses")
  <2>1. Totals \subseteq Answered /\ Periods \subseteq Answered
    BY <1>1 DEF IsComplete, Awaited, Totals, Periods
  <2>2. \A name \in Totals \cup Periods : Value(name) = Figure(name)
    BY <2>1, Answers
  <2>3. /\ Value("completed") = Count({Done}) /\ Value("rows") = Count(RowStages)
        /\ Value("revenue") = Total(paid, Dates) /\ Value("expenses") = Total(outgoings, Dates)
        /\ Value("revenueNow") = Total(paid, SinceMonth(today.m))
        /\ Value("revenueBefore") = Total(paid, InMonth(today.m - 1))
        /\ Value("expensesNow") = Total(outgoings, SinceMonth(today.m))
        /\ Value("expensesBefore") = Total(outgoings, InMonth(today.m - 1))
    BY <2>2 DEF Figure, Totals, Periods
  <2>4. Count({Done}) <= Count(RowStages)
    BY PartIsCounted, ReportAssumption
  <2> DEFINE current == SinceMonth(today.m)
             earlier == InMonth(today.m - 1)
  <2>5. current \in SUBSET Dates /\ earlier \in SUBSET Dates /\ current \cup earlier \in SUBSET Dates /\ current \cap earlier = {}
    <3>1. \A t \in Dates \cup Todays : t.m \in Nat
      BY ReportAssumption
    <3>2. today.m \in Nat
      BY <3>1 DEF ReportInv, ReportTypeOK
    <3>3. \A t \in Dates : ~(t.m >= today.m /\ t.m = today.m - 1)
      BY <3>1, <3>2
    <3> QED BY <3>3 DEF SinceMonth, InMonth
  <2> HIDE DEF current, earlier
  <2>6. IsFiniteSet(Dates) /\ (\A t \in Dates : paid[t] \in Nat) /\ (\A t \in Dates : outgoings[t] \in Nat)
    BY ReportAssumption DEF ReportInv, ReportTypeOK
  <2>7. Total(paid, current) + Total(paid, earlier) <= Total(paid, Dates)
    <3>1. Total(paid, current \cup earlier) = Total(paid, current) + Total(paid, earlier)
      BY <2>5, <2>6, TotalsAdd
    <3> QED BY <3>1, <2>5, <2>6, TotalOfPart
  <2>8. Total(outgoings, current) + Total(outgoings, earlier) <= Total(outgoings, Dates)
    <3>1. Total(outgoings, current \cup earlier) = Total(outgoings, current) + Total(outgoings, earlier)
      BY <2>5, <2>6, TotalsAdd
    <3> QED BY <3>1, <2>5, <2>6, TotalOfPart
  <2> QED BY <2>3, <2>4, <2>7, <2>8 DEF current, earlier
<1>2. ASSUME reporting \in {"stages", "grouped"} PROVE MapThenSumSet(Value, RowStages) = Count(RowStages)
  <2>1. RowStages \subseteq Answered
    <3>1. CASE reporting = "stages"
      BY <3>1 DEF IsComplete, Awaited
    <3>2. CASE reporting = "grouped"
      BY <3>2 DEF ReportInv
    <3> QED BY <1>2, <3>1, <3>2
  <2>2. ASSUME NEW s \in RowStages PROVE Value(s) = Count({s})
    <3>1. Value(s) = Figure(s)
      BY <2>1, Answers
    <3>2. s \notin Totals \cup Periods
      BY FigureAssumption
    <3> QED BY <3>1, <3>2 DEF Figure, Totals, Periods
  <2> QED BY <2>2, AnswersSum
<1> QED BY <1>1, <1>2

\* Within the window no payment of a month is before the first day of it.
LEMMA ChartsAreWhole == ReportInv => ChartIsWhole
<1> SUFFICES ASSUME ReportInv, reporting = "chart", quiet, \A m \in (today.m - Bars)..today.m : today.d <= Lengths[m]
             PROVE  chart = {[month |-> m, amount |-> Total(paid, InMonth(m))] : m \in (today.m - Bars + 1)..today.m}
  BY DEF ChartIsWhole
<1>1. chart = RevenueChart /\ today.m \in Nat /\ Bars \in Nat /\ \A t \in Dates : t.m \in Nat
  BY ReportAssumption DEF ReportInv, ReportTypeOK
<1>2. \A m \in (today.m - Bars)..today.m : SetMonth(today, m) = [m |-> m, d |-> today.d]
  BY DEF SetMonth
<1>3. today.m - Bars \in (today.m - Bars)..today.m
  BY <1>1
<1>4. ASSUME NEW m \in (today.m - Bars + 1)..today.m
      PROVE  {t \in InMonth(m) : ~Before(t, SetMonth(today, today.m - Bars))} = InMonth(m)
  <2>1. SetMonth(today, today.m - Bars).m = today.m - Bars
    BY <1>2, <1>3
  <2>2. \A t \in InMonth(m) : t.m = m /\ ~(m < today.m - Bars) /\ m # today.m - Bars
    BY <1>1 DEF InMonth
  <2> QED BY <2>1, <2>2 DEF Before
<1>5. Months = (today.m - Bars + 1)..today.m
  <2>1. \A i \in 0..(Bars - 1) : today.m - i \in (today.m - Bars + 1)..today.m /\ SetMonth(today, today.m - i).m = today.m - i
    BY <1>1, <1>2
  <2>2. \A m \in (today.m - Bars + 1)..today.m : today.m - m \in 0..(Bars - 1) /\ SetMonth(today, today.m - (today.m - m)).m = m
    BY <1>1, <1>2
  <2> QED BY <2>1, <2>2 DEF Months
<1> QED BY <1>1, <1>4, <1>5 DEF RevenueChart

LEMMA TrendsPointRight == ReportInv => TrendPointsRight
<1> SUFFICES ASSUME ReportInv, IsComplete, reporting = "dashboard" PROVE TrendPointsRight
  BY DEF TrendPointsRight
<1>1. Totals \subseteq Answered /\ Periods \subseteq Answered
  BY DEF IsComplete, Awaited, Totals, Periods
<1>2. /\ Value("revenueNow") \in Nat /\ Value("revenueBefore") \in Nat
      /\ Value("expensesNow") \in Nat /\ Value("expensesBefore") \in Nat
  BY <1>1, Answers DEF Periods
<1>3. \A n, m \in Int : m > 0 \/ (m = 0 /\ n >= 0) => (ComputeChange(n, m) = "-" <=> n < m)
  BY DEF ComputeChange
<1> QED BY <1>2, <1>3 DEF TrendPointsRight

LEMMA ReportInvSays == ReportInv => ReportTypeOK /\ FiguresAgree /\ ChartIsWhole /\ TrendPointsRight
  BY ReportsAgree, ChartsAreWhole, TrendsPointRight DEF ReportInv

-----------------------------------------------------------------------------
(* What is on record, in the composition *)

LEMMA RecordsInitially ==
    ServicesInit => RecordInv /\ ToolInv /\ InsightInv /\ LinkPagesInv /\ TruthInv /\ ReportInv
  BY RecordInitially, ToolInitially, InsightInitially, LinkPagesInitially, TruthInitially, ReportInitially DEF ServicesInit

LEMMA RecordsStep ==
    RecordInv /\ ToolInv /\ InsightInv /\ LinkPagesInv /\ TruthInv /\ ReportInv
      /\ [ServicesNext]_<<part, servicesVars, gateVars, moreVars>> =>
        RecordInv' /\ ToolInv' /\ InsightInv' /\ LinkPagesInv' /\ TruthInv' /\ ReportInv'
<1> SUFFICES ASSUME RecordInv, ToolInv, InsightInv, LinkPagesInv, TruthInv, ReportInv,
                    [ServicesNext]_<<part, servicesVars, gateVars, moreVars>>
             PROVE  RecordInv' /\ ToolInv' /\ InsightInv' /\ LinkPagesInv' /\ TruthInv' /\ ReportInv'
  OBVIOUS
<1>1. [GenNext]_genVars
  BY DEF ServicesNext, servicesVars
<1>2. [ToolNext]_toolVars
  BY DEF ServicesNext, moreVars, officeVars
<1>3. [ReportNext]_reportVars
  BY DEF ServicesNext, moreVars, officeVars
<1>4. [LinkPagesNext]_linkPageVars
  BY DEF ServicesNext, moreVars, officeVars, adviceVars
<1>5. [InsightNext]_insightVars
  BY DEF ServicesNext, moreVars, officeVars, adviceVars
<1> QED BY <1>1, <1>2, <1>3, <1>4, <1>5, RecordStep, ToolStep, ReportStep, LinkPagesStep, TruthStep, InsightStep

\* What is on record is so, whatever else the services do: what a generation says
\* it made, a call for each deed of a tool that left none without a word lost, a
\* run that is closed as it ended, figures that agree with each other, advice of
\* the time it was asked for, and pages that report what was done.
THEOREM RecordsTell == ServicesSpec => []RecordsAreTrue
<1>1. RecordInv => RecordIsTrue
  BY DEF RecordInv
<1>2. RecordInv /\ ToolInv /\ InsightInv /\ LinkPagesInv /\ TruthInv /\ ReportInv => RecordsAreTrue
  BY <1>1, ToolInvSays, InsightInvSays, TruthInvSays, ReportInvSays DEF RecordsAreTrue
<1> QED BY <1>2, RecordsInitially, RecordsStep, PTL DEF ServicesSpec

-----------------------------------------------------------------------------
(* Invoices and their payments *)

PayTypes ==
    /\ amountPaid \in Nat /\ received \in Nat /\ status \in InvoiceStatus /\ byHand \in BOOLEAN
    /\ payPc \in [Payers -> {"idle", "inserted", "read"}] /\ amount \in [Payers -> Amounts \cup {0}]
    /\ paidSeen \in [Payers -> Nat] /\ dropped \in BOOLEAN /\ overlapped \in BOOLEAN

InsertedOnly == {p \in Payers : payPc[p] = "inserted"}
Readers == {p \in Payers : payPc[p] = "read"}

\* What the payments of some payers come to.
Weighs(w) ==
    /\ w \in [SUBSET Payers -> Nat] /\ w[{}] = 0
    /\ \A s \in SUBSET Payers : \A p \in Payers \ s : w[s \cup {p}] = w[s] + amount[p]

\* The rows cover what the invoice claims or is about to claim, and the payments
\* that have not read it yet; exactly, if nothing was dropped and nobody read
\* what another was about to replace.
Covered(w) ==
    /\ amountPaid + w[InsertedOnly] <= received
    /\ \A p \in Readers : paidSeen[p] + amount[p] + w[InsertedOnly] <= received
Exact(w) ==
    ~dropped /\ ~overlapped =>
        /\ Readers = {} => amountPaid + w[InsertedOnly] = received
        /\ \A p \in Readers : /\ Readers = {p} /\ paidSeen[p] = amountPaid
                              /\ amountPaid + amount[p] + w[InsertedOnly] = received

DueIsRight ==
    /\ amountDue = IF amountPaid >= InvoiceTotal THEN 0 ELSE InvoiceTotal - amountPaid
    /\ status = "PAID" /\ ~byHand => amountPaid >= InvoiceTotal
    /\ status = "PARTIAL" /\ ~byHand => amountPaid < InvoiceTotal

BooksInv == PayTypes /\ DueIsRight /\ \E w : Weighs(w) /\ Covered(w) /\ Exact(w)

LEMMA BooksInvSays == BooksInv => BooksBalance
<1> SUFFICES ASSUME BooksInv PROVE BooksBalance
  OBVIOUS
<1>1. PICK w : Weighs(w) /\ Covered(w) /\ Exact(w)
  BY DEF BooksInv
<1>2. InsertedOnly \in SUBSET Payers /\ w[InsertedOnly] \in Nat
  BY <1>1 DEF Weighs, InsertedOnly
<1>3. amountPaid <= received
  BY <1>1, <1>2 DEF Covered, BooksInv, PayTypes
<1>4. Settled /\ ~dropped /\ ~overlapped => amountPaid = received
  <2> SUFFICES ASSUME Settled, ~dropped, ~overlapped PROVE amountPaid = received
    OBVIOUS
  <2>1. InsertedOnly = {} /\ Readers = {}
    BY DEF Settled, InsertedOnly, Readers
  <2> QED BY <1>1, <2>1 DEF Weighs, Exact, BooksInv, PayTypes
<1> QED BY <1>3, <1>4 DEF BooksInv, DueIsRight, BooksBalance

\* One payer goes on from one step to the next.
LEMMA PayerMoves ==
    ASSUME PayTypes, NEW p \in Payers, NEW at \in {"idle", "inserted", "read"}, payPc' = [payPc EXCEPT ![p] = at]
    PROVE  /\ payPc' \in [Payers -> {"idle", "inserted", "read"}]
           /\ InsertedOnly' = IF at = "inserted" THEN InsertedOnly \cup {p} ELSE InsertedOnly \ {p}
           /\ Readers' = IF at = "read" THEN Readers \cup {p} ELSE Readers \ {p}
<1>1. payPc' \in [Payers -> {"idle", "inserted", "read"}] /\ payPc'[p] = at /\ \A q \in Payers \ {p} : payPc'[q] = payPc[q]
  BY DEF PayTypes
<1> QED BY <1>1 DEF InsertedOnly, Readers

\* A payment more, or one less.
LEMMA Lighter ==
    ASSUME NEW w, Weighs(w), amount \in [Payers -> Nat], NEW s \in SUBSET Payers, NEW p \in Payers
    PROVE  /\ w[s] \in Nat /\ w[s \ {p}] \in Nat
           /\ p \in s => w[s] = w[s \ {p}] + amount[p]
           /\ p \notin s => w[s \ {p}] = w[s]
<1>1. s \ {p} \in SUBSET Payers /\ w[s] \in Nat /\ w[s \ {p}] \in Nat
  BY DEF Weighs
<1>2. ASSUME p \in s PROVE w[s] = w[s \ {p}] + amount[p]
  <2>1. (s \ {p}) \cup {p} = s /\ p \in Payers \ (s \ {p})
    BY <1>2
  <2>2. w[(s \ {p}) \cup {p}] = w[s \ {p}] + amount[p]
    BY <1>1, <2>1 DEF Weighs
  <2> QED BY <2>1, <2>2
<1>3. ASSUME p \notin s PROVE w[s \ {p}] = w[s]
  <2>1. s \ {p} = s
    BY <1>3
  <2> QED BY <2>1
<1> QED BY <1>1, <1>2, <1>3

LEMMA BooksStep == BooksInv /\ [BillNext]_billVars => BooksInv'
<1> USE BillingAssumption
<1> SUFFICES ASSUME BooksInv, [BillNext]_billVars PROVE BooksInv'
  OBVIOUS
<1>t. /\ amountPaid \in Nat /\ received \in Nat /\ status \in InvoiceStatus /\ byHand \in BOOLEAN
      /\ payPc \in [Payers -> {"idle", "inserted", "read"}] /\ amount \in [Payers -> Amounts \cup {0}]
      /\ paidSeen \in [Payers -> Nat] /\ dropped \in BOOLEAN /\ overlapped \in BOOLEAN
      /\ PayTypes /\ DueIsRight
  BY DEF BooksInv, PayTypes
<1>a. amount \in [Payers -> Nat]
  <2>1. Amounts \cup {0} \subseteq Nat
    OBVIOUS
  <2> QED BY <2>1, <1>t
<1>w. PICK w : Weighs(w) /\ Covered(w) /\ Exact(w)
  BY DEF BooksInv
<1>n. /\ InsertedOnly \in SUBSET Payers /\ w[InsertedOnly] \in Nat /\ Readers \in SUBSET Payers
      /\ \A p \in Payers : paidSeen[p] \in Nat /\ amount[p] \in Nat
  BY <1>w, <1>t, <1>a DEF Weighs, InsertedOnly, Readers
<1>c. /\ amountPaid + w[InsertedOnly] <= received
      /\ \A p \in Readers : paidSeen[p] + amount[p] + w[InsertedOnly] <= received
  BY <1>w DEF Covered
<1>e. ASSUME ~dropped, ~overlapped
      PROVE  /\ Readers = {} => amountPaid + w[InsertedOnly] = received
             /\ \A p \in Readers : /\ Readers = {p} /\ paidSeen[p] = amountPaid
                                   /\ amountPaid + amount[p] + w[InsertedOnly] = received
  BY <1>w, <1>e DEF Exact
<1>1. ASSUME NEW p \in Payers, NEW n \in Amounts, InsertPayment(p, n) PROVE BooksInv'
  <2>1. /\ payPc[p] = "idle" /\ received' = received + n /\ payPc' = [payPc EXCEPT ![p] = "inserted"]
        /\ amount' = [amount EXCEPT ![p] = n] /\ n \in Nat
        /\ UNCHANGED <<amountPaid, amountDue, status, byHand, paidSeen, dropped, overlapped>>
    BY <1>1 DEF InsertPayment
  <2>2. /\ payPc' \in [Payers -> {"idle", "inserted", "read"}]
        /\ InsertedOnly' = InsertedOnly \cup {p} /\ Readers' = Readers \ {p}
    BY <2>1, <1>t, PayerMoves
  <2>3. p \notin Readers /\ p \notin InsertedOnly
    BY <2>1 DEF Readers, InsertedOnly
  <2>4. /\ amount' \in [Payers -> Amounts \cup {0}] /\ amount'[p] = n /\ \A q \in Payers \ {p} : amount'[q] = amount[q]
    BY <2>1, <1>t
  <2>5. PayTypes' /\ DueIsRight'
    BY <2>1, <2>2, <2>4, <1>t DEF PayTypes, DueIsRight
  <2> DEFINE v == [s \in SUBSET Payers |-> IF p \in s THEN w[s \ {p}] + n ELSE w[s]]
  <2>6. Weighs(v)'
    <3>1. v \in [SUBSET Payers -> Nat] /\ v[{}] = 0
      BY <1>w, <2>1 DEF Weighs
    <3>2. ASSUME NEW s \in SUBSET Payers, NEW q \in Payers \ s PROVE v[s \cup {q}] = v[s] + amount'[q]
      <4>1. s \cup {q} \in SUBSET Payers /\ s \ {p} \in SUBSET Payers
        OBVIOUS
      <4>2. CASE q = p
        <5>1. (s \cup {q}) \ {p} = s
          BY <4>2, <3>2
        <5>2. v[s \cup {q}] = w[s] + n /\ v[s] = w[s]
          BY <4>1, <4>2, <5>1, <3>2
        <5> QED BY <5>2, <4>2, <2>4
      <4>3. CASE q # p /\ p \in s
        <5>1. (s \cup {q}) \ {p} = (s \ {p}) \cup {q} /\ q \in Payers \ (s \ {p})
          BY <4>3, <3>2
        <5>2. v[s \cup {q}] = w[(s \ {p}) \cup {q}] + n /\ v[s] = w[s \ {p}] + n
          BY <4>1, <4>3, <5>1
        <5>3. w[(s \ {p}) \cup {q}] = w[s \ {p}] + amount[q] /\ w[s \ {p}] \in Nat
          BY <4>1, <5>1, <1>w DEF Weighs
        <5>4. amount'[q] = amount[q] /\ amount[q] \in Nat
          BY <4>3, <2>4, <1>n
        <5> QED BY <5>2, <5>3, <5>4, <2>1
      <4>4. CASE q # p /\ p \notin s
        <5>1. v[s \cup {q}] = w[s \cup {q}] /\ v[s] = w[s]
          BY <4>1, <4>4
        <5>2. w[s \cup {q}] = w[s] + amount[q]
          BY <1>w DEF Weighs
        <5> QED BY <5>1, <5>2, <4>4, <2>4
      <4> QED BY <4>2, <4>3, <4>4
    <3> HIDE DEF v
    <3> QED BY <3>1, <3>2 DEF Weighs
  <2>7. v[InsertedOnly'] = w[InsertedOnly] + n
    <3>1. (InsertedOnly \cup {p}) \ {p} = InsertedOnly /\ InsertedOnly \cup {p} \in SUBSET Payers
      BY <2>3, <1>n
    <3> QED BY <3>1, <2>2
  <2> HIDE DEF v
  <2>8. Readers' = Readers /\ \A q \in Readers : paidSeen'[q] = paidSeen[q] /\ amount'[q] = amount[q] /\ q \in Payers
    BY <2>1, <2>2, <2>3, <2>4, <1>n
  <2>9. amountPaid' = amountPaid /\ received' = received + n /\ dropped' = dropped /\ overlapped' = overlapped
    BY <2>1
  <2>10. Covered(v)'
    BY <2>1, <2>7, <2>8, <2>9, <1>c, <1>n, <1>t DEF Covered
  <2>11. Exact(v)'
    BY <2>1, <2>7, <2>8, <2>9, <1>e, <1>n, <1>t DEF Exact
  <2> QED BY <2>5, <2>6, <2>10, <2>11 DEF BooksInv
\* The amounts stay, so do their weights.
<1>k. ASSUME UNCHANGED amount, PayTypes', DueIsRight', Covered(w)', Exact(w)' PROVE BooksInv'
  <2>1. Weighs(w)'
    BY <1>k, <1>w DEF Weighs
  <2> QED BY <1>k, <2>1 DEF BooksInv
<1>2. ASSUME NEW p \in Payers, ReadInvoice(p) PROVE BooksInv'
  <2>1. /\ payPc[p] = "inserted" /\ paidSeen' = [paidSeen EXCEPT ![p] = amountPaid] /\ payPc' = [payPc EXCEPT ![p] = "read"]
        /\ overlapped' = (overlapped \/ \E q \in Payers : payPc[q] = "read")
        /\ UNCHANGED <<amountPaid, amountDue, status, received, byHand, amount, dropped>>
    BY <1>2 DEF ReadInvoice, invoiceVars
  <2>2. /\ payPc' \in [Payers -> {"idle", "inserted", "read"}]
        /\ InsertedOnly' = InsertedOnly \ {p} /\ Readers' = Readers \cup {p}
    BY <2>1, <1>t, PayerMoves
  <2>3. p \in InsertedOnly /\ overlapped' = (overlapped \/ Readers # {})
    BY <2>1 DEF Readers, InsertedOnly
  <2>4. w[InsertedOnly'] \in Nat /\ w[InsertedOnly] = w[InsertedOnly'] + amount[p]
    BY <2>2, <2>3, <1>n, <1>a, <1>w, Lighter
  <2>5. paidSeen' \in [Payers -> Nat] /\ paidSeen'[p] = amountPaid /\ \A q \in Payers \ {p} : paidSeen'[q] = paidSeen[q]
    BY <2>1, <1>t
  <2>6. PayTypes' /\ DueIsRight'
    BY <2>1, <2>2, <2>5, <1>t DEF PayTypes, DueIsRight
  <2>7. p \notin Readers /\ \A q \in Readers : paidSeen'[q] = paidSeen[q]
    BY <2>1, <2>5, <1>n DEF Readers
  <2>8. Covered(w)'
    <3>1. amountPaid' + w[InsertedOnly'] <= received'
      BY <2>1, <2>4, <1>c, <1>n, <1>t
    <3>2. ASSUME NEW q \in Readers' PROVE paidSeen'[q] + amount'[q] + w[InsertedOnly'] <= received'
      <4>1. CASE q = p
        BY <4>1, <2>1, <2>4, <2>5, <1>c, <1>n, <1>t
      <4>2. CASE q # p
        <5>1. q \in Readers /\ paidSeen'[q] = paidSeen[q] /\ amount'[q] = amount[q] /\ received' = received
          BY <4>2, <2>1, <2>2, <2>7
        <5> QED BY <5>1, <2>4, <1>c, <1>n, <1>t
      <4> QED BY <4>1, <4>2
    <3> QED BY <3>1, <3>2 DEF Covered
  <2>9. Exact(w)'
    <3> SUFFICES ASSUME ~dropped', ~overlapped'
                 PROVE  /\ Readers' = {} => amountPaid' + w[InsertedOnly'] = received'
                        /\ \A q \in Readers' : /\ Readers' = {q} /\ paidSeen'[q] = amountPaid'
                                               /\ amountPaid' + amount'[q] + w[InsertedOnly'] = received'
      BY DEF Exact
    <3>1. Readers = {} /\ Readers' = {p} /\ amountPaid + w[InsertedOnly] = received
      BY <2>1, <2>2, <2>3, <1>e
    <3> QED BY <3>1, <2>1, <2>4, <2>5, <1>n, <1>t
  <2> QED BY <2>1, <2>6, <2>8, <2>9, <1>k
<1>3. ASSUME NEW p \in Payers, Post(p) PROVE BooksInv'
  <2> DEFINE sum == paidSeen[p] + amount[p]
             due == IF sum >= InvoiceTotal THEN 0 ELSE InvoiceTotal - sum
  <2>1. /\ payPc[p] = "read" /\ amountPaid' = sum /\ amountDue' = due /\ status' = (IF due = 0 THEN "PAID" ELSE "PARTIAL")
        /\ byHand' = FALSE /\ payPc' = [payPc EXCEPT ![p] = "idle"]
        /\ UNCHANGED <<received, amount, paidSeen, dropped, overlapped>>
    BY <1>3 DEF Post
  <2>2. /\ payPc' \in [Payers -> {"idle", "inserted", "read"}]
        /\ InsertedOnly' = InsertedOnly \ {p} /\ Readers' = Readers \ {p}
    BY <2>1, <1>t, PayerMoves
  <2>3. p \in Readers /\ p \notin InsertedOnly
    BY <2>1 DEF Readers, InsertedOnly
  <2>4. InsertedOnly' = InsertedOnly
    BY <2>2, <2>3
  <2>5. sum \in Nat
    BY <1>n
  <2>6. PayTypes'
    BY <2>1, <2>2, <2>5, <1>t DEF PayTypes, InvoiceStatus
  <2>7. DueIsRight'
    <3>1. /\ sum >= InvoiceTotal => due = 0 /\ status' = "PAID"
          /\ ~(sum >= InvoiceTotal) => due = InvoiceTotal - sum /\ due # 0 /\ status' = "PARTIAL" /\ sum < InvoiceTotal
      BY <2>1, <2>5
    <3> HIDE DEF sum, due
    <3> QED BY <3>1, <2>1 DEF DueIsRight
  <2>8. Covered(w)'
    BY <2>1, <2>2, <2>3, <2>4, <1>c, <1>n, <1>t DEF Covered
  <2>9. Exact(w)'
    <3> SUFFICES ASSUME ~dropped', ~overlapped'
                 PROVE  /\ Readers' = {} => amountPaid' + w[InsertedOnly'] = received'
                        /\ \A q \in Readers' : /\ Readers' = {q} /\ paidSeen'[q] = amountPaid'
                                               /\ amountPaid' + amount'[q] + w[InsertedOnly'] = received'
      BY DEF Exact
    <3>1. Readers = {p} /\ paidSeen[p] = amountPaid /\ amountPaid + amount[p] + w[InsertedOnly] = received
      BY <2>1, <2>3, <1>e
    <3> QED BY <3>1, <2>1, <2>2, <2>4
  <2> QED BY <2>1, <2>6, <2>7, <2>8, <2>9, <1>k
<1>4. ASSUME NEW p \in Payers, PayerFails(p) PROVE BooksInv'
  <2>1. /\ dropped' = TRUE /\ payPc' = [payPc EXCEPT ![p] = "idle"]
        /\ UNCHANGED <<amountPaid, amountDue, status, received, byHand, amount, paidSeen, overlapped>>
    BY <1>4 DEF PayerFails, invoiceVars
  <2>2. /\ payPc' \in [Payers -> {"idle", "inserted", "read"}]
        /\ InsertedOnly' = InsertedOnly \ {p} /\ Readers' = Readers \ {p}
    BY <2>1, <1>t, PayerMoves
  <2>3. w[InsertedOnly'] \in Nat /\ w[InsertedOnly'] <= w[InsertedOnly]
    <3>1. /\ w[InsertedOnly \ {p}] \in Nat
          /\ p \in InsertedOnly => w[InsertedOnly] = w[InsertedOnly \ {p}] + amount[p]
          /\ p \notin InsertedOnly => w[InsertedOnly \ {p}] = w[InsertedOnly]
      BY <1>n, <1>a, <1>w, Lighter
    <3> QED BY <3>1, <2>2, <1>n
  <2>4. PayTypes' /\ DueIsRight' /\ Exact(w)'
    BY <2>1, <2>2, <1>t DEF PayTypes, DueIsRight, Exact
  <2>5. Covered(w)'
    <3>1. amountPaid' + w[InsertedOnly'] <= received'
      BY <2>1, <2>3, <1>c, <1>n, <1>t
    <3>2. ASSUME NEW q \in Readers' PROVE paidSeen'[q] + amount'[q] + w[InsertedOnly'] <= received'
      <4>1. paidSeen[q] + amount[q] + w[InsertedOnly] <= received /\ paidSeen[q] \in Nat /\ amount[q] \in Nat
        BY <2>2, <1>c, <1>n
      <4> QED BY <4>1, <2>1, <2>3, <1>n, <1>t
    <3> QED BY <3>1, <3>2 DEF Covered
  <2> QED BY <2>1, <2>4, <2>5, <1>k
<1>5. ASSUME NEW s \in InvoiceStatus, SetStatus(s) PROVE BooksInv'
  <2>1. /\ status' = s /\ byHand' = TRUE /\ UNCHANGED <<amountPaid, amountDue, received, payPc, amount, paidSeen, dropped, overlapped>>
    BY <1>5 DEF SetStatus, payVars
  <2>2. InsertedOnly' = InsertedOnly /\ Readers' = Readers
    BY <2>1 DEF InsertedOnly, Readers
  <2> QED BY <2>1, <2>2, <1>t, <1>w, <1>k DEF PayTypes, DueIsRight, Covered, Exact
<1>6. ASSUME UNCHANGED <<invoiceVars, payVars>> PROVE BooksInv'
  <2>1. UNCHANGED <<amountPaid, amountDue, status, received, byHand, payPc, amount, paidSeen, dropped, overlapped>>
    BY <1>6 DEF invoiceVars, payVars
  <2>2. InsertedOnly' = InsertedOnly /\ Readers' = Readers
    BY <2>1 DEF InsertedOnly, Readers
  <2> QED BY <2>1, <2>2, <1>t, <1>w, <1>k DEF PayTypes, DueIsRight, Covered, Exact
<1>7. CASE Numbering
  BY <1>6, <1>7 DEF Numbering, TakeNumber, TakeNumberForQuotation, MakeInvoice, MakerFails
<1>8. CASE UNCHANGED billVars
  BY <1>6, <1>8 DEF billVars
<1> QED BY <1>1, <1>2, <1>3, <1>4, <1>5, <1>7, <1>8 DEF BillNext, Paying

LEMMA BooksInitially == BillInit => BooksInv
<1> USE BillingAssumption
<1> SUFFICES ASSUME BillInit PROVE BooksInv
  OBVIOUS
<1>1. PayTypes /\ DueIsRight
  <2>1. PayTypes
    BY DEF BillInit, PayTypes, InvoiceStatus
  <2>2. amountDue = IF amountPaid >= InvoiceTotal THEN 0 ELSE InvoiceTotal - amountPaid
    BY DEF BillInit
  <2> QED BY <2>1, <2>2 DEF BillInit, DueIsRight
<1> DEFINE w == [s \in SUBSET Payers |-> 0]
<1>2. InsertedOnly = {} /\ Readers = {} /\ \A p \in Payers : amount[p] = 0
  BY DEF BillInit, InsertedOnly, Readers
<1>3. Weighs(w)
  BY <1>2 DEF Weighs
<1>4. Covered(w) /\ Exact(w)
  BY <1>2 DEF BillInit, Covered, Exact
<1> QED BY <1>1, <1>3, <1>4 DEF BooksInv

\* However many calls make invoices and record payments at once, the numbers are
\* nobody else's, and the invoice claims what was paid: never more, and all of it
\* unless a call ended before its write or two had the invoice read at once.
THEOREM BooksAreKept == BillSpec => []InvoicesAddUp
<1>1. BillInit => NumberInv /\ BooksInv
  BY BooksInitially DEF BillInit, NumberInv, NumbersAreFree
<1>2. NumberInv /\ BooksInv => InvoicesAddUp
  BY BooksInvSays DEF NumberInv, InvoicesAddUp
<1> QED BY <1>1, <1>2, NumberStep, BooksStep, PTL DEF BillSpec

=============================================================================
