------------------------------ MODULE MediaJobs ------------------------------
(***************************************************************************)
(* One picture or one video asked of the AI vendors in their order: a      *)
(* picture comes with the reply, a video is a job at the vendor that is    *)
(* asked about every ten seconds until a deadline. A vendor bills what it  *)
(* has made, also when the reply is lost or nobody waits any more. A job   *)
(* whose run is cut short is run again from nothing, into a new file. What *)
(* becomes of the draft is in ContentGeneration.                           *)
(***************************************************************************)
EXTENDS Naturals

CONSTANTS
    VideoModels,    \* how many models can make a video: Veo, Sora
    ImageModels,    \* how many draw: Gemini, Imagen, the one of OpenAI
    MaxSleeps,      \* sleeps of ten seconds before maxWaitMs is over
    MaxAttempts     \* bound on the runs of a job

ASSUME MediaAssumption ==
    VideoModels \in Nat /\ ImageModels \in Nat /\ MaxSleeps \in Nat /\ MaxAttempts \in Nat \ {0}

VARIABLES
    medium,     \* what is asked for
    asking,     \* where the request is
    model,      \* the model being asked
    jobs,       \* each model's work, at the vendor
    lastSeen,       \* its status as it was read last
    sleeps,     \* waits for it so far
    given,      \* why each model was given up
    disk,       \* the file at the destination, or the picture: which model's, and whether all of it
    attempt,    \* the run of the job
    past        \* history: what the runs that were cut short had paid for, and left on the disk

askingVars == <<asking, model, jobs, lastSeen, sleeps, given, disk>>
jobOfMediaVars == <<medium, attempt, past>>
mediaVars == <<askingVars, jobOfMediaVars>>

Models == IF medium = "video" THEN 1..VideoModels ELSE 1..ImageModels
AllModels == 1..(VideoModels + ImageModels)
NoFile == [of |-> 0, whole |-> FALSE]
InWork == {"submit", "wait", "fetch", "store"}
MediaFiles == [of : {0} \cup AllModels, whole : BOOLEAN]

\* A request begins at the first model, also where there is none.
MediaTypeOK ==
    /\ medium \in {"image", "video"}
    /\ asking \in InWork \cup {"new", "made", "failed", "none", "kept", "over"}
    /\ model \in {1} \cup AllModels /\ (asking \in InWork => model \in Models)
    /\ jobs \in [AllModels -> {"none", "running", "ready", "rejected"}]
    /\ lastSeen \in {"running", "ready", "rejected"} /\ sleeps \in 0..MaxSleeps
    /\ given \in [AllModels -> {"none", "unmade", "timeout", "lost"}]
    /\ disk \in MediaFiles
    /\ attempt \in 1..MaxAttempts
    /\ past \subseteq [wasted : SUBSET AllModels, left : MediaFiles]

MediaInit ==
    /\ medium \in {"image", "video"} /\ asking = "new" /\ model = 1
    /\ jobs = [m \in AllModels |-> "none"] /\ lastSeen = "running" /\ sleeps = 0
    /\ given = [m \in AllModels |-> "none"] /\ disk = NoFile
    /\ attempt = 1 /\ past = {}

AskMedia ==
    /\ asking = "new"
    /\ asking' = IF Models = {} THEN "none" ELSE "submit"
    /\ UNCHANGED <<model, jobs, lastSeen, sleeps, given, disk, jobOfMediaVars>>

\* On to the next model, if there is one.
GiveUp(why) ==
    /\ given' = [given EXCEPT ![model] = why]
    /\ IF model + 1 \in Models THEN asking' = "submit" /\ model' = model + 1 ELSE asking' = "failed" /\ UNCHANGED model

\* History: the deadline excuses only what was not over when it was looked at last.
TooLate == IF lastSeen = "running" THEN "timeout" ELSE "unmade"

\* The vendor refuses or fails; or it takes the job, and its reply may be lost.
SubmitJob(taken, lost) ==
    /\ asking = "submit" /\ medium = "video"
    /\ jobs' = IF taken THEN [jobs EXCEPT ![model] = "running"] ELSE jobs
    /\ IF taken /\ ~lost THEN asking' = "wait" /\ UNCHANGED <<model, given>> ELSE GiveUp(IF lost THEN "lost" ELSE "unmade")
    /\ lastSeen' = "running" /\ sleeps' = 0
    /\ UNCHANGED <<disk, jobOfMediaVars>>

\* Any time, whether somebody waits for it or not.
VendorEnds(m, how) ==
    /\ jobs[m] = "running"
    /\ jobs' = [jobs EXCEPT ![m] = how]
    /\ UNCHANGED <<asking, model, lastSeen, sleeps, given, disk, jobOfMediaVars>>

\* Mutant: the deadline is looked at after the wait, whatever has come of it.
Wait_DeadlineFirst(lost) ==
    /\ asking = "wait"
    /\ IF sleeps = MaxSleeps THEN GiveUp(TooLate) /\ UNCHANGED <<lastSeen, sleeps>>
       ELSE IF lastSeen = "running" THEN
            /\ sleeps' = sleeps + 1
            /\ IF lost THEN GiveUp("lost") /\ UNCHANGED lastSeen ELSE lastSeen' = jobs[model] /\ UNCHANGED <<asking, model, given>>
       ELSE /\ IF lastSeen = "ready" THEN asking' = "fetch" /\ UNCHANGED <<model, given>> ELSE GiveUp("unmade")
            /\ UNCHANGED <<lastSeen, sleeps>>
    /\ UNCHANGED <<jobs, disk, jobOfMediaVars>>

\* The deadline is looked at before each sleep; a job that is over by the end of
\* the last one is still taken.
Wait(lost) ==
    /\ asking = "wait"
    /\ IF lastSeen # "running" THEN
            /\ IF lastSeen = "ready" THEN asking' = "fetch" /\ UNCHANGED <<model, given>> ELSE GiveUp("unmade")
            /\ UNCHANGED <<lastSeen, sleeps>>
       ELSE IF sleeps = MaxSleeps THEN GiveUp(TooLate) /\ UNCHANGED <<lastSeen, sleeps>>
       ELSE /\ sleeps' = sleeps + 1
            /\ IF lost THEN GiveUp("lost") /\ UNCHANGED lastSeen ELSE lastSeen' = jobs[model] /\ UNCHANGED <<asking, model, given>>
    /\ UNCHANGED <<jobs, disk, jobOfMediaVars>>

\* A download that fails may leave a part of the file at the destination.
Fetch(lost) ==
    /\ asking = "fetch"
    /\ IF lost THEN GiveUp("lost") /\ disk' \in {disk, [of |-> model, whole |-> FALSE]}
       ELSE asking' = "made" /\ disk' = [of |-> model, whole |-> TRUE] /\ UNCHANGED <<model, given>>
    /\ UNCHANGED <<jobs, lastSeen, sleeps, jobOfMediaVars>>

\* The bytes come with the reply, and are then stored.
Draw(drawn, lost) ==
    /\ asking = "submit" /\ medium = "image"
    /\ jobs' = IF drawn THEN [jobs EXCEPT ![model] = "ready"] ELSE jobs
    /\ IF drawn /\ ~lost THEN asking' = "store" /\ UNCHANGED <<model, given>> ELSE GiveUp(IF lost THEN "lost" ELSE "unmade")
    /\ UNCHANGED <<lastSeen, sleeps, disk, jobOfMediaVars>>

StorePicture ==
    /\ asking = "store" /\ asking' = "made"
    /\ disk' = [of |-> model, whole |-> TRUE]
    /\ UNCHANGED <<model, jobs, lastSeen, sleeps, given, jobOfMediaVars>>

\* No model has made it: what there is at the destination is removed, and nobody
\* hears of it when that fails.
CleanUp(removed) ==
    /\ asking = "failed" /\ asking' = IF removed THEN "none" ELSE "kept"
    /\ disk' = IF removed THEN NoFile ELSE disk
    /\ UNCHANGED <<model, jobs, lastSeen, sleeps, given, jobOfMediaVars>>

\* What was ordered in this run and is used by nobody, for no fault of the vendor's.
Wasted == {m \in AllModels : jobs[m] \in {"running", "ready"} /\ given[m] = "none"}

\* The worker dies, or something throws: the stages before and after this one, the
\* folder, the picture that is to be stored. A job runs again if it has a run left;
\* what is on the disk stays there, the file that was being written in part.
RunEnds(died, again) ==
    /\ asking # "over" /\ (died \/ asking \in {"new", "store", "made", "none", "kept"})
    /\ again => attempt < MaxAttempts
    /\ \E left \in {disk} \cup (IF asking \in {"fetch", "store"} THEN {[of |-> model, whole |-> FALSE]} ELSE {}) :
        past' = past \cup {[wasted |-> Wasted, left |-> left]}
    /\ IF again THEN asking' = "new" /\ attempt' = attempt + 1 ELSE asking' = "over" /\ UNCHANGED attempt
    /\ model' = 1 /\ lastSeen' = "running" /\ sleeps' = 0 /\ disk' = NoFile
    /\ jobs' = [m \in AllModels |-> "none"] /\ given' = [m \in AllModels |-> "none"]
    /\ UNCHANGED medium

MediaNext ==
    \/ AskMedia \/ StorePicture
    \/ \E done, lost \in BOOLEAN : SubmitJob(done, lost) \/ Draw(done, lost)
    \/ \E died, again \in BOOLEAN : RunEnds(died, again)
    \/ \E lost \in BOOLEAN : Wait(lost) \/ Fetch(lost)
    \/ \E removed \in BOOLEAN : CleanUp(removed)
    \/ \E m \in AllModels, how \in {"ready", "rejected"} : VendorEnds(m, how)

MediaSpec == MediaInit /\ [][MediaNext]_mediaVars

-----------------------------------------------------------------------------
(* Properties *)

\* What a vendor made and bills is what the draft gets, unless a reply was lost,
\* the job was not over by the deadline or the run was cut short; at most one
\* model's is used, a file that is not whole is one whose download broke off, and
\* it stays only where it could not be removed. A run that was cut short wastes the
\* work of one model at most, and a whole film or picture it leaves is that work.
PaidMediaIsUsed ==
    /\ \A m \in AllModels : jobs[m] = "ready" =>
        \/ disk = [of |-> m, whole |-> TRUE]
        \/ m = model /\ asking \in {"wait", "fetch", "store"}
        \/ given[m] \in {"timeout", "lost"}
    /\ asking = "made" => disk.whole /\ jobs[disk.of] = "ready"
    /\ disk # NoFile /\ asking \notin InWork \cup {"failed"} => asking \in {"made", "kept"}
    /\ disk.of # 0 /\ ~disk.whole => given[disk.of] = "lost"
    /\ \A p \in past : /\ \A m, n \in p.wasted : m = n
                       /\ p.left.whole => p.left.of \in p.wasted
=============================================================================
