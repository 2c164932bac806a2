----------------------------- MODULE Companions -----------------------------
(***************************************************************************)
(* A gallery handed to the companion services: app/argus_analyze.py,       *)
(* app/argus_writeback.py, app/plutus_recommend.py, the hook of            *)
(* app/platekit.py and the callbacks of app/service_api.py.                *)
(* A job posts the gallery to Argus and records the answer; Argus calls    *)
(* back when its run is over, perhaps before the answer is recorded, and   *)
(* perhaps twice; each run that is done is written back to the photos and  *)
(* handed on.                                                              *)
(***************************************************************************)
EXTENDS Naturals, FiniteSets

CONSTANTS
  Analyses,        \* argus_analyze_gallery rows of the jobs table
  Runs,            \* runs of Argus, 1..n in the order it accepts them
  CallbackThreads, \* threads serving Argus's callback
  MaxReplies       \* bound: how often Argus tells of a run

ASSUME CompanionsAssumption == Runs \subseteq Nat \ {0} /\ IsFiniteSet(Runs) /\ MaxReplies \in Nat

VARIABLES
  online,     \* galleries.published
  argusRow,   \* argus_last_*: [status, run]; the run stands for its job's id too
  analysis,   \* each job: its place, and the answer it holds
  argusRun,   \* at Argus: [state, told]
  caller,     \* each callback: its place, its run and what it says
  writeBack,  \* argus_writeback_gallery: the job of each run
  scoreOf,    \* the run the scores of each of two photos come from, 0 for none
  heroesOf,   \* the run argus_hero_asset_ids and argus_analyzed_count come from
  plutusJob,  \* plutus_recommend_gallery: its place
  plutusRow,  \* plutus_last_status
  packRow,    \* platekit_last_*: the run
  \* history
  early,      \* runs told of before the answer that announced them was recorded
  answered,   \* runs told of
  orphaned,    \* runs whose followers a kill took along
  mixed       \* write-backs that overlapped, or were cut off

handOffs == <<argusRow, plutusRow, packRow>>
results    == <<writeBack, scoreOf, heroesOf>>
history    == <<early, answered, orphaned, mixed>>

companionVars == <<online, analysis, argusRun, caller, plutusJob, handOffs, results, history>>

AtRest     == [at |-> "idle", says |-> "none", run |-> 0]
NothingYet == [status |-> "", run |-> 0]

CompanionsInit ==
  /\ online = FALSE /\ argusRow = NothingYet
  /\ analysis = [j \in Analyses |-> AtRest]
  /\ argusRun = [r \in Runs |-> [state |-> "none", told |-> 0]]
  /\ caller = [c \in CallbackThreads |-> AtRest]
  /\ writeBack = [r \in Runs |-> "none"] /\ scoreOf = <<0, 0>> /\ heroesOf = 0
  /\ plutusJob = "none" /\ plutusRow = "" /\ packRow = 0
  /\ early = {} /\ answered = {} /\ orphaned = {} /\ mixed = {}

-----------------------------------------------------------------------------
(* The hand-off *)

\* update_gallery: a gallery that goes live is analyzed.
GoLive(j) ==
  /\ ~online /\ online' = TRUE
  /\ analysis[j].at = "idle" /\ analysis' = [analysis EXCEPT ![j].at = "post"]
  /\ UNCHANGED <<argusRun, caller, plutusJob, handOffs, results, history>>

GoDark ==
  /\ online /\ online' = FALSE
  /\ UNCHANGED <<analysis, argusRun, caller, plutusJob, handOffs, results, history>>

\* argus_analyze_now, and update_gallery when media_count_changed.
AnalyzeAgain(j) ==
  /\ online /\ analysis[j].at = "idle" /\ analysis' = [analysis EXCEPT ![j].at = "post"]
  /\ UNCHANGED <<online, argusRun, caller, plutusJob, handOffs, results, history>>

Holds(j, says, r) == analysis' = [analysis EXCEPT ![j] = [at |-> "record", says |-> says, run |-> r]]
NextRun == Cardinality({r \in Runs : argusRun[r].state # "none"}) + 1

\* trigger_gallery_analyze: refused, unreachable, or a gallery no longer live.
PostFails(j) ==
  /\ analysis[j].at = "post" /\ Holds(j, "error", 0)
  /\ UNCHANGED <<online, argusRun, caller, plutusJob, handOffs, results, history>>

\* Accepted: queued, or done at once, or with the reply lost on its way.
PostAccepted(j) ==
  /\ analysis[j].at = "post" /\ online /\ NextRun \in Runs
  /\ \E says \in {"queued", "done", "error"} :
       /\ Holds(j, says, IF says = "error" THEN 0 ELSE NextRun)
       /\ argusRun' = [argusRun EXCEPT ![NextRun] =
            [state |-> IF says = "done" THEN "done" ELSE "running", told |-> 0]]
  /\ UNCHANGED <<online, caller, plutusJob, handOffs, results, history>>

\* run_for_gallery records what it was answered, over what may have come since.
RecordAnswer(j) ==
  LET a == analysis[j] IN
  /\ a.at = "record"
  /\ argusRow' = [status |-> a.says, run |-> a.run]
  /\ analysis' = [analysis EXCEPT ![j] = IF a.says = "done" THEN [a EXCEPT !.at = "enqueue"] ELSE AtRest]
  /\ answered' = IF a.says = "done" THEN answered \cup {a.run} ELSE answered
  /\ UNCHANGED <<online, argusRun, caller, plutusRow, packRow, results, plutusJob, early, orphaned, mixed>>

\* _enqueue_writeback: a job for every run, whatever else is being written.
RequestedMut(r) == {q \in Runs : q = r /\ \A p \in Runs : writeBack[p] \in {"none", "done", "lost"}}
Requested(r)    == {r}

\* And the job for Plutus.
Follow(r) ==
  /\ writeBack' = [q \in Runs |-> IF q \in Requested(r) /\ writeBack[q] \in {"none", "done", "lost"}
                                  THEN "queued" ELSE writeBack[q]]
  /\ plutusJob' = IF plutusJob = "none" THEN "queued" ELSE plutusJob
  /\ UNCHANGED <<scoreOf, heroesOf>>

AnalysisFollows(j) ==
  /\ analysis[j].at = "enqueue" /\ Follow(analysis[j].run)
  /\ analysis' = [analysis EXCEPT ![j] = AtRest]
  /\ UNCHANGED <<online, argusRun, caller, handOffs, history>>

-----------------------------------------------------------------------------
(* The callback *)

ArgusEnds(r) ==
  /\ argusRun[r].state = "running"
  /\ \E s \in {"done", "dead_letter"} : argusRun' = [argusRun EXCEPT ![r].state = s]
  /\ UNCHANGED <<online, analysis, caller, plutusJob, handOffs, results, history>>

\* argus_callback. Argus tells again if it was not answered; a dead letter that names
\* its run is taken for one that is done.
Delivers(c, r) ==
  /\ caller[c].at = "idle" /\ argusRun[r].state \in {"done", "dead_letter"}
  /\ argusRun[r].told < MaxReplies
  /\ argusRun' = [argusRun EXCEPT ![r].told = @ + 1]
  /\ \E says \in {"done", argusRun[r].state} :
       caller' = [caller EXCEPT ![c] = [at |-> "record", says |-> says, run |-> r]]
  /\ UNCHANGED <<online, analysis, plutusJob, handOffs, results, history>>

\* apply_callback
VerdictMut(says) == IF says = "done" THEN "done" ELSE "queued"
Verdict(says)    == IF says = "done" THEN "done" ELSE "error"

CallbackRecords(c) ==
  LET k == caller[c] IN
  /\ k.at = "record"
  /\ argusRow' = [status |-> Verdict(k.says), run |-> k.run]
  /\ answered' = answered \cup {k.run}
  /\ early' = early \cup {k.run : j \in {i \in Analyses : analysis[i].at = "record"}}
  /\ caller' = [caller EXCEPT ![c] = IF k.says = "done" THEN [k EXCEPT !.at = "hook"] ELSE AtRest]
  /\ UNCHANGED <<online, analysis, argusRun, plutusRow, packRow, results, plutusJob, orphaned, mixed>>

\* notify_argus_complete never raises; it records what Platekit said, or that it failed.
CallbackHooks(c) ==
  /\ caller[c].at = "hook"
  /\ packRow' = caller[c].run /\ caller' = [caller EXCEPT ![c].at = "enqueue"]
  /\ UNCHANGED <<online, analysis, argusRun, argusRow, plutusRow, results, plutusJob, history>>

CallbackFollows(c) ==
  /\ caller[c].at = "enqueue" /\ Follow(caller[c].run)
  /\ caller' = [caller EXCEPT ![c] = AtRest]
  /\ UNCHANGED <<online, analysis, argusRun, handOffs, history>>

-----------------------------------------------------------------------------
(* argus_writeback_gallery *)

Writing == {r \in Runs : writeBack[r] \in {"fetched", "half", "scored"}}

\* fetch_run_export; a failure is logged and is the end of it.
FetchExport(r) ==
  /\ writeBack[r] = "queued"
  /\ \/ writeBack' = [writeBack EXCEPT ![r] = "fetched"]
        /\ mixed' = IF Writing # {} THEN mixed \cup Writing \cup {r} ELSE mixed \ {r}
     \/ writeBack' = [writeBack EXCEPT ![r] = "lost"] /\ UNCHANGED mixed
  /\ UNCHANGED <<online, analysis, argusRun, caller, handOffs, scoreOf, heroesOf, plutusJob, early, answered, orphaned>>

\* The photos one by one, each whatever it held.
ScoredMut(r, n) == IF scoreOf[n] # 0 THEN scoreOf[n] ELSE r
Scored(r, n)    == r

WriteScore(r) ==
  LET n == IF writeBack[r] = "fetched" THEN 1 ELSE 2 IN
  /\ writeBack[r] \in {"fetched", "half"}
  /\ writeBack' = [writeBack EXCEPT ![r] = IF n = 1 THEN "half" ELSE "scored"]
  /\ scoreOf' = [scoreOf EXCEPT ![n] = Scored(r, n)]
  /\ UNCHANGED <<online, analysis, argusRun, caller, handOffs, heroesOf, plutusJob, history>>

\* Then the gallery. A write-back nothing cut across settles what others left mixed.
WriteHeroes(r) ==
  /\ writeBack[r] = "scored"
  /\ writeBack' = [writeBack EXCEPT ![r] = "done"] /\ heroesOf' = r
  /\ mixed' = IF r \in mixed THEN mixed ELSE {}
  /\ UNCHANGED <<online, analysis, argusRun, caller, handOffs, scoreOf, plutusJob, early, answered, orphaned>>

-----------------------------------------------------------------------------
(* plutus_recommend_gallery *)

\* plutus_recommend_now, and update_gallery when Argus is off.
Recommend ==
  /\ online /\ plutusJob = "none" /\ plutusJob' = "queued"
  /\ UNCHANGED <<online, analysis, argusRun, caller, handOffs, results, history>>

\* The answer, or what became of it.
PlutusPosts ==
  /\ plutusJob = "queued"
  /\ \E s \in IF online THEN {"done", "error"} ELSE {"error"} : plutusJob' = s
  /\ UNCHANGED <<online, analysis, argusRun, caller, handOffs, results, history>>

PlutusRecords ==
  /\ plutusJob \in {"done", "error"}
  /\ plutusRow' = plutusJob /\ plutusJob' = "none"
  /\ UNCHANGED <<online, analysis, argusRun, caller, argusRow, packRow, results, history>>

\* plutus_callback
PlutusTells ==
  /\ \E s \in {"done", "error"} : plutusRow' = s
  /\ UNCHANGED <<online, analysis, argusRun, caller, plutusJob, argusRow, packRow, results, history>>

-----------------------------------------------------------------------------
\* A kill and the start after it: the callbacks end, the jobs run again.
CompanionsKill ==
  LET busy  == {j \in Analyses : analysis[j].at # "idle"}
      calls == {c \in CallbackThreads : caller[c].at # "idle"} IN
  /\ busy # {} \/ calls # {} \/ Writing # {} \/ plutusJob \in {"done", "error"}
  /\ analysis' = [j \in Analyses |-> IF j \in busy THEN [AtRest EXCEPT !.at = "post"] ELSE AtRest]
  /\ orphaned' = orphaned \cup {caller[c].run : c \in calls} \cup ({analysis[j].run : j \in busy} \ {0})
  /\ caller' = [c \in CallbackThreads |-> AtRest]
  /\ writeBack' = [r \in Runs |-> IF r \in Writing THEN "queued" ELSE writeBack[r]]
  /\ mixed' = mixed \cup Writing
  /\ plutusJob' = IF plutusJob = "none" THEN plutusJob ELSE "queued"
  /\ UNCHANGED <<online, argusRun, handOffs, scoreOf, heroesOf, early, answered>>

CompanionsNext ==
  \/ \E j \in Analyses : \/ GoLive(j) \/ AnalyzeAgain(j) \/ PostFails(j) \/ PostAccepted(j)
                         \/ RecordAnswer(j) \/ AnalysisFollows(j)
  \/ GoDark \/ Recommend \/ PlutusPosts \/ PlutusRecords \/ PlutusTells
  \/ \E r \in Runs : ArgusEnds(r) \/ FetchExport(r) \/ WriteScore(r) \/ WriteHeroes(r)
  \/ \E c \in CallbackThreads : \/ CallbackRecords(c) \/ CallbackHooks(c) \/ CallbackFollows(c)
                                \/ \E r \in Runs : Delivers(c, r)
  \/ CompanionsKill

CompanionsSpec == CompanionsInit /\ [][CompanionsNext]_companionVars

-----------------------------------------------------------------------------
(* Properties *)

CompanionsTypeOK ==
  /\ online \in BOOLEAN
  /\ argusRow \in [status : {"", "queued", "done", "error"}, run : Runs \cup {0}]
  /\ analysis \in [Analyses -> [at : {"idle", "post", "record", "enqueue"},
                                says : {"none", "queued", "done", "error"}, run : Runs \cup {0}]]
  /\ argusRun \in [Runs -> [state : {"none", "running", "done", "dead_letter"}, told : 0..MaxReplies]]
  /\ caller \in [CallbackThreads -> [at : {"idle", "record", "hook", "enqueue"},
                                     says : {"none", "done", "dead_letter"}, run : Runs \cup {0}]]
  /\ writeBack \in [Runs -> {"none", "queued", "fetched", "half", "scored", "done", "lost"}]
  /\ scoreOf \in [1..2 -> Runs \cup {0}] /\ heroesOf \in Runs \cup {0} /\ packRow \in Runs \cup {0}
  /\ plutusJob \in {"none", "queued", "done", "error"} /\ plutusRow \in {"", "done", "error"}
  /\ early \subseteq Runs /\ answered \subseteq Runs /\ orphaned \subseteq Runs /\ mixed \subseteq Runs

\* A gallery does not go on saying that a run is queued which Argus has told the end
\* of, unless it told while the answer of a hand-off was still to be recorded
\* (app/argus_analyze.py:43-73, 214-230).
EndedRunIsNotQueued ==
  argusRow.status = "queued" /\ argusRow.run \in answered => argusRow.run \in early

\* Every run recorded as done is written back, also while another is being written,
\* unless a kill took the thread that was to see to it (app/argus_analyze.py:58-59, 231-232).
DoneRunIsWrittenBack ==
  \A r \in answered :
    argusRun[r].state = "done" /\ writeBack[r] = "none" =>
      \/ r \in orphaned
      \/ \E c \in CallbackThreads : caller[c].run = r
      \/ \E j \in Analyses : analysis[j].run = r /\ analysis[j].at = "enqueue"

\* When nothing is being written, the scores of every photo and the heroes come from
\* one run, unless two write-backs overlapped or one was cut off, and none has gone
\* through undisturbed since (app/argus_writeback.py:70-110).
HeroesMatchScores ==
  Writing = {} /\ mixed = {} => \A n \in 1..2 : scoreOf[n] = heroesOf

HandOffsAreSound == EndedRunIsNotQueued /\ DoneRunIsWrittenBack /\ HeroesMatchScores
=============================================================================
