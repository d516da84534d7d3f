---------------------------- MODULE FeedbackChannel ----------------------------
(***************************************************************************)
(* POST /feedback as a whole (api.rs, submit_feedback): handlers on several *)
(* threads take a report through the admission window (RateWindow), stamp  *)
(* it, and file it in the journal (FeedbackStore).  The two components are *)
(* locked one after the other, never together, and the stamp is taken      *)
(* between the two locks.  The end of the process takes the window and     *)
(* the handlers with it and leaves the file.                               *)
(***************************************************************************)
EXTENDS RateWindow, FeedbackStore

ASSUME ChannelAssumption ==
    /\ Subject = Identifier
    /\ ReportInstant = Instant

VARIABLES
    limiting,  \* a rate is configured (RateLimited), or none (Permissive)
    job        \* what each handler is at

channelVars == <<rateVars, storeVars, limiting, job>>

(* A report is sound if it has an identifier and details of at most 500    *)
(* characters; submit finds that out, after admission.                     *)
NoJob == [stage |-> "none"]
Job == [stage : {"admission", "refused", "admitted", "stamped"}, about : Subject,
        category : StatedCategory, sound : BOOLEAN, at : ReportInstant]

ChannelTypeOK ==
    /\ RateTypeOK
    /\ StoreTypeOK
    /\ limiting \in BOOLEAN
    /\ job \in [Worker -> Job \cup {NoJob}]

ChannelInit ==
    /\ RateInit /\ StoreInit
    /\ limiting \in BOOLEAN
    /\ job = [w \in Worker |-> NoJob]

At(w, stage) == job[w].stage = stage
InFlight(stages) == {w \in Worker : job[w].stage \in stages}

----------------------------------------------------------------------------
(* The body is read and the admission control is called.  Bound: no more   *)
(* reports are let in than can be filed.                                   *)
Receive(w, s, c, sound) ==
    /\ phase = "serving"
    /\ At(w, "none")
    /\ Cardinality(InFlight({"admission", "admitted", "stamped"})) + Len(filed) < MaxFiled
    /\ job' = [job EXCEPT ![w] = [stage |-> IF limiting THEN "admission" ELSE "admitted",
                                  about |-> s, category |-> c, sound |-> sound, at |-> clock]]
    /\ IF limiting THEN Begin(w, s) ELSE UNCHANGED rateVars
    /\ UNCHANGED <<storeVars, limiting>>

AdmitReport(w) ==
    /\ At(w, "admission")
    /\ Grant(w)
    /\ job' = [job EXCEPT ![w].stage = "admitted"]
    /\ UNCHANGED <<storeVars, limiting>>

RefuseReportIgnored(w) ==
    /\ At(w, "admission")
    /\ Refuse(w)
    /\ job' = [job EXCEPT ![w].stage = "admitted"]
    /\ UNCHANGED <<storeVars, limiting>>

RefuseReportSilent(w) ==
    /\ At(w, "admission")
    /\ Refuse(w)
    /\ UNCHANGED <<storeVars, limiting, job>>

RefuseReport(w) ==
    /\ At(w, "admission")
    /\ Refuse(w)
    /\ job' = [job EXCEPT ![w].stage = "refused"]
    /\ UNCHANGED <<storeVars, limiting>>

(* The handler is done with the window, if it went through one.            *)
LeaveWindow(w) == IF limiting THEN Leave(w) ELSE UNCHANGED rateVars

(* 429, with the reason.                                                   *)
AnswerRefused(w) ==
    /\ At(w, "refused")
    /\ LeaveWindow(w)
    /\ job' = [job EXCEPT ![w] = NoJob]
    /\ UNCHANGED <<storeVars, limiting>>

StampReportOnArrival(w) ==
    /\ At(w, "admitted")
    /\ job' = [job EXCEPT ![w].stage = "stamped"]
    /\ UNCHANGED <<rateVars, storeVars, limiting>>

StampReportWindowEnd(w) ==
    /\ At(w, "admitted")
    /\ job' = [job EXCEPT ![w].stage = "stamped",
                          ![w].at = IF limiting THEN clock + Window ELSE clock]
    /\ UNCHANGED <<rateVars, storeVars, limiting>>

StampReport(w) ==
    /\ At(w, "admitted")
    /\ job' = [job EXCEPT ![w].stage = "stamped", ![w].at = clock]
    /\ UNCHANGED <<rateVars, storeVars, limiting>>

(* 201 with the receipt.                                                   *)
FileReport(w, left) ==
    /\ At(w, "stamped")
    /\ job[w].sound
    /\ Submit(job[w].about, job[w].category, job[w].at, left)
    /\ LeaveWindow(w)
    /\ job' = [job EXCEPT ![w] = NoJob]
    /\ UNCHANGED limiting

(* 400: the report was admitted and counted, but it is not sound.          *)
RejectReport(w) ==
    /\ At(w, "stamped")
    /\ ~job[w].sound
    /\ LeaveWindow(w)
    /\ job' = [job EXCEPT ![w] = NoJob]
    /\ UNCHANGED <<storeVars, limiting>>

CrashInFile(w, left) ==
    /\ At(w, "stamped")
    /\ job[w].sound
    /\ CrashInSubmit(job[w].about, job[w].category, job[w].at, left)

(* The end of the process: nothing in memory is left, and the next process *)
(* may be configured differently.                                          *)
ChannelCrash ==
    /\ \/ Crash
       \/ \E w \in Worker, left \in {"whole", "nothing"} \cup CrashTears : CrashInFile(w, left)
    /\ RateRestart
    /\ limiting' \in BOOLEAN
    /\ job' = [w \in Worker |-> NoJob]

Opening == Open /\ UNCHANGED <<rateVars, limiting, job>>

(* The citation and the admin listing are read under the journal's lock.   *)
ReadReports == Read /\ UNCHANGED <<rateVars, limiting, job>>

ChannelTick == Tick /\ UNCHANGED <<storeVars, limiting, job>>

HandlerStep(w) ==
    \/ AdmitReport(w)
    \/ RefuseReport(w)
    \/ AnswerRefused(w)
    \/ StampReport(w)
    \/ \E left \in {"whole"} \cup WriteErrors : FileReport(w, left)
    \/ RejectReport(w)

ChannelNext ==
    \/ \E w \in Worker :
         \/ \E s \in Subject, c \in StatedCategory, sound \in BOOLEAN : Receive(w, s, c, sound)
         \/ HandlerStep(w)
    \/ ChannelCrash
    \/ Opening
    \/ ReadReports
    \/ ChannelTick

ChannelSpec == ChannelInit /\ [][ChannelNext]_channelVars

(* Each handler is a task of its own on a multi-threaded runtime, and no   *)
(* handler waits while it holds a lock.                                    *)
FairChannelSpec == ChannelSpec /\ \A w \in Worker : WF_channelVars(HandlerStep(w))

----------------------------------------------------------------------------
(* No report is filed that the window has not admitted, and an admission   *)
(* files one report at most: what this lifetime has filed about a subject, *)
(* together with what is admitted and not yet filed, never exceeds the     *)
(* admissions.  (api.rs:282-296; the two locks are taken separately.)      *)
FiledWasAdmitted ==
    limiting =>
        \A s \in Subject :
            Cardinality({n \in 1..Len(filed) : filed[n].life = life /\ filed[n].doc.id = s})
              + Cardinality({w \in InFlight({"admitted", "stamped"}) : job[w].about = s})
              <= Len(granted[s])

(* No report is filed before its admission: every report of this lifetime  *)
(* carries an instant at which the window, as it was then, had admitted at *)
(* least as many reports as are stamped no later.  (api.rs:282-291.)       *)
StampedAfterAdmission ==
    limiting =>
        \A s \in Subject : \A t \in Instant :
            Cardinality({n \in 1..Len(filed) :
                           filed[n].life = life /\ filed[n].doc.id = s /\ filed[n].doc.at <= t})
              <= Cardinality({n \in 1..Len(granted[s]) : granted[s][n].at <= t})

(* Every report that is received is answered, unless the process ends.     *)
(* (api.rs:254-302.)                                                       *)
ReportsAnswered ==
    \A w \in Worker : \A n \in 0..MaxLives :
        (job[w] # NoJob /\ life = n) ~> (job[w] = NoJob \/ life > n)
=============================================================================
