---------------------------- MODULE InstallTitle ----------------------------
(***************************************************************************)
(* yati::InstallInternal and yati::InstallInternalStream: the transaction  *)
(* that puts the titles of one container on the console.  For each of its  *)
(* cnmts: contents into placeholders, the decision to skip, tickets, the   *)
(* removal of what is installed on both storages, the registration, the    *)
(* content meta database, the application record, the launch version; at   *)
(* the end the deferred resets of the launch version.  A stream has all    *)
(* its contents in placeholders before the first decision.                 *)
(*                                                                         *)
(* Any call may fail, and the power may go between any two (Titles).       *)
(* Writing a content into its placeholder is one step: YatiPipeline is its *)
(* detail.  The settings that leave titles out (skip_base, title_ids, ...) *)
(* are a choice to skip; ticket_only and skip_ticket are off.              *)
(***************************************************************************)
EXTENDS TitleStore

CONSTANT Batches  \* the containers: sequences of keys

BatchesAssumption == Batches # {} /\ Batches \subseteq Seq(Keys) \ {<<>>}
ASSUME BatchesAssumption

VARIABLES
  run,           \* the container, the target and the options of the install
  i,             \* the index of the cnmt
  latest,        \* latest_version_num of the current cnmt
  victim,        \* <<>> or the copy that RemoveInstalledNcas deletes: <<key, storage>>
  placeholders,  \* SUBSET Contents: written and not registered
  skipped,       \* SUBSET Contents: nca.skipped of the current cnmt
  required,      \* SUBSET Locked: ticket.required
  resets,        \* the launch resets: "none", "due" or "done"
  done           \* history: the copies this install has finished

installing == <<run, i, latest, victim, placeholders, skipped, required, resets, done>>

\* skip: skip_if_already_installed is on (to ask is a choice to skip); off for a stream.
Runs == {r \in [batch : Batches, target : Storages, stream : BOOLEAN, skip : BOOLEAN] :
           r.stream => ~r.skip}
Current == run.batch[i]
Target == run.target

InstallSteps == {"fill", "cnmt", "decide", "ncas", "tickets", "remove", "delete", "forget",
                 "forgotten", "register", "set", "commit", "push", "launch", "reset", "exit"}

InstallType ==
  /\ run \in Runs
  /\ i \in 1..Len(run.batch)
  /\ latest \in {0} \cup {k.version : k \in Keys}
  /\ victim \in {<<>>} \cup (Keys \X Storages)
  /\ placeholders \subseteq Contents
  /\ skipped \subseteq Contents
  /\ required \subseteq Locked
  /\ resets \in {"none", "due", "done"}
  /\ done \subseteq Copies

InstallInit ==
  /\ run = [batch |-> CHOOSE b \in Batches : TRUE, target |-> "sd", stream |-> FALSE, skip |-> FALSE]
  /\ i = 1 /\ latest = 0 /\ victim = <<>>
  /\ placeholders = {} /\ skipped = {} /\ required = {}
  /\ resets = "none" /\ done = {}

-----------------------------------------------------------------------------
InstallStart ==
  /\ pc = "idle" /\ jobs < MaxJobs
  /\ run' \in Runs
  /\ jobs' = jobs + 1
  /\ pc' = IF run'.stream THEN "fill" ELSE "cnmt"
  /\ i' = 1 /\ latest' = 0 /\ victim' = <<>>
  /\ placeholders' = {} /\ skipped' = {} /\ required' = {}
  /\ resets' = "none" /\ done' = {} /\ outcome' = "none"
  /\ Begins /\ UNCHANGED j

There(cs) == {c \in cs : run.skip /\ c \in registered[Target]}

\* Mutant: the header of a skipped NCA is not looked at.
HasRequiredTicketWritten(cs) == required' = required \cup ((cs \ There(cs)) \cap Locked)

\* HasRequiredTicket marks the ticket of an NCA, skipped or written.
HasRequiredTicket(cs) == required' = required \cup (cs \cap Locked)

\* InstallNca for some contents: kept if it is there and the user wants to skip, else
\* written into a placeholder.
InstallNca(cs) ==
  /\ skipped' = skipped \cup There(cs)
  /\ placeholders' = placeholders \cup (cs \ There(cs))
  /\ HasRequiredTicket(cs)
  /\ UNCHANGED <<kept, jobs, j, outcome, run, i, latest, victim, resets, done>>

\* InstallInternalStream: the whole container arrives before anything is decided.
StreamFill ==
  /\ pc = "fill" /\ pc' = "decide"
  /\ InstallNca(UNION {ContentsOf(run.batch[n]) : n \in DOMAIN run.batch})

InstallCnmtNca ==
  /\ pc = "cnmt" /\ pc' = "decide"
  /\ InstallNca({Holds[Current][1]})

InstallNcas ==
  /\ pc = "ncas" /\ pc' = "tickets"
  /\ InstallNca(ContentsOf(Current) \ {Holds[Current][1]})

\* Keys of the application in the databases, in memory.
Listed == meta["nand"] \cup meta["sd"]

\* GetLatestVersion: what is asked of the launch at the end of the title, found before
\* anything is removed.
LatestVersion ==
  LET found == {Current.version} \cup
               (IF Current.type = "Patch" THEN {} ELSE {k.version : k \in Listed})
  IN CHOOSE v \in found : \A w \in found : w <= v

\* GetLatestVersion and ShouldSkip.  The same version is skipped or asked for, a lower
\* patch is asked for unless the settings allow it, and the settings may leave any out.
MustSkip == run.skip /\ Current \in Listed

\* Mutant: the last title is not seen to be the last.
EndsTitlePastEnd ==
  /\ i' = i + 1
  /\ pc' = IF i <= Len(run.batch) THEN (IF run.stream THEN "decide" ELSE "cnmt") ELSE "reset"
  /\ placeholders' = IF run.stream THEN placeholders ELSE {}
  /\ skipped' = {}

\* The end of the loop body, with the scope exit of a cnmt that is not streamed.
EndsTitle ==
  /\ IF i < Len(run.batch)
     THEN i' = i + 1 /\ pc' = (IF run.stream THEN "decide" ELSE "cnmt")
     ELSE i' = i /\ pc' = "reset"
  /\ placeholders' = IF run.stream THEN placeholders ELSE {}
  /\ skipped' = {}

SkipTitle ==
  /\ pc = "decide"
  /\ EndsTitle
  /\ UNCHANGED <<kept, jobs, j, outcome, run, latest, victim, required, resets, done>>

TakeTitle ==
  /\ pc = "decide" /\ ~MustSkip
  /\ pc' = IF run.stream THEN "tickets" ELSE "ncas"
  /\ latest' = LatestVersion
  /\ UNCHANGED <<kept, jobs, j, outcome, run, i, victim, placeholders, skipped, required, resets, done>>

ImportTickets ==
  /\ pc = "tickets" /\ pc' = "remove"
  /\ imported' = imported \cup required
  /\ required' = {}
  /\ UNCHANGED <<registered, databases, record, launch, history, jobs, j, outcome,
                 run, i, latest, victim, placeholders, skipped, resets, done>>

-----------------------------------------------------------------------------
\* Mutant: only the target is searched.
VictimsTarget(s) == {k \in meta[s] : s = Target /\ SameTitle(k, Current)}

Victims(s) == {k \in meta[s] : SameTitle(k, Current)}

\* RemoveInstalledNcas: both storages are listed, the NAND first.
Pick(s) ==
  \E k \in Victims(s) :
    /\ victim' = <<k, s>>
    /\ done' = done \ {[key |-> k, storage |-> s]}
    /\ withdrawn' = withdrawn \cup {[key |-> k, storage |-> s]}
    /\ pc' = "delete"

RemoveList ==
  /\ pc = "remove"
  /\ \/ Pick("nand")
     \/ Victims("nand") = {} /\ Pick("sd")
     \/ /\ Victims("nand") = {} /\ Victims("sd") = {}
        /\ victim' = <<>> /\ pc' = "register"
        /\ UNCHANGED <<done, withdrawn>>
  /\ j' = 1
  /\ UNCHANGED <<registered, databases, services, cut, unsettled, jobs, outcome,
                 run, i, latest, placeholders, skipped, required, resets>>

\* Mutant: a skipped content is deleted too.
SparedNever(c) == FALSE

\* One content of the victim.  What was skipped stays: nothing would bring it back.
Spared(c) == c \in skipped

RemoveContent ==
  /\ pc = "delete"
  /\ IF j > Len(Holds[victim[1]])
     THEN pc' = "forget" /\ UNCHANGED <<registered, cut, j>>
     ELSE /\ j' = j + 1 /\ UNCHANGED pc
          /\ IF Spared(Holds[victim[1]][j])
             THEN UNCHANGED <<registered, cut>>
             ELSE /\ Delete(Holds[victim[1]][j], victim[2])
                  /\ cut' = [cut EXCEPT ![victim[2]] = @ \cup {victim[1]}]
  /\ UNCHANGED <<databases, services, withdrawn, unsettled, jobs, outcome, installing>>

RemoveKey ==
  /\ pc = "forget" /\ pc' = "forgotten"
  /\ Remove(victim[1], victim[2])
  /\ UNCHANGED <<registered, services, history, jobs, j, outcome, installing>>

RemoveCommit ==
  /\ pc = "forgotten" /\ pc' = "remove"
  /\ Commit(victim[2])
  /\ cut' = [cut EXCEPT ![victim[2]] = @ \cap meta[victim[2]]]
  /\ UNCHANGED <<registered, services, withdrawn, unsettled, jobs, j, outcome, installing>>

-----------------------------------------------------------------------------
\* RegisterNcasAndPushRecord.  ncm::Register deletes a content of that id first; a
\* content whose placeholder is gone cannot be registered (InstallFails).
RegisterContent ==
  /\ pc = "register"
  /\ IF j > Len(Holds[Current])
     THEN pc' = "set" /\ UNCHANGED <<registered, j, placeholders>>
     ELSE LET c == Holds[Current][j] IN
          /\ j' = j + 1 /\ UNCHANGED pc
          /\ IF c \in skipped
             THEN UNCHANGED <<registered, placeholders>>
             ELSE /\ c \in placeholders
                  /\ Register(c, Target)
                  /\ placeholders' = placeholders \ {c}
  /\ UNCHANGED <<databases, services, history, jobs, outcome,
                 run, i, latest, victim, skipped, required, resets, done>>

SetKey ==
  /\ pc = "set" /\ pc' = "commit"
  /\ Set(Current, Target)
  /\ UNCHANGED <<registered, services, history, jobs, j, outcome, installing>>

\* Its content is complete, so it is no longer cut; KeysWhole holds that against it.
CommitKey ==
  /\ pc = "commit" /\ pc' = "push"
  /\ Commit(Target)
  /\ cut' = [cut EXCEPT ![Target] = (@ \cap meta[Target]) \ {Current}]
  /\ UNCHANGED <<registered, services, withdrawn, unsettled, jobs, j, outcome, installing>>

PushRecord ==
  /\ pc = "push" /\ pc' = "launch"
  /\ record' = Pushed(Current, Target)
  /\ withdrawn' = {a \in withdrawn : ~SameTitle(a.key, Current)}
  /\ UNCHANGED <<registered, databases, imported, launch, cut, unsettled, jobs, j, outcome, installing>>

\* Mutant: the reset is made at once, and a title behind the patch raises it again.
LaunchOfNow ==
  IF Current.type = "Patch" THEN launch' = 0 /\ resets' = "done"
  ELSE launch' = latest /\ UNCHANGED resets

\* A patch asks for a reset when the whole container is done.
LaunchOf ==
  /\ launch' = latest
  /\ resets' = IF Current.type = "Patch" THEN "due" ELSE resets

\* The last step of a title; its latest_version_num goes out of scope.
PushLaunch ==
  /\ pc = "launch"
  /\ LaunchOf /\ latest' = 0
  /\ done' = done \cup {[key |-> Current, storage |-> Target]}
  /\ EndsTitle
  /\ UNCHANGED <<registered, databases, record, imported, history, jobs, j, outcome,
                 run, victim, required>>

-----------------------------------------------------------------------------
\* The deferred resets, on success (reset) and at the scope exit of a failure (exit).
\* A reset that fails makes the result of an install a failure, and is logged otherwise.
InstallEnds ==
  /\ pc \in {"reset", "exit"} /\ pc' = "idle"
  /\ \/ /\ resets = "due"
        /\ launch' = 0 /\ resets' = "done"
        /\ outcome' = IF pc = "reset" THEN "success" ELSE "failed"
     \/ /\ resets = "due"
        /\ resets' = "none" /\ outcome' = "failed" /\ UNCHANGED launch
     \/ /\ resets # "due"
        /\ outcome' = IF pc = "reset" THEN "success" ELSE "failed"
        /\ UNCHANGED <<launch, resets>>
  /\ placeholders' = {}
  /\ UNCHANGED <<registered, databases, record, imported, history, jobs, j,
                 run, i, latest, victim, skipped, required, done>>

\* Any call may fail, and a cancel stops the writing of a content.  ncm::Register may
\* fail behind its delete, and a ticket behind others that are imported.
InstallFails ==
  /\ pc \in InstallSteps \ {"reset", "exit"} /\ pc' = "exit"
  /\ \/ UNCHANGED <<registered, imported>>
     \/ /\ pc = "register" /\ j <= Len(Holds[Current]) /\ Holds[Current][j] \notin skipped
        /\ Delete(Holds[Current][j], Target)
        /\ UNCHANGED imported
     \/ /\ pc = "tickets"
        /\ \E some \in SUBSET required : imported' = imported \cup some
        /\ UNCHANGED registered
  /\ UNCHANGED <<databases, record, launch, history, jobs, j, outcome, installing>>

Install ==
  \/ InstallStart \/ StreamFill \/ InstallCnmtNca \/ SkipTitle \/ TakeTitle \/ InstallNcas
  \/ ImportTickets \/ RemoveList \/ RemoveContent \/ RemoveKey \/ RemoveCommit
  \/ RegisterContent \/ SetKey \/ CommitKey \/ PushRecord \/ PushLaunch
  \/ InstallEnds \/ InstallFails

\* Crash of the process: nothing of the job is left.
InstallForgets ==
  /\ placeholders' = {} /\ skipped' = {} /\ required' = {} /\ resets' = "none"
  /\ latest' = 0 /\ victim' = <<>>
  /\ UNCHANGED <<run, i, done>>
=============================================================================
