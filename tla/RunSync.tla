------------------------------ MODULE RunSync ------------------------------
(***************************************************************************)
(* scripts/run_sync.sh, the wrapper that the systemd timer (or a person)   *)
(* starts: it takes a lock, runs the sync up to MaxAttempts times, and     *)
(* mails the outcome of a scheduled run.                                   *)
(*                                                                         *)
(* Every invocation is a process of its own; the lock is a flock on a file *)
(* description the wrapper shares with the helpers it forks (sleep, the    *)
(* mailing python), but not with the sync, which is started with 9>&-.  It *)
(* is free when the last of them is gone.  The sync itself is SyncRunner's *)
(* run, of which only the exit code matters here.                          *)
(***************************************************************************)
EXTENDS Naturals, Sequences, FiniteSets

CONSTANTS
    Invocations,    \* the wrappers that are started
    Scheduled,      \* those started with TRAILCAM_SCHEDULED
    MaxAttempts,    \* TRAILCAM_SYNC_MAX_ATTEMPTS
    MaxOutages,     \* times the mount goes away, at most
    OpHoldsLock,    \* the op daemon holds the lock at the start
    Op, Nobody      \* the op daemon, and no holder of the lock

ASSUME ConstantsAssumption ==
    /\ Scheduled \subseteq Invocations
    /\ MaxAttempts \in Nat \ {0}
    /\ MaxOutages \in Nat
    /\ OpHoldsLock \in BOOLEAN
    /\ Op \notin Invocations /\ Nobody \notin Invocations /\ Op # Nobody

VARIABLES
    \* the machine
    mounted,        \* the share is mounted, its staging directory writable
    outages,        \* times it went away so far
    launcher,       \* a launcher script is there
    lockOwner,      \* whose file description has the lock
    \* per invocation
    pc,             \* where the wrapper is
    attempt, rc,    \* its variables
    helper,         \* the child that shares its lock: "sleep", "mail" or "none"
    sync,           \* its sync process is running
    emails,         \* the outcomes mailed for it, or "refused"
    succeeded       \* history: one of its syncs exited with 0

machineVars == <<mounted, outages, launcher>>
vars == <<machineVars, lockOwner, pc, attempt, rc, helper, sync, emails, succeeded>>

Alive(w) == pc[w] \notin {"off", "skipped", "exited", "aborted", "killed"}

Init ==
    /\ mounted \in BOOLEAN
    /\ outages = 0
    /\ launcher = TRUE
    /\ lockOwner = IF OpHoldsLock THEN Op ELSE Nobody
    /\ pc = [w \in Invocations |-> "off"]
    /\ attempt = [w \in Invocations |-> 1]
    /\ rc = [w \in Invocations |-> 1]
    /\ helper = [w \in Invocations |-> "none"]
    /\ sync = [w \in Invocations |-> FALSE]
    /\ emails = [w \in Invocations |-> <<>>]
    /\ succeeded = [w \in Invocations |-> FALSE]

-----------------------------------------------------------------------------
(* The machine.                                                            *)

Outage ==
    /\ mounted
    /\ outages < MaxOutages
    /\ mounted' = FALSE
    /\ outages' = outages + 1
    /\ UNCHANGED <<launcher, lockOwner, pc, attempt, rc, helper, sync, emails, succeeded>>

LoseLauncher ==
    /\ launcher
    /\ launcher' = FALSE
    /\ UNCHANGED <<mounted, outages, lockOwner, pc, attempt, rc, helper, sync, emails, succeeded>>

\* Only the wrapper dies (systemd would take its children too; a kill or the
\* kernel's shortage of memory would not); a helper keeps the lock, the sync does
\* not.
Kill(w) ==
    /\ Alive(w)
    /\ pc' = [pc EXCEPT ![w] = "killed"]
    /\ lockOwner' = IF lockOwner = w /\ helper[w] = "none" THEN Nobody ELSE lockOwner
    /\ UNCHANGED <<machineVars, attempt, rc, helper, sync, emails, succeeded>>

-----------------------------------------------------------------------------
(* The lock.                                                               *)

Go(w, to) == pc' = [pc EXCEPT ![w] = to]

Start(w) ==
    /\ pc[w] = "off"
    /\ Go(w, "lock")
    /\ UNCHANGED <<machineVars, lockOwner, attempt, rc, helper, sync, emails, succeeded>>

\* What fuser lists: every process that has the lock file open, with the lock
\* or without, this wrapper among them.
Openers(w) == {lockOwner, w} \ {Nobody}

\* try_cleanup_stale_lock: the op daemon is killed if nobody else is listed.
ClearsStaleLock(w) == Openers(w) # {} /\ Openers(w) \subseteq {Op}

\* Mutant: the wrapper goes on whether it got the lock or not.
TakeLockAnyway(w) ==
    /\ pc[w] = "lock"
    /\ lockOwner' = w
    /\ Go(w, "attempt")
    /\ UNCHANGED <<machineVars, attempt, rc, helper, sync, emails, succeeded>>

TakeLock(w) ==
    /\ pc[w] = "lock"
    /\ lockOwner = Nobody \/ ClearsStaleLock(w)
    /\ lockOwner' = w
    /\ Go(w, "attempt")
    /\ UNCHANGED <<machineVars, attempt, rc, helper, sync, emails, succeeded>>

\* Mutant: the wrapper is too quick to believe that a sync is running.
SkipUnchecked(w) ==
    /\ pc[w] = "lock"
    /\ Go(w, "skipped")
    /\ UNCHANGED <<machineVars, lockOwner, attempt, rc, helper, sync, emails, succeeded>>

\* "trailcam sync already running; skipping this scheduled invocation".
Skip(w) ==
    /\ pc[w] = "lock"
    /\ lockOwner # Nobody /\ ~ClearsStaleLock(w)
    /\ Go(w, "skipped")
    /\ UNCHANGED <<machineVars, lockOwner, attempt, rc, helper, sync, emails, succeeded>>

-----------------------------------------------------------------------------
(* The attempts.                                                           *)

\* Mutant: the lock outlives the wrapper.
ExitLocked(w, how) == Go(w, how) /\ UNCHANGED lockOwner

\* exit: the wrapper's file description goes with it.
Exit(w, how) ==
    /\ Go(w, how)
    /\ lockOwner' = IF lockOwner = w THEN Nobody ELSE lockOwner

LauncherMissing(w) ==
    /\ pc[w] = "attempt"
    /\ ~launcher
    /\ Exit(w, "aborted")
    /\ UNCHANGED <<machineVars, attempt, rc, helper, sync, emails, succeeded>>

\* The share cannot be mounted, or staging is missing or not writable.
NotReady(w) ==
    /\ pc[w] = "attempt"
    /\ launcher
    /\ ~mounted
    /\ rc' = [rc EXCEPT ![w] = 1]
    /\ Go(w, "decide")
    /\ UNCHANGED <<machineVars, lockOwner, attempt, helper, sync, emails, succeeded>>

\* The share is mounted, or mounted again, and the sync started.
StartSync(w) ==
    /\ pc[w] = "attempt"
    /\ launcher
    /\ mounted' = TRUE
    /\ sync' = [sync EXCEPT ![w] = TRUE]
    /\ Go(w, "running")
    /\ UNCHANGED <<outages, launcher, lockOwner, attempt, rc, helper, emails, succeeded>>

\* The sync returns; it does so for itself if its wrapper is gone.
SyncEnds(w) ==
    /\ sync[w]
    /\ sync' = [sync EXCEPT ![w] = FALSE]
    /\ IF pc[w] = "running"
         THEN \E code \in {0, 1} :
                /\ rc' = [rc EXCEPT ![w] = code]
                /\ succeeded' = [succeeded EXCEPT ![w] = @ \/ code = 0]
                /\ Go(w, "decide")
         ELSE UNCHANGED <<pc, rc, succeeded>>
    /\ UNCHANGED <<machineVars, lockOwner, attempt, helper, emails>>

\* The outcome is mailed if the run was scheduled.
Conclude(w) ==
    IF w \in Scheduled
      THEN Go(w, "mail") /\ helper' = [helper EXCEPT ![w] = "mail"] /\ UNCHANGED lockOwner
      ELSE Exit(w, "exited") /\ UNCHANGED helper

Succeeded(w) ==
    /\ pc[w] = "decide" /\ rc[w] = 0
    /\ Conclude(w)
    /\ UNCHANGED <<machineVars, attempt, rc, sync, emails, succeeded>>

Sleep(w) ==
    /\ pc[w] = "decide" /\ rc[w] # 0
    /\ attempt[w] < MaxAttempts
    /\ Go(w, "sleep")
    /\ helper' = [helper EXCEPT ![w] = "sleep"]
    /\ UNCHANGED <<machineVars, lockOwner, attempt, rc, sync, emails, succeeded>>

\* Mutant: the attempts are not counted.
WakeUncounted(w) ==
    /\ pc[w] = "sleep"
    /\ Go(w, "attempt")
    /\ helper' = [helper EXCEPT ![w] = "none"]
    /\ UNCHANGED <<machineVars, lockOwner, attempt, rc, sync, emails, succeeded>>

Wake(w) ==
    /\ pc[w] = "sleep"
    /\ Go(w, "attempt")
    /\ attempt' = [attempt EXCEPT ![w] = @ + 1]
    /\ helper' = [helper EXCEPT ![w] = "none"]
    /\ UNCHANGED <<machineVars, lockOwner, rc, sync, emails, succeeded>>

GiveUp(w) ==
    /\ pc[w] = "decide" /\ rc[w] # 0
    /\ attempt[w] >= MaxAttempts
    /\ Conclude(w)
    /\ UNCHANGED <<machineVars, attempt, rc, sync, emails, succeeded>>

\* Mutant: the outcome is read off the number of attempts.
OutcomeByAttempts(w) == IF attempt[w] < MaxAttempts THEN "SUCCESS" ELSE "FINAL FAILURE"

Outcome(w) == IF rc[w] = 0 THEN "SUCCESS" ELSE "FINAL FAILURE"

Mail(w) ==
    /\ pc[w] = "mail"
    /\ \E sent \in {Outcome(w), "refused"} : emails' = [emails EXCEPT ![w] = Append(@, sent)]
    /\ helper' = [helper EXCEPT ![w] = "none"]
    /\ Exit(w, "exited")
    /\ UNCHANGED <<machineVars, attempt, rc, sync, succeeded>>

\* What a killed wrapper's helper does: a sleep ends, a mail is sent.
HelperEnds(w) ==
    /\ pc[w] = "killed"
    /\ helper[w] # "none"
    /\ helper' = [helper EXCEPT ![w] = "none"]
    /\ emails' = IF helper[w] = "mail" THEN [emails EXCEPT ![w] = Append(@, Outcome(w))] ELSE emails
    /\ lockOwner' = IF lockOwner = w THEN Nobody ELSE lockOwner
    /\ UNCHANGED <<machineVars, pc, attempt, rc, sync, succeeded>>

-----------------------------------------------------------------------------
\* A step of an invocation that takes nothing but time.
Step(w) ==
    \/ TakeLock(w) \/ Skip(w)
    \/ LauncherMissing(w) \/ NotReady(w) \/ StartSync(w) \/ SyncEnds(w)
    \/ Succeeded(w) \/ Sleep(w) \/ Wake(w) \/ GiveUp(w) \/ Mail(w) \/ HelperEnds(w)

\* Every invocation is over.
Over ==
    /\ \A w \in Invocations : pc[w] # "off" /\ ~Alive(w) /\ ~sync[w] /\ helper[w] = "none"
    /\ UNCHANGED vars

Next ==
    \/ \E w \in Invocations : Start(w) \/ Step(w) \/ Kill(w)
    \/ Outage \/ LoseLauncher \/ Over

Spec == Init /\ [][Next]_vars

\* The scheduler runs every process, and every sync ends (SyncRunner's RunsEnd;
\* systemd ends it after TimeoutStartSec at the latest).
FairSpec == Spec /\ \A w \in Invocations : WF_vars(Step(w))

-----------------------------------------------------------------------------
(* Correctness.                                                            *)

TypeOK ==
    /\ mounted \in BOOLEAN /\ launcher \in BOOLEAN
    /\ outages \in 0..MaxOutages
    /\ lockOwner \in Invocations \cup {Op, Nobody}
    /\ pc \in [Invocations -> {"off", "lock", "attempt", "running", "decide", "sleep",
                               "mail", "skipped", "exited", "aborted", "killed"}]
    /\ attempt \in [Invocations -> 1..MaxAttempts]
    /\ rc \in [Invocations -> 0..1]
    /\ helper \in [Invocations -> {"none", "sleep", "mail"}]
    /\ sync \in [Invocations -> BOOLEAN]
    /\ emails \in [Invocations -> Seq({"SUCCESS", "FINAL FAILURE", "refused"})]
    /\ succeeded \in [Invocations -> BOOLEAN]

\* Never do two syncs run at once, unless a wrapper was killed over one of them:
\* the second invocation is turned away while the first one attempts, sleeps or
\* mails, and a killed wrapper frees the lock while its sync goes on.
OneSyncAtATime ==
    \A v, w \in Invocations :
        v # w /\ sync[v] /\ sync[w] => pc[v] = "killed" \/ pc[w] = "killed"

\* An invocation has a process left that holds its lock.
AtWork(w) == Alive(w) \/ helper[w] # "none"

\* The lock is held only by an invocation with a process left: none that has
\* ended, by itself or killed, keeps the next one out.
LockHolderLives == \A w \in Invocations : lockOwner = w => AtWork(w)

\* What was mailed, or was to be mailed if the server had not refused it.
Tried(w, outcome) == emails[w] \in {<<outcome>>, <<"refused">>}

\* A scheduled invocation that comes to its outcome has tried to mail exactly
\* that, success if and only if one of its syncs succeeded ("exactly one email on
\* final outcome"); one that nobody scheduled, or that found no launcher, nothing.
OneTruthfulEmail ==
    \A w \in Invocations :
        /\ pc[w] = "exited" /\ w \in Scheduled =>
              Tried(w, IF succeeded[w] THEN "SUCCESS" ELSE "FINAL FAILURE")
        /\ pc[w] = "aborted" \/ w \notin Scheduled => emails[w] = <<>>

\* An invocation is skipped only while another one is at work ("trailcam sync
\* already running; skipping this scheduled invocation").
SkippedOnlyIfBusy ==
    [][\A w \in Invocations :
         pc[w] = "lock" /\ pc'[w] = "skipped" => \E v \in Invocations : v # w /\ AtWork(v)]_vars

\* Every invocation comes to an end.
InvocationsEnd == \A w \in Invocations : pc[w] = "lock" ~> ~Alive(w)
=============================================================================
