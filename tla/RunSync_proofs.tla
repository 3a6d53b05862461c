--------------------------- MODULE RunSync_proofs ---------------------------
(***************************************************************************)
(* The lock of the wrapper keeps its promises, and the mail tells the      *)
(* truth: for any number of invocations and attempts, whenever wrappers    *)
(* are killed, mounts go away or syncs fail.                               *)
(*                                                                         *)
(* What makes it inductive: the lock is somebody's exactly while he is     *)
(* between taking it and his exit, or was killed over a helper; and what   *)
(* is to be mailed follows from where the wrapper is.                      *)
(***************************************************************************)
EXTENDS RunSync, TLAPS, SequenceTheorems

\* Where a wrapper has the lock.
Holding == {"attempt", "running", "decide", "sleep", "mail"}

LockIsHeld ==
    \A w \in Invocations :
        lockOwner = w <=> pc[w] \in Holding \/ (pc[w] = "killed" /\ helper[w] # "none")

\* A wrapper that lives has the helper and the sync of the place where it is.
ChildrenInPlace ==
    \A w \in Invocations :
        /\ pc[w] # "killed" => helper[w] = IF pc[w] \in {"sleep", "mail"} THEN pc[w] ELSE "none"
        /\ sync[w] => pc[w] \in {"running", "killed"}

\* Nothing is mailed before the end, and nothing for those nobody scheduled.
MailAtTheEnd ==
    \A w \in Invocations :
        /\ pc[w] \notin {"exited", "killed"} => emails[w] = <<>>
        /\ w \notin Scheduled => emails[w] = <<>> /\ helper[w] # "mail"
        /\ pc[w] = "exited" /\ w \in Scheduled =>
              Tried(w, IF succeeded[w] THEN "SUCCESS" ELSE "FINAL FAILURE")

\* An attempt follows failures only, and the last exit code is the outcome.
CodeIsOutcome ==
    \A w \in Invocations :
        /\ pc[w] \in {"off", "lock", "attempt", "running", "sleep"} => ~succeeded[w]
        /\ pc[w] \in {"decide", "mail"} => (succeeded[w] <=> rc[w] = 0)

\* TypeOK in the parts the provers can take at a time.
FlagsOK ==
    /\ mounted \in BOOLEAN /\ launcher \in BOOLEAN
    /\ sync \in [Invocations -> BOOLEAN]
    /\ succeeded \in [Invocations -> BOOLEAN]

PlacesOK ==
    /\ outages \in 0..MaxOutages
    /\ lockOwner \in Invocations \cup {Op, Nobody}
    /\ pc \in [Invocations -> {"off", "lock", "attempt", "running", "decide", "sleep",
                               "mail", "skipped", "exited", "aborted", "killed"}]
    /\ attempt \in [Invocations -> 1..MaxAttempts]
    /\ rc \in [Invocations -> 0..1]
    /\ helper \in [Invocations -> {"none", "sleep", "mail"}]

Outcomes == {"SUCCESS", "FINAL FAILURE", "refused"}
EmailsOK == emails \in [Invocations -> Seq(Outcomes)]

\* A wrapper sleeps only if it has an attempt left.
SleepHasAttempt == \A w \in Invocations : pc[w] = "sleep" => attempt[w] < MaxAttempts

Types == FlagsOK /\ PlacesOK /\ EmailsOK /\ SleepHasAttempt

Inv == Types /\ LockIsHeld /\ ChildrenInPlace /\ MailAtTheEnd /\ CodeIsOutcome

-----------------------------------------------------------------------------
(* Types.                                                                  *)

LEMMA TypesInit == Init => Types
<1> SUFFICES ASSUME Init PROVE Types
  OBVIOUS
<1>1. FlagsOK
  BY DEF Init, FlagsOK
<1>2. PlacesOK /\ SleepHasAttempt
  BY ConstantsAssumption DEF Init, PlacesOK, SleepHasAttempt
<1>3. EmailsOK
  <2>1. <<>> \in Seq(Outcomes)
    BY EmptySeq
  <2> QED BY <2>1 DEF Init, EmailsOK
<1> QED BY <1>1, <1>2, <1>3 DEF Types

LEMMA FlagsStep == FlagsOK /\ [Next]_vars => FlagsOK'
<1> SUFFICES ASSUME FlagsOK, [Next]_vars
             PROVE  FlagsOK'
  OBVIOUS
<1> USE DEF FlagsOK
<1>1. ASSUME NEW w \in Invocations, StartSync(w)
      PROVE  FlagsOK'
  BY <1>1 DEF StartSync
<1>2. ASSUME NEW w \in Invocations, SyncEnds(w)
      PROVE  FlagsOK'
  <2>1. succeeded' \in [Invocations -> BOOLEAN]
    BY <1>2 DEF SyncEnds
  <2> QED BY <1>2, <2>1 DEF SyncEnds, machineVars
<1>3. ASSUME NEW w \in Invocations,
             Start(w) \/ TakeLock(w) \/ Skip(w) \/ Kill(w) \/ LauncherMissing(w) \/ NotReady(w)
             \/ Succeeded(w) \/ Sleep(w) \/ Wake(w) \/ GiveUp(w) \/ Mail(w) \/ HelperEnds(w)
      PROVE  UNCHANGED <<mounted, launcher, sync, succeeded>>
  BY <1>3 DEF Start, TakeLock, Skip, Kill, LauncherMissing, NotReady, Succeeded, Sleep, Wake,
     GiveUp, Mail, HelperEnds, machineVars
<1>4. CASE Outage \/ LoseLauncher
  BY <1>4, Zenon DEF Outage, LoseLauncher
<1>5. CASE UNCHANGED vars
  BY <1>5 DEF vars, machineVars
<1>6. UNCHANGED <<mounted, launcher, sync, succeeded>> => FlagsOK'
  OBVIOUS
<1> QED BY <1>1, <1>2, <1>3, <1>4, <1>5, <1>6 DEF Next, Step, Over

LEMMA PlacesStep ==
    PlacesOK /\ SleepHasAttempt /\ [Next]_vars => PlacesOK' /\ SleepHasAttempt'
<1> SUFFICES ASSUME PlacesOK, SleepHasAttempt, [Next]_vars
             PROVE  PlacesOK' /\ SleepHasAttempt'
  OBVIOUS
<1> USE ConstantsAssumption DEF PlacesOK, SleepHasAttempt
<1>1. ASSUME NEW w \in Invocations, Start(w) \/ TakeLock(w) \/ Skip(w) \/ Kill(w)
      PROVE  PlacesOK' /\ SleepHasAttempt'
  BY <1>1 DEF Start, TakeLock, Skip, Kill, Go, machineVars
<1>2. ASSUME NEW w \in Invocations, LauncherMissing(w) \/ NotReady(w) \/ StartSync(w)
      PROVE  PlacesOK' /\ SleepHasAttempt'
  BY <1>2 DEF LauncherMissing, NotReady, StartSync, Exit, Go, machineVars
<1>3. ASSUME NEW w \in Invocations, SyncEnds(w)
      PROVE  PlacesOK' /\ SleepHasAttempt'
  BY <1>3 DEF SyncEnds, Go, machineVars
<1>4. ASSUME NEW w \in Invocations, Succeeded(w) \/ GiveUp(w)
      PROVE  PlacesOK' /\ SleepHasAttempt'
  BY <1>4 DEF Succeeded, GiveUp, Conclude, Exit, Go, machineVars
<1>5. ASSUME NEW w \in Invocations, Sleep(w) \/ Wake(w)
      PROVE  PlacesOK' /\ SleepHasAttempt'
  BY <1>5 DEF Sleep, Wake, Go, machineVars
<1>6. ASSUME NEW w \in Invocations, Mail(w) \/ HelperEnds(w)
      PROVE  PlacesOK' /\ SleepHasAttempt'
  BY <1>6 DEF Mail, HelperEnds, Exit, Go, machineVars
<1>7. CASE Outage \/ LoseLauncher
  BY <1>7 DEF Outage, LoseLauncher
<1>8. CASE UNCHANGED vars
  BY <1>8 DEF vars, machineVars
<1> QED BY <1>1, <1>2, <1>3, <1>4, <1>5, <1>6, <1>7, <1>8 DEF Next, Step, Over

\* A mail more is a sequence of outcomes still.
LEMMA OneMailMore ==
    ASSUME EmailsOK, NEW w \in Invocations, NEW o \in Outcomes,
           emails' = [emails EXCEPT ![w] = Append(@, o)]
    PROVE  EmailsOK'
<1>1. emails[w] \in Seq(Outcomes)
  BY DEF EmailsOK
<1>2. Append(emails[w], o) \in Seq(Outcomes)
  BY <1>1, AppendProperties
<1> QED BY <1>2 DEF EmailsOK

LEMMA EmailsStep == EmailsOK /\ [Next]_vars => EmailsOK'
<1> SUFFICES ASSUME EmailsOK, [Next]_vars
             PROVE  EmailsOK'
  OBVIOUS
<1>1. ASSUME NEW w \in Invocations, Mail(w)
      PROVE  EmailsOK'
  <2>1. PICK o \in {Outcome(w), "refused"} : emails' = [emails EXCEPT ![w] = Append(@, o)]
    BY <1>1 DEF Mail
  <2>2. o \in Outcomes
    BY DEF Outcome, Outcomes
  <2> QED BY <2>1, <2>2, OneMailMore
<1>2. ASSUME NEW w \in Invocations, HelperEnds(w)
      PROVE  EmailsOK'
  <2>1. Outcome(w) \in Outcomes
    BY DEF Outcome, Outcomes
  <2>2. CASE helper[w] = "mail"
    <3>1. emails' = [emails EXCEPT ![w] = Append(@, Outcome(w))]
      BY <1>2, <2>2 DEF HelperEnds
    <3> QED BY <2>1, <3>1, OneMailMore
  <2>3. CASE helper[w] # "mail"
    BY <1>2, <2>3 DEF HelperEnds, EmailsOK
  <2> QED BY <2>2, <2>3
<1>3. ASSUME NEW w \in Invocations,
             Start(w) \/ TakeLock(w) \/ Skip(w) \/ Kill(w) \/ LauncherMissing(w) \/ NotReady(w)
             \/ StartSync(w) \/ SyncEnds(w) \/ Succeeded(w) \/ Sleep(w) \/ Wake(w) \/ GiveUp(w)
      PROVE  emails' = emails
  BY <1>3 DEF Start, TakeLock, Skip, Kill, LauncherMissing, NotReady, StartSync, SyncEnds,
     Succeeded, Sleep, Wake, GiveUp
<1>4. Outage \/ LoseLauncher \/ UNCHANGED vars => emails' = emails
  BY DEF Outage, LoseLauncher, vars
<1>5. emails' = emails => EmailsOK'
  BY DEF EmailsOK
<1> QED BY <1>1, <1>2, <1>3, <1>4, <1>5 DEF Next, Step, Over

LEMMA TypesStep == Types /\ [Next]_vars => Types'
BY FlagsStep, PlacesStep, EmailsStep DEF Types

\* Every variable keeps its type; in particular no invocation makes more than
\* MaxAttempts attempts.
THEOREM TypeCorrect == Spec => []TypeOK
<1>1. Types => TypeOK
  BY DEF Types, FlagsOK, PlacesOK, EmailsOK, Outcomes, TypeOK
<1> QED BY <1>1, TypesInit, TypesStep, PTL DEF Spec

-----------------------------------------------------------------------------
(* The invariant.                                                          *)

LEMMA InvInit == Init => Inv
BY TypesInit, ConstantsAssumption DEF Init, Inv, LockIsHeld, Holding, ChildrenInPlace,
   MailAtTheEnd, CodeIsOutcome

LEMMA LockStep == Inv /\ [Next]_vars => LockIsHeld'
<1> SUFFICES ASSUME Inv, [Next]_vars, NEW x \in Invocations
             PROVE  (lockOwner = x <=> pc[x] \in Holding \/ (pc[x] = "killed" /\ helper[x] # "none"))'
  BY DEF LockIsHeld
<1> USE ConstantsAssumption DEF Inv, Types, PlacesOK, FlagsOK, LockIsHeld, ChildrenInPlace, Holding
<1>1. ASSUME NEW w \in Invocations, TakeLock(w)
      PROVE  (lockOwner = x <=> pc[x] \in Holding \/ (pc[x] = "killed" /\ helper[x] # "none"))'
  <2>1. lockOwner = Nobody
    BY <1>1 DEF TakeLock, ClearsStaleLock, Openers
  <2> QED BY <1>1, <2>1 DEF TakeLock, Go
<1>2. ASSUME NEW w \in Invocations, Start(w) \/ Skip(w) \/ Kill(w)
      PROVE  (lockOwner = x <=> pc[x] \in Holding \/ (pc[x] = "killed" /\ helper[x] # "none"))'
  BY <1>2 DEF Start, Skip, Kill, Alive, Go
<1>3. ASSUME NEW w \in Invocations, LauncherMissing(w) \/ NotReady(w) \/ StartSync(w) \/ SyncEnds(w)
      PROVE  (lockOwner = x <=> pc[x] \in Holding \/ (pc[x] = "killed" /\ helper[x] # "none"))'
  BY <1>3 DEF LauncherMissing, NotReady, StartSync, SyncEnds, Exit, Go
<1>4. ASSUME NEW w \in Invocations, Succeeded(w) \/ Sleep(w) \/ Wake(w) \/ GiveUp(w)
      PROVE  (lockOwner = x <=> pc[x] \in Holding \/ (pc[x] = "killed" /\ helper[x] # "none"))'
  BY <1>4 DEF Succeeded, Sleep, Wake, GiveUp, Conclude, Exit, Go
<1>5. ASSUME NEW w \in Invocations, Mail(w) \/ HelperEnds(w)
      PROVE  (lockOwner = x <=> pc[x] \in Holding \/ (pc[x] = "killed" /\ helper[x] # "none"))'
  BY <1>5 DEF Mail, HelperEnds, Exit, Go
<1>6. CASE Outage \/ LoseLauncher \/ UNCHANGED vars
  BY <1>6 DEF Outage, LoseLauncher, vars
<1> QED BY <1>1, <1>2, <1>3, <1>4, <1>5, <1>6 DEF Next, Step, Over

LEMMA ChildrenStep == Inv /\ [Next]_vars => ChildrenInPlace'
<1> SUFFICES ASSUME Inv, [Next]_vars
             PROVE  ChildrenInPlace'
  OBVIOUS
<1> USE DEF Inv, Types, PlacesOK, FlagsOK, ChildrenInPlace
<1>1. ASSUME NEW w \in Invocations, TakeLock(w) \/ Start(w) \/ Skip(w) \/ Kill(w)
      PROVE  ChildrenInPlace'
  BY <1>1 DEF TakeLock, Start, Skip, Kill, Alive, Go
<1>2. ASSUME NEW w \in Invocations, LauncherMissing(w) \/ NotReady(w) \/ StartSync(w) \/ SyncEnds(w)
      PROVE  ChildrenInPlace'
  BY <1>2 DEF LauncherMissing, NotReady, StartSync, SyncEnds, Exit, Go
<1>3. ASSUME NEW w \in Invocations, Succeeded(w) \/ Sleep(w) \/ Wake(w) \/ GiveUp(w)
      PROVE  ChildrenInPlace'
  BY <1>3 DEF Succeeded, Sleep, Wake, GiveUp, Conclude, Exit, Go
<1>4. ASSUME NEW w \in Invocations, Mail(w) \/ HelperEnds(w)
      PROVE  ChildrenInPlace'
  BY <1>4 DEF Mail, HelperEnds, Exit, Go
<1>5. CASE Outage \/ LoseLauncher \/ UNCHANGED vars
  BY <1>5 DEF Outage, LoseLauncher, vars
<1> QED BY <1>1, <1>2, <1>3, <1>4, <1>5 DEF Next, Step, Over

LEMMA FirstMail == ASSUME NEW o PROVE Append(<<>>, o) = <<o>>
OBVIOUS

LEMMA MailStep == Inv /\ [Next]_vars => MailAtTheEnd'
<1> SUFFICES ASSUME Inv, [Next]_vars
             PROVE  MailAtTheEnd'
  OBVIOUS
<1> USE DEF Inv, Types, PlacesOK, FlagsOK, MailAtTheEnd, Tried
<1>1. ASSUME NEW w \in Invocations, TakeLock(w) \/ Start(w) \/ Skip(w) \/ Kill(w)
      PROVE  MailAtTheEnd'
  BY <1>1 DEF TakeLock, Start, Skip, Kill, Alive, Go
<1>2. ASSUME NEW w \in Invocations, LauncherMissing(w) \/ NotReady(w) \/ StartSync(w) \/ SyncEnds(w)
      PROVE  MailAtTheEnd'
  BY <1>2 DEF LauncherMissing, NotReady, StartSync, SyncEnds, Exit, Go
<1>3. ASSUME NEW w \in Invocations, Succeeded(w) \/ Sleep(w) \/ Wake(w) \/ GiveUp(w)
      PROVE  MailAtTheEnd'
  BY <1>3 DEF Succeeded, Sleep, Wake, GiveUp, Conclude, Exit, Go
<1>4. ASSUME NEW w \in Invocations, Mail(w)
      PROVE  MailAtTheEnd'
  <2>1. w \in Scheduled
    BY <1>4 DEF Mail, ChildrenInPlace
  <2>2. PICK sent \in {Outcome(w), "refused"} : emails' = [emails EXCEPT ![w] = Append(@, sent)]
    BY <1>4 DEF Mail
  <2>3. emails'[w] = <<sent>>
    <3>1. emails[w] = <<>>
      BY <1>4 DEF Mail
    <3>2. emails'[w] = Append(emails[w], sent)
      BY <2>2 DEF EmailsOK
    <3> QED BY <3>1, <3>2, FirstMail, Zenon
  <2>4. Tried(w, IF succeeded[w] THEN "SUCCESS" ELSE "FINAL FAILURE")'
    BY <1>4, <2>2, <2>3 DEF Mail, Outcome, CodeIsOutcome
  <2>5. ASSUME NEW x \in Invocations, x # w
        PROVE  emails'[x] = emails[x] /\ pc'[x] = pc[x] /\ helper'[x] = helper[x]
               /\ succeeded'[x] = succeeded[x]
    BY <1>4, <2>2, <2>5 DEF Mail, Exit, Go, EmailsOK
  <2>6. pc'[w] = "exited"
    BY <1>4 DEF Mail, Exit, Go
  <2> HIDE DEF Tried
  <2> QED BY <2>1, <2>4, <2>5, <2>6 DEF Tried
<1>5. ASSUME NEW w \in Invocations, HelperEnds(w)
      PROVE  MailAtTheEnd'
  <2>1. helper[w] # "mail" => emails' = emails
    BY <1>5 DEF HelperEnds
  <2>2. ASSUME NEW x \in Invocations, x # w
        PROVE  emails'[x] = emails[x] /\ helper'[x] = helper[x]
    BY <1>5, <2>2 DEF HelperEnds, EmailsOK
  <2>3. pc[w] = "killed" /\ pc' = pc /\ succeeded' = succeeded /\ helper'[w] = "none"
    BY <1>5 DEF HelperEnds
  <2> QED BY <2>1, <2>2, <2>3
<1>6. CASE Outage \/ LoseLauncher \/ UNCHANGED vars
  BY <1>6 DEF Outage, LoseLauncher, vars
<1> QED BY <1>1, <1>2, <1>3, <1>4, <1>5, <1>6 DEF Next, Step, Over

LEMMA CodeStep == Inv /\ [Next]_vars => CodeIsOutcome'
<1> SUFFICES ASSUME Inv, [Next]_vars
             PROVE  CodeIsOutcome'
  OBVIOUS
<1> USE DEF Inv, Types, PlacesOK, FlagsOK, CodeIsOutcome
<1>1. ASSUME NEW w \in Invocations, TakeLock(w) \/ Start(w) \/ Skip(w) \/ Kill(w)
      PROVE  CodeIsOutcome'
  BY <1>1 DEF TakeLock, Start, Skip, Kill, Alive, Go
<1>2. ASSUME NEW w \in Invocations, LauncherMissing(w) \/ NotReady(w) \/ StartSync(w)
      PROVE  CodeIsOutcome'
  BY <1>2 DEF LauncherMissing, NotReady, StartSync, Exit, Go
<1>3. ASSUME NEW w \in Invocations, SyncEnds(w)
      PROVE  CodeIsOutcome'
  BY <1>3 DEF SyncEnds, Go
<1>4. ASSUME NEW w \in Invocations, Succeeded(w) \/ Sleep(w) \/ Wake(w) \/ GiveUp(w)
      PROVE  CodeIsOutcome'
  BY <1>4 DEF Succeeded, Sleep, Wake, GiveUp, Conclude, Exit, Go
<1>5. ASSUME NEW w \in Invocations, Mail(w) \/ HelperEnds(w)
      PROVE  CodeIsOutcome'
  BY <1>5 DEF Mail, HelperEnds, Exit, Go
<1>6. CASE Outage \/ LoseLauncher \/ UNCHANGED vars
  BY <1>6 DEF Outage, LoseLauncher, vars
<1> QED BY <1>1, <1>2, <1>3, <1>4, <1>5, <1>6 DEF Next, Step, Over

LEMMA InvAlways == Spec => []Inv
<1>1. Inv /\ [Next]_vars => Inv'
  BY TypesStep, LockStep, ChildrenStep, MailStep, CodeStep DEF Inv
<1> QED BY InvInit, <1>1, PTL DEF Spec

-----------------------------------------------------------------------------
(* What follows.                                                           *)

\* Two syncs never run at once, but over a killed wrapper.
THEOREM SyncsExclude == Spec => []OneSyncAtATime
<1>1. Inv => OneSyncAtATime
  BY DEF Inv, LockIsHeld, Holding, ChildrenInPlace, OneSyncAtATime
<1> QED BY <1>1, InvAlways, PTL

\* No invocation that is over, however it ended, keeps the next one out.
THEOREM NoLockOfTheDead == Spec => []LockHolderLives
<1>1. Inv => LockHolderLives
  BY DEF Inv, Types, PlacesOK, FlagsOK, LockIsHeld, Holding, LockHolderLives, AtWork, Alive
<1> QED BY <1>1, InvAlways, PTL

\* Every scheduled invocation that comes to its outcome mails that, once.
THEOREM MailTellsTheTruth == Spec => []OneTruthfulEmail
<1>1. Inv => OneTruthfulEmail
  BY DEF Inv, MailAtTheEnd, OneTruthfulEmail
<1> QED BY <1>1, InvAlways, PTL

\* Where the op daemon does not hold the lock, an invocation is skipped only
\* because another one is at work.
THEOREM SkippedForAReason == ASSUME ~OpHoldsLock PROVE Spec => SkippedOnlyIfBusy
<1> DEFINE NotOps == lockOwner # Op
<1>1. Init => NotOps
  BY ConstantsAssumption DEF Init
<1>2. Inv /\ NotOps /\ [Next]_vars => NotOps'
  <2> SUFFICES ASSUME Inv, NotOps, [Next]_vars
               PROVE  NotOps'
    OBVIOUS
  <2> QED BY ConstantsAssumption DEF Next, Step, Over, Outage, LoseLauncher, vars, Start,
            TakeLock, Skip, Kill, LauncherMissing, NotReady, StartSync, SyncEnds, Succeeded,
            Sleep, Wake, GiveUp, Mail, HelperEnds, Conclude, Exit
<1>3. ASSUME Inv, NotOps, Next, NEW w \in Invocations, pc[w] = "lock", pc'[w] = "skipped"
      PROVE  \E v \in Invocations : v # w /\ AtWork(v)
  <2>1. lockOwner # Nobody
    <3>1. ASSUME NEW x \in Invocations, Start(x) \/ Step(x) \/ Kill(x), ~Skip(x)
          PROVE  pc'[w] # "skipped"
      BY <1>3, <3>1 DEF Inv, Types, PlacesOK, FlagsOK, Step, Start, TakeLock, Kill, LauncherMissing, NotReady,
         StartSync, SyncEnds, Succeeded, Sleep, Wake, GiveUp, Mail, HelperEnds, Conclude, Exit, Go
    <3>2. Outage \/ LoseLauncher \/ Over => pc'[w] # "skipped"
      BY <1>3 DEF Outage, LoseLauncher, Over, vars
    <3>3. PICK x \in Invocations : Skip(x)
      BY <1>3, <3>1, <3>2 DEF Next
    <3> QED BY <3>3 DEF Skip
  <2>2. lockOwner \in Invocations
    BY <1>3, <2>1 DEF Inv, Types, PlacesOK, FlagsOK
  <2>3. lockOwner # w
    BY <1>3, <2>2 DEF Inv, LockIsHeld, Holding
  <2>4. AtWork(lockOwner)
    BY <1>3, <2>2 DEF Inv, Types, PlacesOK, FlagsOK, LockIsHeld, Holding, AtWork, Alive
  <2> QED BY <2>2, <2>3, <2>4
<1>4. Inv /\ NotOps /\ [Next]_vars =>
        [\A w \in Invocations :
           pc[w] = "lock" /\ pc'[w] = "skipped" => \E v \in Invocations : v # w /\ AtWork(v)]_vars
  BY <1>3
<1> QED BY <1>1, <1>2, <1>4, InvAlways, PTL DEF Spec, SkippedOnlyIfBusy
=============================================================================
