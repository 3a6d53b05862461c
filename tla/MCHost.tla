------------------------------- MODULE MCHost -------------------------------
(***************************************************************************)
(* What surrounds a run on the host, for TLC, side by side: a behaviour is *)
(* one of RunSync, the wrapper, or of Session, the connections, as part    *)
(* says, and leaves the other one alone.  Each keeps its own fairness.     *)
(***************************************************************************)
EXTENDS MCRunSync, Session

VARIABLE part

HostInit ==
    /\ part \in {"wrapper", "session"}
    /\ Init /\ SessionInit
    /\ part # "wrapper" => mounted
    /\ part # "session" => target["sync"] = target["runner"]

hostVars == <<vars, sessionVars, part>>

InWrapper(A) == part = "wrapper" /\ A /\ UNCHANGED <<sessionVars, part>>
InSession(A) == part = "session" /\ A /\ UNCHANGED <<vars, part>>

HostNext ==
    /\ UNCHANGED part
    /\ \/ part = "wrapper" /\ Next /\ UNCHANGED sessionVars
       \/ part = "session" /\ SessionNext /\ UNCHANGED vars

\* As in RunSync!FairSpec and Session!SessionFairness.
WrapperFairness == \A w \in Invocations : WF_hostVars(InWrapper(Step(w)))

ConnectionFairness ==
    /\ \A p \in Programs : WF_hostVars(InSession(ProgramStep(p) \/ JoinFails(p)))
    /\ WF_hostVars(InSession(\E c \in Cameras : Begin("sync", c)))
    /\ WF_hostVars(InSession(Close \/ Clean)) /\ WF_hostVars(InSession(RunnerEnds))
    /\ WF_hostVars(InSession(Drop))

HostSpec == HostInit /\ [][HostNext]_hostVars /\ WrapperFairness /\ ConnectionFairness
=============================================================================
