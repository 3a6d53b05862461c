--------------------------- MODULE ControlChannel ---------------------------
(***************************************************************************)
(* src/client.py, send_cmd_json: the numbers of the commands of a session. *)
(*                                                                         *)
(* All commands of a session are numbered from one counter, _ctrl_seq16.   *)
(* The flow that runs a transfer takes numbers from it, and so do the      *)
(* threads the transfer starts (heartbeats, and for a photo the repetition *)
(* of its request), without a lock and without waiting for the threads of  *)
(* the transfer before.  A command reads the counter for its number, reads *)
(* it again, and writes it back one higher: other commands may come in     *)
(* between, be sent under the same number, or be undone by the write.      *)
(***************************************************************************)
EXTENDS Naturals, Sequences, FiniteSets

CONSTANTS
    MaxTransfers,   \* transfers of a session, at most
    MaxCommands,    \* commands of a session, at most (well below 2^16)
    Flow            \* the main thread

ASSUME CommandsAssumption ==
    /\ MaxTransfers \in Nat \ {0} /\ MaxCommands \in Nat
    /\ Flow \notin (1..MaxTransfers) \X {"beat", "again"}

Kinds == {"list", "photo", "video"}

VARIABLES
    ctrlSeq,        \* _ctrl_seq16
    senders,        \* what each thread is doing: [at, seq, next]
    commands,       \* the commands sent: [seq, by, cmd]
    transfer,       \* the transfer under way or last begun, counted
    kind,           \* its kind
    started,        \* data of the transfer came (saw_download_data)
    stopped,        \* the transfers whose stop_hb is set
    flowAt          \* where the flow is

commandVars == <<ctrlSeq, senders, commands>>
flowVars    == <<transfer, kind, started, stopped, flowAt>>
controlVars == <<commandVars, flowVars>>

Threads == (1..MaxTransfers) \X {"beat", "again"}
Senders == Threads \cup {Flow}

ControlInit ==
    /\ ctrlSeq = 0
    /\ senders = [s \in Senders |-> [at |-> IF s = Flow THEN "idle" ELSE "none", seq |-> 0, next |-> 0]]
    /\ commands = <<>>
    /\ transfer = 0 /\ kind = "list"
    /\ started = FALSE
    /\ stopped = {}
    /\ flowAt = "between"

-----------------------------------------------------------------------------
(* send_cmd_json.                                                          *)

Goes(s, from, to) == senders[s].at = from /\ senders' = [senders EXCEPT ![s].at = to]

\* seq16 = self._ctrl_seq16
Take(s) ==
    /\ Len(commands) + Cardinality({u \in Senders : senders[u].at \in {"taken", "loaded"}}) < MaxCommands
    /\ senders[s].at = "ready"
    /\ senders' = [senders EXCEPT ![s] = [at |-> "taken", seq |-> ctrlSeq, next |-> 0]]
    /\ UNCHANGED <<ctrlSeq, commands, flowVars>>

\* self._ctrl_seq16 + 1
Load(s) ==
    /\ senders[s].at = "taken"
    /\ senders' = [senders EXCEPT ![s].at = "loaded", ![s].next = ctrlSeq + 1]
    /\ UNCHANGED <<ctrlSeq, commands, flowVars>>

Command(s) ==
    IF s = Flow THEN flowAt
    ELSE IF s[2] = "beat" THEN "beat" ELSE "again"

\* self._ctrl_seq16 = ..., and the command goes out.
Store(s) ==
    /\ senders[s].at = "loaded"
    /\ senders' = [senders EXCEPT ![s] = [at |-> "idle", seq |-> 0, next |-> 0]]
    /\ ctrlSeq' = senders[s].next
    /\ commands' = Append(commands, [seq |-> senders[s].seq, by |-> s, cmd |-> Command(s)])
    /\ UNCHANGED flowVars

-----------------------------------------------------------------------------
(* The threads of a transfer.                                              *)

SentBy(t) == Cardinality({n \in 1..Len(commands) : commands[n].by = t})

\* hb_loop goes on for ever; req_resend_loop has two chances, and takes none
\* once data came.
Decide(t) ==
    /\ t[1] \notin stopped
    /\ t[2] = "again" => ~started /\ SentBy(t) < 2
    /\ Goes(t, "idle", "ready")
    /\ UNCHANGED <<ctrlSeq, commands, flowVars>>

\* stop_hb is looked at between two commands only.
Leave(t) ==
    /\ t[1] \in stopped \/ t[2] = "again"
    /\ Goes(t, "idle", "gone")
    /\ UNCHANGED <<ctrlSeq, commands, flowVars>>

\* The threads of transfer k and kind c start; a photo has both.
Start(k, c, snd) ==
    [s \in Senders |->
        IF s \in {<<k, "beat">>} \cup (IF c = "photo" THEN {<<k, "again">>} ELSE {})
          THEN [snd[s] EXCEPT !.at = "idle"] ELSE snd[s]]

-----------------------------------------------------------------------------
(* The flows.                                                              *)

\* A listing starts its heartbeat and sends its commands at once, a download
\* drains the socket first.
Begin(c) ==
    /\ flowAt = "between"
    /\ transfer < MaxTransfers
    /\ transfer' = transfer + 1
    /\ kind' = c
    /\ started' = FALSE
    /\ senders' = IF c = "list" THEN Start(transfer + 1, c, senders) ELSE senders
    /\ flowAt' = IF c = "list" THEN "listing" ELSE "drain"
    /\ UNCHANGED <<ctrlSeq, commands, stopped>>

\* Mutant: the drain may be over while a thread is still sending.
DrainedAnyway == TRUE

\* drain_inbound takes at least 0.2 s: a thread that was told to stop has sent
\* the command it was at, and ends.
Drained == \A t \in Threads : senders[t].at \in {"none", "gone"}

\* The first request: send_download_req, or start_req of a video.
Request ==
    /\ flowAt = "drain" /\ Drained
    /\ flowAt' = "request"
    /\ senders' = [senders EXCEPT ![Flow].at = "ready"]
    /\ UNCHANGED <<ctrlSeq, commands, transfer, kind, started, stopped>>

\* The request is out: the threads start, and the flow listens.
Listen ==
    /\ flowAt = "request" /\ senders[Flow].at = "idle"
    /\ flowAt' = "listening"
    /\ senders' = Start(transfer, kind, senders)
    /\ UNCHANGED <<ctrlSeq, commands, transfer, kind, started, stopped>>

Data ==
    /\ flowAt = "listening" /\ ~started
    /\ started' = TRUE
    /\ UNCHANGED <<commandVars, transfer, kind, stopped, flowAt>>

\* dev_info and media_list, repeated for each attempt.
ListCommand ==
    /\ flowAt = "listing"
    /\ Goes(Flow, "idle", "ready")
    /\ UNCHANGED <<ctrlSeq, commands, flowVars>>

\* A video is stopped by a command while its heartbeat still runs.
StopVideo ==
    /\ flowAt = "listening" /\ kind = "video"
    /\ flowAt' = "stopping"
    /\ Goes(Flow, "idle", "ready")
    /\ UNCHANGED <<ctrlSeq, commands, transfer, kind, started, stopped>>

\* stop_hb.set(), and the next transfer may begin: nobody waits for the threads.
End ==
    /\ \/ flowAt \in {"listing", "stopping"}
       \/ flowAt = "listening" /\ kind = "photo"
    /\ senders[Flow].at = "idle"
    /\ stopped' = stopped \cup {transfer}
    /\ flowAt' = "between"
    /\ UNCHANGED <<commandVars, transfer, kind, started>>

\* No more transfers, or the bound on commands is reached.
ControlFinished ==
    /\ (flowAt = "between" /\ transfer = MaxTransfers) \/ Len(commands) = MaxCommands
    /\ UNCHANGED controlVars

-----------------------------------------------------------------------------
ControlNext ==
    \/ \E s \in Senders : Take(s) \/ Load(s) \/ Store(s)
    \/ \E t \in Threads : Decide(t) \/ Leave(t)
    \/ \E c \in Kinds : Begin(c)
    \/ Request \/ Listen \/ Data \/ ListCommand \/ StopVideo \/ End \/ ControlFinished

ControlSpec == ControlInit /\ [][ControlNext]_controlVars

-----------------------------------------------------------------------------
ControlTypeOK ==
    /\ ctrlSeq \in 0..MaxCommands
    /\ senders \in [Senders -> [at : {"none", "idle", "ready", "taken", "loaded", "gone"},
                                seq : 0..MaxCommands, next : 0..MaxCommands]]
    /\ \A n \in 1..Len(commands) : commands[n].seq \in 0..MaxCommands
    /\ transfer \in 0..MaxTransfers /\ kind \in Kinds
    /\ started \in BOOLEAN /\ stopped \subseteq 1..MaxTransfers
    /\ flowAt \in {"between", "listing", "drain", "request", "listening", "stopping"}

\* What goes out after the first request of a download has a higher number, from
\* whatever thread it comes, and the counter never falls back to the request's: a
\* camera that drops repeated or older numbers drops nothing for that request, and
\* no two first requests share a number.  The request itself may repeat the number
\* of a heartbeat of an earlier transfer, whose late write sets the counter back.
LaterGoBeyond ==
    \A i \in 1..Len(commands) :
        commands[i].cmd = "request" =>
            /\ ctrlSeq > commands[i].seq
            /\ \A j \in 1..Len(commands) : i < j => commands[j].seq > commands[i].seq
=============================================================================
