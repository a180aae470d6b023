------------------------------ MODULE Gateway ------------------------------
(***************************************************************************)
(* The chat gateway: one daemon thread, with the single-task flow of       *)
(* ChatTask and, besides, the new-project flow: a chat starts a run, is    *)
(* linked to it, hears of its gates and its end, and answers the gates.    *)
(* How a run gets from one status to the next is RunLifecycle; here it is  *)
(* something the daemon watches.                                           *)
(***************************************************************************)
EXTENDS ChatTask, Sequences

CONSTANTS
    Run,      \* ids of the runs of one project name, in no order
    MaxMove   \* bound: status changes of the runs

ASSUME IdAssumption   == None \notin Chat \union Run
ASSUME MoveAssumption == MaxMove \in Nat

VARIABLES
    run,      \* runs.status, or "none"
    newest,   \* the run that SELECT ... ORDER BY created_at DESC LIMIT 1 finds
    starts,   \* start processes spawned and not yet at the INSERT
    resumes,  \* resume-gate2 processes: <<run, decision>>
    waiting,  \* pending_run_links: the chat that waits for the project's run
    link,     \* run_links: the chat of each run
    links,    \* the linked runs, oldest row first
    notified, \* run_notifications
    pushes,   \* history: messages sent, for each run and status
    moves     \* the counter of the bound

runVars == <<run, newest, starts, resumes, waiting, link, links, notified,
             pushes, moves>>
vars    == <<taskVars, runVars>>

Gate == {"PAUSED_AT_GATE_1", "PAUSED_AT_GATE_2"}
Over == {"COMPLETED", "FAILED"}   \* ABORTED is treated like FAILED
Announced == Gate \union Over
RunStatus == {"none", "RUNNING"} \union Announced

TypeOK ==
    /\ TaskTypeOK
    /\ daemon \in Daemons
           \union [kind : {"link"}, chat : Chat]
           \union [kind : {"mark"}, run : Run, status : Announced]
    /\ run \in [Run -> RunStatus] /\ newest \in {None} \union Run
    /\ starts \in 0..MaxSay
    /\ resumes \subseteq Run \X {"approve", "reject"}
    /\ waiting \in {None} \union Chat
    /\ link \in [Run -> {None} \union Chat]
    /\ {links[i] : i \in DOMAIN links} = {r \in Run : link[r] # None}
    /\ notified \subseteq Run \X Announced
    /\ pushes \in [Run \X Announced -> 0..1 + MaxFault]
    /\ moves \in 0..MaxMove

Init ==
    /\ TaskInit
    /\ run = [r \in Run |-> "none"] /\ newest = None
    /\ starts = 0 /\ resumes = {} /\ waiting = None
    /\ link = [r \in Run |-> None] /\ links = <<>>
    /\ notified = {} /\ pushes = [m \in Run \X Announced |-> 0]
    /\ moves = 0

-----------------------------------------------------------------------------
(* Starting a project.                                                     *)

\* dev_newproject_start spawns `start`, which will INSERT the run.
DevNewProjectStart(c) ==
    /\ Said(c)
    /\ starts' = starts + 1
    /\ daemon' = [kind |-> "link", chat |-> c]
    /\ UNCHANGED <<rec, spec, plan, exec, job, web, faults, reached,
                   run, newest, resumes, waiting, link, links, notified,
                   pushes, moves>>

\* RunLinkStore.link and resolve_pending: one row per run, the last chat wins.
LinkRun(r, c) ==
    /\ link' = [link EXCEPT ![r] = c]
    /\ links' = IF link[r] = None THEN Append(links, r) ELSE links

\* The project's newest run is linked, be it one of an earlier start; without
\* a run the chat is put down as waiting, in the place of another one.
LinkOrWait ==
    /\ daemon.kind = "link"
    /\ IF newest # None
         THEN LinkRun(newest, daemon.chat) /\ UNCHANGED waiting
         ELSE waiting' = daemon.chat /\ UNCHANGED <<link, links>>
    /\ daemon' = None
    /\ UNCHANGED <<rec, spec, plan, exec, job, said, web, faults, reached,
                   run, newest, starts, resumes, notified, pushes, moves>>

\* start_project has INSERTed the run.
RunBegins(r) ==
    /\ starts > 0 /\ run[r] = "none"
    /\ starts' = starts - 1
    /\ run' = [run EXCEPT ![r] = "RUNNING"]
    /\ newest' = r
    /\ UNCHANGED <<taskVars, resumes, waiting, link, links, notified, pushes,
                   moves>>

\* The phases, the web UI and the CLI move the run on: see RunLifecycle.
RunMoves(r) ==
    /\ run[r] # "none" /\ moves < MaxMove
    /\ moves' = moves + 1
    /\ \E s \in RunStatus \ {"none", run[r]} : run' = [run EXCEPT ![r] = s]
    /\ UNCHANGED <<taskVars, newest, starts, resumes, waiting, link, links,
                   notified, pushes>>

-----------------------------------------------------------------------------
(* The daemon's watcher of runs.                                           *)

\* RunStatusWatcher.check_once, step 1.
ResolvePending ==
    /\ daemon = None
    /\ waiting # None /\ newest # None
    /\ LinkRun(newest, waiting)
    /\ waiting' = None
    /\ UNCHANGED <<taskVars, run, newest, starts, resumes, notified, pushes,
                   moves>>

\* Seeded fault: one message, and the link is done with.
ActiveOnce(r) == link[r] # None /\ \A s \in Announced : <<r, s>> \notin notified

Active(r) == link[r] # None /\ \A s \in Over : <<r, s>> \notin notified

\* Seeded fault: what was announced is not looked up.
NotifyAgain(r) ==
    /\ daemon = None
    /\ Active(r)
    /\ run[r] \in Announced
    /\ pushes' = [pushes EXCEPT ![<<r, run[r]>>] = @ + 1]
    /\ daemon' = [kind |-> "mark", run |-> r, status |-> run[r]]
    /\ UNCHANGED <<rec, spec, plan, exec, job, said, web, faults, reached,
                   run, newest, starts, resumes, waiting, link, links,
                   notified, moves>>

\* RunStatusWatcher._check_link: the message goes out before it is noted.
NotifySweep(r) ==
    /\ daemon = None
    /\ Active(r)
    /\ run[r] \in Announced /\ <<r, run[r]>> \notin notified
    /\ pushes' = [pushes EXCEPT ![<<r, run[r]>>] = @ + 1]
    /\ daemon' = [kind |-> "mark", run |-> r, status |-> run[r]]
    /\ UNCHANGED <<rec, spec, plan, exec, job, said, web, faults, reached,
                   run, newest, starts, resumes, waiting, link, links,
                   notified, moves>>

\* RunLinkStore.mark_notified.
MarkNotified ==
    /\ daemon.kind = "mark"
    /\ notified' = notified \union {<<daemon.run, daemon.status>>}
    /\ daemon' = None
    /\ UNCHANGED <<rec, spec, plan, exec, job, said, web, faults, reached,
                   run, newest, starts, resumes, waiting, link, links,
                   pushes, moves>>

-----------------------------------------------------------------------------
(* Answering a run's gates.  A pending coding task takes the answer first. *)

\* RunLinkStore.latest_for_chat.
Latest(c) ==
    LET last == {i \in DOMAIN links :
                    /\ link[links[i]] = c
                    /\ \A j \in DOMAIN links : j > i => link[links[j]] # c}
    IN  IF last = {} THEN None ELSE links[CHOOSE i \in last : TRUE]

\* Gate 1, `approve all` or `confirm` with nothing unresolved: finalized here
\* and now, then Phase B is spawned.
AnswerGate1(c) ==
    /\ Said(c)
    /\ rec[c] = None /\ Latest(c) # None
    /\ run[Latest(c)] = "PAUSED_AT_GATE_1"
    /\ run' = [run EXCEPT ![Latest(c)] = "RUNNING"]
    /\ UNCHANGED <<rec, spec, plan, exec, job, daemon, web, faults, reached,
                   newest, starts, resumes, waiting, link, links,
                   notified, pushes, moves>>

\* Gate 2: the decision is left to a process.
AnswerGate2(c) ==
    /\ Said(c)
    /\ rec[c] = None /\ Latest(c) # None
    /\ run[Latest(c)] = "PAUSED_AT_GATE_2"
    /\ \E d \in {"approve", "reject"} :
        resumes' = resumes \union {<<Latest(c), d>>}
    /\ UNCHANGED <<rec, spec, plan, exec, job, daemon, web, faults, reached,
                   run, newest, starts, waiting, link, links, notified,
                   pushes, moves>>

\* run_phase_b_resume on a run that is no longer at the gate does nothing.
ResumeGate2 ==
    /\ \E x \in resumes :
        /\ resumes' = resumes \ {x}
        /\ run' = IF run[x[1]] # "PAUSED_AT_GATE_2" THEN run
                  ELSE [run EXCEPT ![x[1]] = IF x[2] = "approve"
                                             THEN "RUNNING" ELSE "FAILED"]
    /\ UNCHANGED <<taskVars, newest, starts, waiting, link, links, notified,
                   pushes, moves>>

-----------------------------------------------------------------------------
RunNext ==
    \/ \E c \in Chat : \/ DevNewProjectStart(c)
                       \/ AnswerGate1(c) \/ AnswerGate2(c)
    \/ \E r \in Run : RunBegins(r) \/ RunMoves(r) \/ NotifySweep(r)
    \/ LinkOrWait \/ ResolvePending \/ MarkNotified \/ ResumeGate2

Next == (TaskNext /\ UNCHANGED runVars) \/ RunNext

Spec == Init /\ [][Next]_vars

\* GatewayDaemon.run sweeps after every batch of messages, and a tool call that
\* has begun goes on.  What people type, when a run moves and how long a worker
\* takes is nobody's duty.
FairSpec ==
    /\ Spec
    /\ WF_vars((WriteRec \/ WriteApproval \/ SpawnExec) /\ UNCHANGED runVars)
    /\ WF_vars(LinkOrWait) /\ WF_vars(MarkNotified)
    /\ \A r \in Run : WF_vars(NotifySweep(r))
    /\ WF_vars(ResolvePending)

-----------------------------------------------------------------------------
(* Properties.                                                             *)

\* Notifier (notifier.py, run_links.py): a status of a run is announced a
\* second time only after a crash between the message and the note of it.
AnnouncedOnce ==
    \A r \in Run, s \in Announced : pushes[<<r, s>>] <= 1 + faults

\* A linked run that stays at a gate, or ended, is announced, unless an
\* earlier end of it already was: RunLinkStore.active drops such links.
RunIsAnnounced ==
    \A r \in Run, s \in Announced :
        (link[r] # None /\ run[r] = s)
        ~> \/ run[r] # s
           \/ \E o \in Over \union {s} : <<r, o>> \in notified
=============================================================================
