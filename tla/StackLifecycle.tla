--------------------------- MODULE StackLifecycle ---------------------------
(* The launcher of the local stack (hubu stack render, activate, rollback,    *)
(* start and stop): generations of configuration rendered from the operator's *)
(* sources, the active one, the servers that run, and the ownership record    *)
(* that says which of them the launcher may stop.                             *)
(*                                                                            *)
(* Commands hold the lifecycle lock, so one runs at a time; each may be killed*)
(* between any two of its effects.  Servers start, hang and exit on their own *)
(* and the operator edits the sources at any time.                            *)
EXTENDS FiniteSets

CONSTANTS
  Procs,    \* process identities: a process id together with its start time
  Sources,  \* versions of the source files; each renders to one generation
  Managed,  \* Managed[g]: the components that g has the launcher run
  Port,     \* Port[g][c]: where component c listens under g
  None

Components == {"hubu", "gongbu"}

\* What the record says of a process.
Owned == [p : Procs, exec : BOOLEAN, gen : Sources]

ASSUME StackAssumption ==
  /\ IsFiniteSet(Procs)
  /\ Managed \in [Sources -> SUBSET Components]
  /\ DOMAIN Port = Sources /\ \A g \in Sources : DOMAIN Port[g] = Components
  /\ None \notin Procs \cup Sources \cup Owned

VARIABLES
  source,    \* stack.toml, credentials.toml and providers.toml
  active,    \* generated/active-manifest.json
  staged,    \* generated/generations: "none", "partial" or "complete"
  record,    \* runtime/launcher-state.json, absent when it has no process
  proc,      \* the processes
  external,  \* whether an external component answers
  cmd,       \* the command that holds lifecycle.lock
  orphaned   \* a live server has lost its record: a launcher was killed, a
             \* rollback's signal failed, an operator forgot a live process, or
             \* stop could not see that it lives

config == <<source, active, staged>>
vars == <<config, record, proc, external, cmd, orphaned>>

Alive == {"starting", "serving", "hung"}
Listening == {"serving", "hung"}
NoProcess == [status |-> "dead", comp |-> "hubu", gen |-> None, exec |-> FALSE]
Stranger == [NoProcess EXCEPT !.status = "reused"]
NoOwned == [c \in Components |-> None]
Idle == [op |-> "none", pc |-> "idle", comp |-> "hubu", src |-> None, gen |-> None,
         mem |-> NoOwned, started |-> {}]

Init ==
  /\ source \in Sources
  /\ active = None
  /\ staged = [g \in Sources |-> "none"]
  /\ record = NoOwned
  /\ proc = [p \in Procs |-> NoProcess]
  /\ external = [c \in Components |-> TRUE]
  /\ cmd = Idle
  /\ orphaned = FALSE

\* The processes a runtime state names.
Tracked(m) == {m[c].p : c \in {d \in Components : m[d] # None}}

-----------------------------------------------------------------------------
(* What a command can find out.                                              *)

\* A record names a process by its identity: start time and command line.  The
\* command line changes when a wrapper executes the server.  Of the processes in
\* blind, ps has nothing to say because it cannot run, fails or prints too much
\* (process_identity); that is taken for an exit.
recorded_process_state(r, blind) ==
  CASE r.p \in blind \/ proc[r.p].status = "dead" -> "exited"
    [] proc[r.p].status \in Alive /\ proc[r.p].exec = r.exec -> "running"
    [] OTHER -> "identity_mismatch"

Listens(port) ==
  \E p \in Procs : /\ proc[p].status \in Listening
                   /\ Port[proc[p].gen][proc[p].comp] = port

\* doctor: the active generation was rendered from the present sources.
inspect_active_generation == source = active

\* doctor: a component is only probed when the active generation is current.
component_ready(c) ==
  /\ inspect_active_generation
  /\ IF c \in Managed[source]
     THEN \E p \in Procs : /\ proc[p].status = "serving"
                           /\ proc[p].comp = c
                           /\ Port[proc[p].gen][c] = Port[source][c]
     ELSE external[c]

ReadyAmong(cs) == \A c \in cs : component_ready(c)

\* Variant: only the endpoints are asked.
EndpointsQuiet ==
  \A g \in {source, active} \ {None} : \A c \in Managed[g] : ~Listens(Port[g][c])

ensure_profile_stopped ==
  /\ record = NoOwned
  /\ \A g \in {source, active} \ {None} : \A c \in Managed[g] : ~Listens(Port[g][c])

refuse_identity_mismatches(mem, blind) ==
  \A c \in Components :
    mem[c] # None => recorded_process_state(mem[c], blind) # "identity_mismatch"

refuse_partial_or_unhealthy_stack(mem, blind) ==
  /\ \A c \in Managed[source] : mem[c] = None => ~component_ready(c)
  /\ mem # NoOwned =>
       \A c \in Managed[source] : /\ component_ready(c)
                                  /\ recorded_process_state(mem[c], blind) = "running"

required_restart_plan(mem) ==
  {c \in Components : mem[c] # None /\ (c \notin Managed[source] \/ mem[c].gen # active)}

validate_start_prerequisites ==
  "gongbu" \in Managed[source] /\ "hubu" \notin Managed[source] => component_ready("hubu")

-----------------------------------------------------------------------------
(* Commands                                                                  *)

At(pc) == cmd.pc = pc
Goto(pc) == cmd' = [cmd EXCEPT !.pc = pc]
End == cmd' = Idle

\* forget is stop --forget-stale; activate is also rollback, which differs from
\* it only in refusing the generation that is active.
Ops == {"render", "activate", "start", "stop", "forget"}

acquire_lifecycle_lock(op) ==
  /\ cmd = Idle
  /\ cmd' = IF op \in {"stop", "forget"}
            THEN [Idle EXCEPT !.op = op, !.pc = "stop", !.comp = "gongbu", !.mem = record]
            ELSE [Idle EXCEPT !.op = op, !.pc = "render"]
  /\ UNCHANGED <<config, record, proc, external, orphaned>>

\* Where a command goes on once its generation is active, or only staged.
WhenActive == CASE cmd.op = "start" -> "check"
                [] cmd.op = "activate" -> "ensure"
                [] OTHER -> "done"
WhenStaged == IF cmd.op = "activate" THEN "ensure" ELSE "done"

\* Variant: a staged generation is always rendered anew.
RenderAnew ==
  /\ At("render")
  /\ staged' = [staged EXCEPT ![source] = "partial"]
  /\ cmd' = [cmd EXCEPT !.gen = source, !.pc = "write"]
  /\ UNCHANGED <<source, active, record, proc, external, orphaned>>

\* render_profile_with_renderer_outcome up to the point where files are
\* written: the active and a complete generation are verified and kept, an
\* incomplete one is discarded.
render_profile ==
  /\ At("render")
  /\ IF active = source \/ staged[source] = "complete"
     THEN /\ cmd' = [cmd EXCEPT !.gen = source,
                                !.pc = IF active = source THEN WhenActive ELSE WhenStaged]
          /\ UNCHANGED staged
     ELSE /\ staged' = [staged EXCEPT ![source] = "partial"]
          /\ cmd' = [cmd EXCEPT !.gen = source, !.pc = "write"]
  /\ UNCHANGED <<source, active, record, proc, external, orphaned>>

\* The generation's files and then its manifest are written, or it is removed.
render_generation(ok) ==
  /\ At("write")
  /\ staged' = [staged EXCEPT ![cmd.gen] = IF ok THEN "complete" ELSE "none"]
  /\ IF ok THEN Goto(IF active = None THEN "ensure" ELSE WhenStaged) ELSE End
  /\ UNCHANGED <<source, active, record, proc, external, orphaned>>

EnsureStopped ==
  /\ At("ensure")
  /\ IF ensure_profile_stopped THEN Goto("activate") ELSE End
  /\ UNCHANGED <<config, record, proc, external, orphaned>>

activate_manifest ==
  /\ At("activate")
  /\ active' = cmd.gen
  /\ IF cmd.op = "start" THEN Goto("check") ELSE End
  /\ UNCHANGED <<source, staged, record, proc, external, orphaned>>

Done ==
  /\ At("done")
  /\ End
  /\ UNCHANGED <<config, record, proc, external, orphaned>>

-----------------------------------------------------------------------------
(* start                                                                     *)

\* prepare_startable_profile: the second doctor report.
CheckStartable ==
  /\ At("check")
  /\ IF inspect_active_generation THEN Goto("plan") ELSE End
  /\ UNCHANGED <<config, record, proc, external, orphaned>>

\* start_profile and the prerequisites of start_missing_components.
start_profile(blind) ==
  /\ At("plan")
  /\ IF /\ refuse_identity_mismatches(record, blind)
        /\ refuse_partial_or_unhealthy_stack(record, blind)
        /\ required_restart_plan(record) = {}
        /\ validate_start_prerequisites
     THEN cmd' = [cmd EXCEPT !.pc = "spawn", !.comp = "hubu", !.src = source,
                             !.gen = active, !.mem = record]
     ELSE End
  /\ UNCHANGED <<config, record, proc, external, orphaned>>

NextStart(c, command) ==
  IF c = "hubu" THEN [command EXCEPT !.comp = "gongbu", !.pc = "spawn"]
  ELSE [command EXCEPT !.pc = "final"]

Free == {p \in Procs : proc[p].status \notin Alive} \ (Tracked(record) \cup Tracked(cmd.mem))

\* A component that is ready or not the launcher's is passed over.  Gongbu waits
\* for Hubu; a component with a record is not started twice.
\* A child whose identity ps does not give is terminated like one whose record
\* cannot be saved: Error, then rollback.
spawn_component ==
  LET c == cmd.comp
  IN  /\ At("spawn")
      /\ IF c \notin Managed[cmd.src] \/ component_ready(c)
         THEN cmd' = NextStart(c, cmd) /\ UNCHANGED proc
         ELSE IF /\ cmd.mem[c] = None
                 /\ c = "gongbu" => component_ready("hubu")
                 /\ c \in Managed[cmd.gen]
         THEN LET p == CHOOSE q \in Free : TRUE  \* identities are interchangeable
              IN  /\ Free # {}
                  /\ proc' = [proc EXCEPT ![p] = [status |-> "starting", comp |-> c,
                                                  gen |-> cmd.gen, exec |-> FALSE]]
                  /\ cmd' = [cmd EXCEPT !.pc = "save",
                                        !.mem[c] = [p |-> p, exec |-> FALSE, gen |-> cmd.gen],
                                        !.started = @ \cup {c}]
         ELSE Goto("rollback") /\ UNCHANGED proc
      /\ UNCHANGED <<config, record, external, orphaned>>

write_runtime_state ==
  /\ At("save")
  /\ record' = cmd.mem
  /\ Goto("wait")
  /\ UNCHANGED <<config, proc, external, orphaned>>

\* The component answers, whichever process it is that does.  The identity of
\* the child is read again and stored (refresh_started_identity).
wait_for_component ==
  LET c == cmd.comp
      mem == [cmd.mem EXCEPT ![c].exec = proc[cmd.mem[c].p].exec]
  IN  /\ At("wait")
      /\ \/ /\ component_ready(c)
            /\ record' = mem
            /\ cmd' = NextStart(c, [cmd EXCEPT !.mem = mem])
         \/ /\ ~component_ready(c)
            /\ proc[cmd.mem[c].p].status \notin Alive
            /\ Goto("rollback")
            /\ UNCHANGED record
      /\ UNCHANGED <<config, proc, external, orphaned>>

\* The startup timeout ends; early while the server answers or may come to.
WaitTimesOut(early) ==
  /\ At("wait")
  /\ early = (\/ component_ready(cmd.comp)
              \/ inspect_active_generation /\ proc[cmd.mem[cmd.comp].p].status = "starting")
  /\ Goto("rollback")
  /\ UNCHANGED <<config, record, proc, external, orphaned>>

\* A stack that only lacks an external component is left running.
FinalReport ==
  /\ At("final")
  /\ IF \/ ReadyAmong(Components)
        \/ Managed[cmd.src] # {} /\ ReadyAmong(Managed[cmd.src])
     THEN End
     ELSE Goto("rollback")
  /\ UNCHANGED <<config, record, proc, external, orphaned>>

\* Variant: the record is cleared without terminating the child.
ForgetStarted(signalled) ==
  /\ At("rollback")
  /\ record' = [c \in Components |-> IF c \in cmd.started THEN None ELSE cmd.mem[c]]
  /\ End
  /\ UNCHANGED <<config, proc, external, orphaned>>

\* The children are terminated, the last one first, and taken out of the record;
\* then it is written.  Errors of the signals and of the write are ignored.
rollback_started_processes(signalled) ==
  /\ At("rollback")
  /\ IF cmd.started = {}
     THEN /\ record' \in {cmd.mem, record}
          /\ End
          /\ UNCHANGED <<proc, orphaned>>
     ELSE LET c == IF "gongbu" \in cmd.started THEN "gongbu" ELSE "hubu"
              p == cmd.mem[c].p
          IN  /\ proc' = [proc EXCEPT ![p] = IF signalled /\ @ # Stranger THEN NoProcess ELSE @]
              /\ orphaned' = (orphaned \/ (~signalled /\ proc[p].status \in Alive))
              /\ cmd' = [cmd EXCEPT !.mem[c] = None, !.started = @ \ {c}]
              /\ UNCHANGED record
  /\ UNCHANGED <<config, external>>

-----------------------------------------------------------------------------
(* stop                                                                      *)

NextStop(c, command) ==
  IF c = "gongbu" THEN [command EXCEPT !.comp = "hubu", !.pc = "stop"]
  ELSE [command EXCEPT !.pc = "done"]

\* The process is no longer in the record, whatever became of it.
Removed(c) ==
  LET p == cmd.mem[c].p
  IN  /\ record' = [cmd.mem EXCEPT ![c] = None]
      /\ cmd' = NextStop(c, [cmd EXCEPT !.mem[c] = None])
      /\ proc' = [proc EXCEPT ![p] = IF @ = Stranger THEN NoProcess ELSE @]
      /\ orphaned' = (orphaned \/ proc[p].status \in Alive)

\* Variant: the record of a process that exited is left alone.
StopRunningOnly(blind) ==
  LET c == cmd.comp
  IN  /\ At("stop")
      /\ IF cmd.mem[c] # None /\ recorded_process_state(cmd.mem[c], blind) = "running"
         THEN Goto("term")
         ELSE cmd' = NextStop(c, cmd)
      /\ UNCHANGED <<config, record, proc, external, orphaned>>

\* Gongbu comes before Hubu.  Only a process whose identity is the recorded one
\* is signalled: TERM, after which it may exit or stay.  The identity is compared
\* twice; a second answer that differs ends the command, as Error does.
stop_components(blind) ==
  LET c == cmd.comp
      r == cmd.mem[c]
      state == IF r = None THEN "none" ELSE recorded_process_state(r, blind)
  IN  /\ At("stop")
      /\ CASE state = "none" \/ (state = "identity_mismatch" /\ cmd.op = "stop") ->
                cmd' = NextStop(c, cmd) /\ UNCHANGED <<record, proc, orphaned>>
           [] state = "exited" \/ (state = "identity_mismatch" /\ cmd.op = "forget") ->
                Removed(c)
           [] state = "running" ->
                Goto("term") /\ UNCHANGED <<record, proc, orphaned>>
      /\ UNCHANGED <<config, external>>

\* Variant: the record goes once the signal is sent.
RemoveOnceSignalled(blind) ==
  /\ At("term")
  /\ record' = [cmd.mem EXCEPT ![cmd.comp] = None]
  /\ cmd' = NextStop(cmd.comp, [cmd EXCEPT !.mem[cmd.comp] = None])
  /\ UNCHANGED <<config, proc, external, orphaned>>

\* stop_owned_process waits until it no longer sees the process run, under the
\* recorded identity, and kills its group when the grace period ends before that.
stop_owned_process(blind) ==
  LET c == cmd.comp
      r == cmd.mem[c]
  IN  /\ At("term")
      /\ IF recorded_process_state(r, blind) = "running"
         THEN /\ proc' = [proc EXCEPT ![r.p] = NoProcess]
              /\ UNCHANGED <<record, cmd, orphaned>>
         ELSE Removed(c)
      /\ UNCHANGED <<config, external>>

-----------------------------------------------------------------------------
(* Failures and the surroundings                                             *)

\* A command meets an error: a file that cannot be written, a validator, a
\* child or a signal that fails.  start rolls back what it started.
Error ==
  /\ cmd # Idle
  /\ ~At("rollback")
  /\ IF At("spawn") \/ At("save") \/ At("wait") THEN Goto("rollback") ELSE End
  /\ UNCHANGED <<config, record, proc, external, orphaned>>

\* The launcher is killed; the kernel releases its lock.  A child that is not
\* yet in the record is nobody's from now on.
Killed ==
  /\ cmd # Idle
  /\ End
  /\ orphaned' = (\/ orphaned
                  \/ \E c \in cmd.started : /\ record[c] # cmd.mem[c]
                                           /\ proc[cmd.mem[c].p].status \in Alive)
  /\ UNCHANGED <<config, record, proc, external>>

Becomes(p, new) ==
  /\ proc' = [proc EXCEPT ![p] = new]
  /\ UNCHANGED <<config, record, external, cmd, orphaned>>

\* A server listens, or exits because its port is taken.
Listen(p) ==
  /\ proc[p].status = "starting"
  /\ Becomes(p, IF Listens(Port[proc[p].gen][proc[p].comp]) THEN NoProcess
                ELSE [proc[p] EXCEPT !.status = "serving"])

\* A wrapper executes the server.
Exec(p) ==
  /\ proc[p].status = "starting"
  /\ ~proc[p].exec
  /\ Becomes(p, [proc[p] EXCEPT !.exec = TRUE])

Hang(p) == proc[p].status = "serving" /\ Becomes(p, [proc[p] EXCEPT !.status = "hung"])
Exit(p) == proc[p].status \in Alive /\ Becomes(p, NoProcess)

\* The process id of a recorded process that exited goes to a stranger.
Reuse(p) ==
  /\ proc[p] = NoProcess
  /\ p \in Tracked(record)
  /\ Becomes(p, Stranger)

EditSource ==
  /\ source' \in Sources \ {source}
  /\ UNCHANGED <<active, staged, record, proc, external, cmd, orphaned>>

ExternalChanges ==
  /\ \E c \in UNION {Components \ Managed[g] : g \in Sources} :
       external' = [external EXCEPT ![c] = ~@]
  /\ UNCHANGED <<config, record, proc, cmd, orphaned>>

Step ==
  \/ render_profile \/ render_generation(TRUE) \/ EnsureStopped \/ activate_manifest \/ Done
  \/ CheckStartable \/ start_profile({}) \/ spawn_component \/ write_runtime_state
  \/ wait_for_component \/ WaitTimesOut(FALSE) \/ FinalReport \/ rollback_started_processes(TRUE)
  \/ stop_components({}) \/ stop_owned_process({})

Fault ==
  \/ Error \/ render_generation(FALSE) \/ WaitTimesOut(TRUE) \/ rollback_started_processes(FALSE)
  \/ Killed \/ EditSource \/ ExternalChanges
  \/ \E blind \in SUBSET Procs :
       start_profile(blind) \/ stop_components(blind) \/ stop_owned_process(blind)
  \/ \E p \in Procs : Exec(p) \/ Hang(p) \/ Exit(p) \/ Reuse(p)

\* What happens when nothing fails.
Work ==
  \/ \E op \in Ops : acquire_lifecycle_lock(op)
  \/ Step
  \/ \E p \in Procs : Listen(p)

Next == Work \/ Fault

Spec == Init /\ [][Next]_vars

\* The operator keeps trying what the launcher's messages advise (stop
\* --forget-stale, activate, start), commands go on, servers come to listen,
\* and from some point on nothing fails and external components answer.
FairSpec ==
  /\ Spec
  /\ WF_vars(Step)
  /\ \A p \in Procs : WF_vars(Listen(p))
  /\ \A op \in {"forget", "activate", "start"} : SF_vars(acquire_lifecycle_lock(op))
  /\ <>[][Work]_vars
  /\ <>[](\A c \in Components : external[c])

-----------------------------------------------------------------------------
(* Properties                                                                *)

\* The files and the command hold values of their types, a running start has a
\* generation to start from, and the next command can load the files: the
\* active generation is whole, the processes of the record differ.
TypeOK ==
  /\ source \in Sources
  /\ active \in Sources \cup {None}
  /\ staged \in [Sources -> {"none", "partial", "complete"}]
  /\ record \in [Components -> Owned \cup {None}]
  /\ proc \in [Procs -> [status : Alive \cup {"dead", "reused"}, comp : Components,
                         gen : Sources \cup {None}, exec : BOOLEAN]]
  /\ external \in [Components -> BOOLEAN]
  /\ cmd.mem \in [Components -> Owned \cup {None}]
  /\ cmd.started \subseteq Components
  /\ cmd.pc \in {"spawn", "save", "wait", "final"} => cmd.gen \in Sources
  /\ \A m \in {record, cmd.mem} :
       Cardinality(Tracked(m)) = Cardinality({c \in Components : m[c] # None})
  /\ active # None => staged[active] = "complete"
  /\ orphaned \in BOOLEAN

\* Servers the launcher owns run the active generation: activation and rollback
\* never change the configuration under a running server, and no start mixes
\* generations, whoever was killed before.
OwnedRunsActive ==
  \A p \in Tracked(record) \cup Tracked(cmd.mem) :
    proc[p].status \in Alive => proc[p].gen = active

\* Every live server is one the record names or the running start will roll
\* back, unless a launcher was killed between spawn and record, a signal of a
\* rollback failed, an operator forgot a live process, or stop took a live
\* process for gone: ps could not say, or a wrapper that had been signalled
\* executed the server all the same.
NothingLeftBehind ==
  \/ orphaned
  \/ \A p \in Procs : proc[p].status \in Alive =>
       p \in Tracked(record) \cup Tracked(cmd.mem)

\* Following the launcher's advice brings the stack up, from every state that
\* failures and kills can leave behind, unless a server was orphaned.
AdviceRecovers == []<>(ReadyAmong(Components) \/ orphaned)
=============================================================================
